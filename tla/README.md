# A TLA+ verification of redisclone

This directory specifies redisclone in TLA+, model-checks it with TLC on small instances and
proves its main safety properties with TLAPS for every size.

The source is read as it is: an action stands for one critical section of one Go method, with
the method's guards, early returns and error paths. Data is abstract (a value is an element of
a set, a log record is its effect on each key) except in `RESP` and `LogFile`, whose subject is
the bytes. `PROJECT.json` maps every definition to the lines it stands for.

## 1. The system

| part | code | what it does | here |
|---|---|---|---|
| sharded keyspace | `internal/store/store.go`, `shard*.go` | 32 shards, each a map, an index of keys with a deadline and a byte counter under one RWMutex; `commitMu` ("the gate") orders mutations while a journal is attached | `Keyspace`, `Store`; its contract is `AtomicStore`, the mapping `Atomicity` |
| active expiry | `internal/store/expire.go` | a background sampler collects expired keys | `Expiry`; over-approximated in `Store` |
| memory limit | `internal/store/evict.go` | before each write, evict until the budget is met, journal each victim | `Eviction`; over-approximated in `Store` |
| append-only log | `internal/aof/aof.go` | buffered records, three fsync policies, a latched error, a background rewrite | `AOFLog` |
| log rewrite | `aof.go`, `store.go:AOFSnapshot` | a snapshot of the live store plus a tail of what raced with it replaces the file | `AOFLog` (under faults), `Rewrite` (with values and deadlines) |
| replay | `internal/aof/replay.go`, `server.go:applyLogged` | cut a torn tail, run the handlers again | `LogFile` (bytes), `AOFLog!Replay`, `Keyspace!applyLogged` |
| dispatch | `internal/server/commands.go` | MISCONF check, budget, handler, sync, reply | `AOFLog!Admit` to `Reply`, `Eviction!dispatch`, `Server!Dispatch...`; handlers in `Store` and `LogFile` |
| connections, shutdown | `internal/server/server.go`, `cmd/redisclone/main.go` | one goroutine per connection; Drain, WaitBackground, Close | `Server` |
| RESP codec | `internal/resp` | reader, and the writer of commands | `RESP` |
| TTL arithmetic | `commands.go:parseTTL`, `ttlIn`; `store.go:Increment` | int64 conversions and overflow checks | `LogFile` |

How they interact. A connection goroutine parses a command and dispatches it. A write command is
refused if the log has failed, evicts until the budget is met, takes the gate (if there is a
journal), then one shard lock, or several in increasing order, changes the shards, appends its
record to the log's buffer, releases everything, and under `always` waits for an fsync before
the reply leaves. The sampler, the sync timer and a rewrite run beside it. The lock order is
gate, shards (ascending), `Log.mu`; reads take one shard's read lock at a time and never the gate.

How the modules are put together:

    Keyspace ── AtomicStore                      RESP ── LogFile
       └── Store ── Atomicity (Store => AtomicStore)
             ├──── Accounting                    AOFLog ── Server (Server => AOFLog)
             └──── Rewrite                       Eviction, Expiry

## 2. The modules

**`Keyspace`** (no state): entries, expiry at an instant, and a journal record as a function from
keys to effects (put, delete, stamp a deadline). `ReplayKey` is what the handler of a record does
to one key when it is replayed at time `t`. `Res` clock ticks make a millisecond, so the
truncation by `unixMillis` is visible.

**`Store`**: every client has a program counter that moves through the critical sections.

| code | actions |
|---|---|
| connection reads a command; `SetWithTTL`/`SetWithDeadline` with a reached deadline becomes `Del` | `Call` with `Effective` |
| `lockDurableMutation` | `lockDurableMutation` |
| `Get` (and MGET): look, then re-check under the write lock | `Get`, `GetCollect` |
| `Exists` | `Exists` |
| `setLocked`, `propagateSetLocked` | same names: two steps, the shard is free between them |
| `MSet`, `Del` | `lockWriteShards`, `Batch` (one key each), `BatchCommit`, `unlockWriteShards` |
| `ExpireAt` | `ExpireAtGone` or `ExpireAtBegin`, `ExpireAtEnd` |
| `Increment`, `Append` | `RmwPeek`, `RmwCheck`, `RmwDrop`, `RmwCalc` or `RmwRefuse`, then `setLocked` |
| `EnforceMemoryLimit` | `pickVictim`, `Evict`, `EvictAppend`, `EvictDone` |
| `expireSample` | `expireSample` |

`Increment` and `Append` keep a `*entry` while they hold no lock. `ptr[p]` is that entry as it is
now, and `attached` says whether it is still the one in the map; `ExpireAt` writes through the
pointer. The write of `expiresAt` is two steps, and a read in between (a data race in Go) may
return any deadline: `DeadlineSeen`.

The journal is represented by `replayed[t]`, the keyspace that replaying all records so far at
time `t` rebuilds; appending a record maps `applyLogged` over it. This keeps the whole content of
the journal, for every restart time, in a bounded state. `Journals(p)` names the record that the
next step of `p` appends.

Over-approximations in `Store`: the sampler may take any expired indexed key at any time;
eviction may pick any key, as a request of its own; appends succeed (failures are `AOFLog`'s
subject). The clock does not step backwards. DECR is INCR with another delta.

**`Accounting`** (no state of its own) says what the counters of `Store` count: `UsedExact`.

**`AtomicStore`** is what the store promises: one map, and one action per command that has the
command's whole effect at one instant. Its only liberties are that a command may judge expiry by
a clock it read at an earlier instant (`Earlier`), and that a read-modify-write whose entry is
collected under it stores an entry that is dead already (`UpdateDead`). **`Atomicity`** is the
refinement mapping: a batch counts as done from the moment it holds all its shards, so a key it
has not come to yet maps to what the batch will leave there (`kvBar`).

**`Rewrite`**: `Store` and the goroutine of BGREWRITEAOF.

| code | actions |
|---|---|
| `Log.Append` mirroring into `rewriteTail` | `Mirror`, part of every client step |
| `BeginRewrite` | `BeginRewrite` |
| `AOFSnapshot`: the clock once, then shard after shard under the read lock | `StartSnapshot`, `AOFSnapshot(s)` |
| `FinishRewrite`, `abortRewrite` | same names, with `EndRewrite` |

The tail is, like the journal, kept as its effect: `tail[t][k]` is what replaying all mirrored
records at time `t` does to `k`, composed with `Then`.

**`AOFLog`**: a mutation is a number, its place in the order of the gate. A file is a snapshot
(`base`: what it reflects, shard by shard) followed by records (`log`), of which the first
`synced` are on stable storage; `buf` is the `bufio.Writer`; `partial` a torn last record.

| code | actions |
|---|---|
| `dispatch`: MISCONF check | `Admit` |
| mutation under the gate | `Commit` |
| `Log.Append`, including a buffer that overflows into the file | `AppendOk`, `AppendFails` |
| `SyncIfAlways`, tick of `RunSyncLoop` | `Flush`, `FlushFails`, `Fsync`, `FsyncFails`, `SyncRefused` (`Log.mu` is held from flush to fsync) |
| reply | `Reply`; `acked` if the log was in good order, `blind` if it had failed |
| BGREWRITEAOF | `BeginRewrite`, `AOFSnapshot` (one shard each), `FinishRewrite`, `abortRewrite` |
| orderly end | `Close`, `CloseFails` |
| crash, power loss, restart | `ProcessCrash`, `MachineCrash`, `Replay` |

External assumptions: write(2) appends in order, possibly in part; a machine crash keeps what was
synced and some prefix of the rest; a rename is durable by itself unless `RenameVolatile`.
Evictions are ordinary mutations here.

**`Server`** extends `AOFLog` with connections and with `main`. A client's bytes arrive in halves
of a command, so that a read may end inside one; `replies` is the connection's write buffer.

| code | actions |
|---|---|
| clients (external): send, stop reading, leave | `Send`, `Quit` |
| `Serve` | `Accept`; `ServeFails` when Accept fails for good and `log.Fatalf` skips the deferred calls |
| `HandleConn`: `flushBeforeRead`, `ReadCommand` | `FlushReplies`, `Receive` |
| `dispatch` | `DispatchWrite` (with `AOFLog!Admit`), `DispatchRewrite`, `DispatchOther` |
| the command's work in store and log, its reply | `Work`, `Answer` |
| the deferred flush, close and `connWG.Done` | `Return` |
| signal, `Drain` and its timeout, `WaitBackground`, deferred `Log.Close` | `Shutdown`, `DrainTimeout`, `Drained`, `WaitBackground`, `CloseLog` |
| `RunSyncLoop` with its cancellation and last sync; the rewrite goroutine | `SyncLoop`, `RewriteLoop` |

`Server` assumes a policy other than `always`: under `always` `dispatch` puts the reply into the
write buffer before it syncs, and `AOFLog` has the reply as the last step of the sync.

**`Eviction`**: `dispatch` and `EnforceMemoryLimit` with the walk of `Used` over the shards, the
four policies, the samples of `pickVictim` (any part of a shard's pool of the right size, as a Go
map is ranged over in any order), the deletion of the victim by name, and the handler, which takes
the gate again and does not look at the budget. `tick` is the LRU clock, which the sampler's round
advances; stamps are kept as ranks, since only their order is compared.

**`Expiry`**: the ticker, the rounds with their quarter threshold and their cap, the shards in
order, the sample, which the shards use up one after the other. Clients stamp and remove keys, and
deadlines pass, between any two shards; a key that comes due after the round has read the clock
is left for the next (`late`).

**`RESP`**: the writer of commands and the reader as operators over sequences of bytes, with the
reader's limits and its errors (EOF at a record's edge, unexpected EOF inside one, protocol error).

**`LogFile`**: one key on its way from a client's number to a deadline (`parseTTL`), to a record
(`unixMillis`), to bytes, through a crash that cuts the file at any byte, and back through
`replay` (`Replay`'s loop, `EncodedLen`, the truncation of a torn tail) and `applyLogged`.
Integers wrap as a machine word does. Loops (over the arguments of a command, the digits of a
number, the records of the file) are recursive functions, `f[k]` being what the first `k` rounds
have done, so that they can be reasoned about.

The `MC` modules give the constants values. Definitions marked "Mutant" next to an action are
plausible bugs of that action. They are in no specification; each was substituted for its action
to see that the property it is meant for notices.

## 3. What TLC checks

Runs that pass:

| run (`.cfg`) | instance | checks |
|---|---|---|
| `StoreDurable` | journal; 1 key, 2 clients, 3 values, 2 ticks per ms, 4 instants; all one-key commands, eviction, sampler | `IndexExact`: the index of volatile keys is exact; `RmwAtomic`, `NoTornDeadline`: INCR/APPEND lose nothing and read no torn deadline; `ReplayNeverInvents`, `PersistentKeysSurvive`: what a restart at any later time brings back; `ImplementsAtomic`: every interleaving is a sequence of whole commands |
| `Rewrite` | journal; 2 keys in 2 shards, 2 clients; MSET and DEL over both shards, SET, EXPIREAT, and rewrites | `ImplementsAtomic` for batches; `ReplayNeverInvents`, `PersistentKeysSurvive` across rewrites; `RewriteLosesNothing`: under a settled key the new file brings back whatever the old one would |
| `StoreCache` | no journal, fairness; 2 keys in 2 shards; MSET, DEL, MGET, EXISTS, SET, INCR, EXPIREAT | `UsedExact`: the memory counters are exact; `NoDeadlock`: clients never all wait for each other's locks; `OnlyLocksBlock`: they wait for nothing else, nor for a lock of their own; `CallsReturn`: nobody waits for ever |
| `LogAlways` | `always`, all faults and crashes; 2 writers, 3 mutations, the second an MSET over 2 shards, buffer of 2 | `AckedSurvive`, `NothingForgotten`, `BatchesWhole`; `CrashLeavesPrefix`: no crash leaves a hole in the commits; `FailureContained`: after a failure at most one undurable reply per connection |
| `Server` | `everysec`, fairness; one client pipelines 2 commands in 4 halves, one is connected and silent; write buffer of 1 reply, 2 mutations, log buffer of 1 | `QuietAtClose`, `ShutdownKeepsAll`, `NothingForgotten`; `Answered`: every whole command is answered, also behind half of the next; `ShutdownEnds`: a signal ends the process whatever the clients do; `EverysecReachesDisk` |
| `Eviction` | 4 keys of 1 byte in 2 shards, 2 clients, budget 1, sample 2; all policies, with and without a journal | `BoundedOvershoot`: the budget is exceeded by at most one command per client; `PersistentKept`: a key without a TTL goes only where the policy says so |
| `Expiry` | 4 keys in 3 shards, sample 2, 2 rounds, fairness | `CycleEnds`; `ReleasedIfReached`: an expired key is released if the shards before its own cannot use up the sample |
| `LogFile` | six-bit word, numbers in base four, 2 ticks per ms and 4 per s, 2 records, bulk limit 4; payloads hold CR, LF and `*` | `RestartExact`: replay applies exactly the whole records and truncates there; `RefusesOnlyUnreadable`; `DeadlineAsAsked`, `TtlNearest`, `CounterMoves`: the arithmetic does not wrap where the code guards it |

Each run also checks its module's type invariant, except `StoreCache` (`StoreDurable` has
`Store`'s, and it is proved) and `LogFile`.

Why the bounds are enough. Each race here is between one operation's window and one other
operation, so two clients suffice; one key is enough for what concerns an entry, and two keys in
two shards for batches and for a snapshot that reads shard by shard. Three mutations put one
before, one across and one after a rewrite's snapshot, and the buffer overflows. The instants
allow a deadline to pass in every window and, with two ticks per millisecond, a deadline to differ
from its journalled form. In `Eviction` the budget is a quarter of the keyspace, so that both
clients can exceed it and one victim is not always enough. In `Expiry` the first two shards are
always reached and the third only sometimes. In `LogFile` the counts lie on both sides of what
`parseTTL` lets through, and the values at both ends of the word. What the bounds leave open is
mostly closed by the proofs, which have none. Symmetry is used for writers, clients and the keys
of one shard, and only in runs without liveness properties.

Deadlock is checked except in `Server`, whose process ends, and in `LogFile`, which stops when the
log is refused.

Fairness (liveness only). `StoreCache`: strong fairness of each client's next step, because
`sync.Mutex` and `sync.RWMutex` do not starve a waiter. `Server`: strong fairness of each handler,
of the sync loop, of a rewrite and of `main`, because system calls return, the ticker keeps firing
and Drain's timer fires; clients owe nothing and `DispatchOther` may be any command. `Expiry`: weak
fairness of the sampler, and strong fairness of looking at each key that a sample may contain,
because Go starts ranging over a map at a random place. No client is obliged to send a command, no
key to expire, and no crash is fair.

Runs that show a disagreement between the code and what a comment, document or test says of it
(`findings` in `PROJECT.json` quotes the lines):

| run | what happens |
|---|---|
| `StoreLostUpdate` | without a journal, INCR/APPEND overwrite a concurrent update of the same key (`RmwAtomic`) |
| `StoreLostExtension` | SET with a deadline, then EXPIREAT later: a replay after the first deadline loses the live key (`ReplayKeepsLiveKeys`) |
| `RewriteMix` | the snapshot sees a SET whose record is not appended yet, while an older PEXPIREAT of the key is in the tail: until the record follows, the new file gives the new value the old deadline (`RacesAreHarmless`) |
| `LogFileRefused` | a value that APPEND has grown past the reader's bulk limit, or a relative expiry with a far absolute deadline, is journalled and then refused by replay: the server does not start (`Restartable`) |

`RewriteMix` and the run `Rewrite` fit together: the mixture is confined to a key that a command
is in the middle of changing, and `RewriteLosesNothing` shows that settled keys are safe.

## 4. What is proved

All theorems hold for every value of the constants that satisfies the `ASSUME`s of the modules
(`KeyspaceAssumption`, `StoreAssumption`, `LogAssumption`, `ServerAssumption`,
`MemoryAssumption`, `RESPAssumption`, `LogFileAssumption`): any keys, values, clients, shards,
requests and sizes, any pattern of faults and crashes. The first five only give the constants
their types. The last two say more, and are discussed under `LogFileProofs`.

`StoreProofs`
- `TypeCorrect`, `IndexIsExact`: with or without a journal. The induction needs `Base`: types,
  plus `Shape` (a client's position agrees with its command and locals) and `Locks` (a shard's
  write lock is held exactly while its holder is in the code that took it).
- `RmwIsAtomic`, `DeadlinesNotTorn`, assuming a journal. `Durably` adds to `Base`: `GateHeld`
  (whoever is inside a mutation holds the gate, so at most one is), `Attached` (the pointer of a
  read-modify-write equals the map's entry as long as it is attached, and it is detached only by
  expiry) and `RmwHeld` (the value about to be stored carries that entry's deadline). Without a
  journal the statement is false: `StoreLostUpdate`.

`AtomicProofs`, assuming a journal except in its last section (for `DeadlockFree`, below)
- `NothingInvented`, `PersistentKeysRecovered`. Neither is inductive, because a record is appended
  after its mutation is visible. `Faithful` speaks of what a key comes back as *once the pending
  record of the gate's holder is appended*: it is what the store has, or it is lost and had a
  deadline; and replay never leaves an entry expired at its own time. Unjournalled expiry is
  harmless since a key that expired at `now` is expired in `replayed[t]` for all `t >= now`. Each
  step leaves a key alone, appends its pending effect, prepares one, or restamps the key
  (`ClientTouches`, at the end of `StoreProofs`), and `AgreesStep` has one case for each of the
  four.
- `StoreIsAtomic`: `Store` implements `AtomicStore`. `Linear` adds to `Durably`: `Origins` (a
  command is one of `Requests`, or the `Del` that a `SET` with a reached deadline turned into) and
  `Readiness` (at the point where a command changes the store, what it stores is what its request
  and the entry it read call for, and that entry was alive by the command's clock). `BarExact`
  computes the mapping: at most one batch is under way, so `kvBar` differs from `data` only in
  that batch's keys. Every step is then one abstract command, an expiry, a tick or a stutter.

`RewriteProofs`
- `RewriteTypeCorrect`, `RewriteInventsNothing`, `RewriteKeepsPersistent`, `RewriteIsLossless`,
  assuming a journal. The new file becomes the journal in one step, so `Faithful` must hold of it
  beforehand. `RewriteInv` follows each key (`Followed`): until the snapshot reads the key, what
  the tail does to it is already part of the journal (`Ahead`); from then on the file under
  construction agrees with the store and keeps what the journal keeps, with the gate holder's
  pending record appended. A key whose record is pending when it is read comes right when the
  record is mirrored, which is why the mixture of `RewriteMix` never outlives the command.
- `RewriteIsInvisible`: `ImplementsAtomic` of `Store` with a rewrite beside it, whose steps all
  map to stutters.
- `UsedIsExact`, with or without a journal. Besides `Base`, the induction needs that the store
  holds finitely many entries; then each store or deletion changes one summand, by the difference
  that the code adds to the counter.
- `DeadlockFree`, with or without a journal. `InOrder` says that a client which holds a shard is
  past the gate, in the code that took the shard, and that the shards a batch still waits for lie
  above all that it holds. So whoever holds the highest shard of all waits for nothing
  (`SomebodyRuns`, at the end of `AtomicProofs`); if no shard is held, the holder of the gate can
  go on. That some shard is the highest comes from `SumProofs`.

`AOFLogProofs`
- `LogTypeCorrect`, `NoneForgotten`: no hypotheses. `Control` relates positions, `Log.mu` and the
  rewrite's state; `TailComplete` says that during a rewrite each mutation is in the tail, in the
  snapshot of each of its shards, in a shard still to be read, or in flight.
- `AckedAreDurable`, `BatchesAreWhole`, if a rename is durable. `Disk` adds `Flushed` (a writer in
  fsync has its record in the file), `AckedOnDisk`, and `SnapWhole` (a batch seen in one shard is
  on its way into all of them, because its shards stay locked until its record is appended).
- `ShutdownIsComplete`: an orderly end with a log in good order has every mutation on disk.
- `CrashesLeavePrefix`, if a rename is durable. `Order` says that memory holds a gapless set of
  mutations, that the one in flight is the last, that neither file, buffer nor tail holds anything
  memory does not, and that file and buffer, cut anywhere past the synced part, leave no hole.

`ServerProofs`, about `AOFLog` alone
- `FailuresAreContained`. `BlindBound` counts: each undurable reply uses up a connection that was
  past the MISCONF check when the log failed.

`ServerProofs`, about `Server`
- `ServerImplementsLog`: hiding connections and `main`, every behaviour of `Server` is one of
  `AOFLog`; hence `ServerShutdownIsComplete` and `ServerForgetsNothing`.
- `ShutdownIsQuiet`. `AOFLog!Close` requires that no writer and no rewrite is at work; `Shutting`
  shows that Drain and WaitBackground bring this about: a mutation in flight belongs to a handler
  that is still running, and no handler is left when Drain returns.
- `ServerTypes`: the bounds of each connection's counters (`Counters`) and `Shutting` together.

`EvictionProofs`
- `PersistentEntriesKept`. `Kept`: with a journal the gate is held from the first look at the
  budget to the last deletion, so the victim that `volatile-lru` has picked cannot turn into a key
  without a TTL before it is deleted by name.
- `OvershootBounded`. `Used <= MaxMemory + N * MaxGrowth` is not inductive: a count of the bytes
  is a walk over the shards, and whatever is stored in a shard behind the walk is missed.
  `Budgeted` says that there is an order of the walks under way, in which each walk that began
  earlier comes before it, such that for each walk either what it has missed so far and all that
  may be stored ahead of it (one command for each handler at work and for each earlier walk) come
  to at most one command of each other client, or the store itself has room for what is ahead. A
  walk starts last in the order with nothing missed; a store moves one command from what is ahead
  to what is missed; a walk that ends within the budget turns the first alternative into the
  bound on `Used`.
- `EvictionTypes`: `Walked`, what a walk keeps locally, with the types that the other two need.

`LogFileProofs`
- `LogFileInvariant` and, from it, `CrashesAreRepaired` (`RefusesOnlyUnreadable`) and
  `RestartsAreExact` (`RestartExact`): for any payloads, any base, any limits of the reader, any
  number of records and any cut. `Inv` says that the records have one of the four shapes the
  store journals, that the bytes of the file are a beginning of their encoding, and all of it while
  the server is up, and that no deadline is further from the clock than a Duration reaches.
  The argument goes up the layers of the codec. A number that is written is read back (`Parsed`);
  a line, a bulk string, the arguments and the command that are written are each read back when
  they are whole, found cut short when they are not, and refused only beyond the limits
  (`LineRead`, `CountRead`, `BulkRead`, `ArgsRead`, `CommandRead`), whatever bytes the payload
  holds; what `EncodedLen` measures is what `writeCommand` writes (`WrittenLen`). So every round of
  `Replay`'s loop reads one more record of the file (`RoundKept`), the loop comes to the end of the
  file (`ReplayEnds`), and what it has applied is `Whole`.
- `DeadlinesAreAsAsked`, `CountersMove`, `TtlIsNearest`: the arithmetic, in a machine word of any
  width. `Wrapped` says that a number within the word is left alone by it; the guards of `parseTTL`
  and `Increment` keep the result within the word, and since `Inv` bounds a stored deadline, what
  is left of it fits a Duration, and rounding it up overflows in the last half unit only.

What this rests on. `RESPAssumption`: the digits are distinct and none is a sign or a line end, and
a count that the reader accepts fits its line buffer and the machine word (at most nine digits
against 16 KB, for the limits in `reader.go`). `LogFileAssumption`: a millisecond and a second are
more than one tick and within a Duration, the clock is at least a millisecond past the epoch and
within a Duration of it (it is until 2262), and the reader accepts commands of five arguments.

`SumProofs` has what `RewriteProofs` (for counters and deadlock) and `EvictionProofs` need of sums
over finite sets and of greatest numbers. The sum of the community modules is a fold in an order
that `CHOOSE` picks, and the lemmas show that any element may be taken out first. `EvictionProofs`
collects what it needs in `Sums`, argues from that, and shows it at the end (`SumsHold`).

Induction runs over a set of numbers, by the least element outside it (`Least`, `Inductive`),
because the library's induction theorems take an operator that the provers cannot instantiate.
`LogFileProofs` gets from it that a recursive function over `0 .. n` exists and is unique, and what
it computes.

Only model-checked:
- all liveness (`CallsReturn`, `Answered`, `ShutdownEnds`, `EverysecReachesDisk`, `CycleEnds`,
  `ReleasedIfReached`): liveness under fairness is out of the prover's reach;
- `OnlyLocksBlock`, which says that `NoDeadlock` has looked at everything a client may wait for: it
  speaks of `ENABLED`, which is out of the prover's reach as well;
- the bounds of the sampler (`TypeOK` of `Expiry`), the one other safety property of a passing run
  that is not proved: what there is to say of the sampler is that it ends and what it reaches, and
  that is liveness.

## 5. Limits

Known behaviours that no run states as a property:

- EXISTS and MGET read shard by shard and may see half of an MSET or DEL. What a reader has seen
  is not part of the state that is mapped to `AtomicStore`.
- EXPIREAT judges by a clock it read before it waited for the gate, and may revive a key that a
  later reader has reported missing. `AtomicStore` allows it (`Earlier`), and `StoreIsAtomic`
  shows that nothing worse happens.
- Without a directory fsync a machine crash may undo the rename of a rewrite, with what was
  acknowledged since. `RenameVolatile` models it; the run and the theorems about crashes assume it
  away.
- Under `no` and `everysec` a process crash, or the end of `Serve` by an Accept error, loses what
  is in the 64 KB buffer.
- Volatile keys in late shards may never be sampled while the early shards hold enough of them:
  the hypothesis of `ReleasedIfReached`. Lazy expiry still hides them from readers.
- Under `noeviction` a DEL is refused like any write when the budget is exceeded.
- Under `always` a reply is in the connection's write buffer before its fsync. An overflow of that
  buffer sends at most part of the reply, so it is whole at the client only after the fsync;
  `AOFLog` has it leave after the fsync, and `Server`, which has the buffer, excludes `always`.

Not modelled:

- `ParseMemory` and `ParseEvictionPolicy`, which parse two command-line flags at start;
- arity and option syntax of commands, and the commands that only format a reply: INFO, CONFIG GET,
  PING, ECHO, COMMAND, TTL, STRLEN and DBSIZE on the store's side (`ttlIn` itself is in `LogFile`);
- the writers of RESP replies other than commands and bulk strings;
- statistics counters, logging, pprof;
- the FNV hash: any function from keys to shards will do, and the proofs quantify over it;
- a clock that steps backwards.

## 6. Running

    tlc -config StoreDurable.cfg MCStore
    tlapm StoreProofs.tla

| configuration | module |
|---|---|
| `StoreDurable`, `StoreCache`, `StoreLostUpdate`, `StoreLostExtension` | `MCStore` |
| `Rewrite`, `RewriteMix` | `MCRewrite` |
| `LogAlways` | `MCAOFLog` |
| `Server` | `MCServer` |
| `Eviction` | `MCEviction` |
| `Expiry` | `MCExpiry` |
| `LogFile`, `LogFileRefused` | `MCLogFile` |

Every run takes less than five minutes. The modules with proofs are `StoreProofs`, `AtomicProofs`,
`RewriteProofs`, `AOFLogProofs`, `ServerProofs`, `EvictionProofs`, `LogFileProofs` and `SumProofs`;
each takes up to half an hour.
