------------------------------ MODULE LogFile ------------------------------
(***************************************************************************)
(* One key's way through the append-only file, byte by byte: a command's   *)
(* number becomes a deadline (server/commands.go), the deadline a record   *)
(* (store), the record bytes (resp), a crash cuts the bytes anywhere, and  *)
(* replay (aof/replay.go, applyLogged) reads, repairs and applies what is  *)
(* left.  Integers have the machine's width.  Time is counted in ticks (a  *)
(* nanosecond in the code).                                                *)
(***************************************************************************)
EXTENDS RESP

CONSTANTS
    Absent,        \* no entry under the key
    Ms, Sec,       \* ticks per millisecond and per second
    Values,        \* values a client sets
    TimedValue,    \* the value it sets with an expiry
    Suffix,        \* what APPEND adds
    Counts,        \* the numbers a client sends as expiry
    Start,         \* the clock at the first start
    MaxNow,        \* bound on the clock
    MaxRecords     \* bound on the records in the file

\* A value is never taken for a missing entry.  The clock starts late enough for a
\* deadline to have a positive number of milliseconds, and ends within a Duration.
ASSUME LogFileAssumption ==
    /\ {"S", "D", "X", "P", "k"} \subseteq Byte
    /\ Absent \notin Bytes
    /\ Values \subseteq Bytes /\ TimedValue \in Bytes /\ Suffix \in Bytes
    /\ Counts \subseteq Int
    /\ Ms \in 2 .. MaxInt64 /\ Sec \in 2 .. MaxInt64
    /\ Start \in Ms .. MaxInt64 /\ MaxNow \in Start .. MaxInt64
    /\ MaxArrayLength >= 5

VARIABLES
    phase,         \* "up", "down" after a crash, "refused" when replay gave up
    now,           \* the wall clock
    val, exp,      \* the entry of the key
    file,          \* the bytes of the log
    records        \* the records whose bytes the server has put in the file

vars == <<phase, now, val, exp, file, records>>

Never == 0
Units == {Ms, Sec}

Init ==
    /\ phase = "up"
    /\ now = Start
    /\ val = Absent
    /\ exp = Never
    /\ file = <<>>
    /\ records = <<>>

-----------------------------------------------------------------------------
(***************************************************************************)
(* The records.  Command names and option words are one byte each.         *)
(***************************************************************************)
cmdSET       == <<"S">>
cmdDEL       == <<"D">>
cmdPXAT      == <<"X">>
cmdPEXPIREAT == <<"P">>
Key          == <<"k">>

unixMillis(t) == Itoa(t \div Ms)

SetRecord(v, e) ==
    IF e = Never THEN <<cmdSET, Key, v>>
                 ELSE <<cmdSET, Key, v, cmdPXAT, unixMillis(e)>>
DelRecord == <<cmdDEL, Key>>

\* The bytes of the first k records, and of all of them.
encoded(rs) ==
    LET bytes[k \in 0 .. Len(rs)] ==
            IF k = 0 THEN <<>> ELSE bytes[k - 1] \o writeCommand(rs[k])
    IN  bytes
EncodeAll(rs) == encoded(rs)[Len(rs)]

\* A mutation leaves entry (v, e) and appends the records rs.
Commit(v, e, rs) ==
    /\ phase = "up"
    /\ Len(records) + Len(rs) <= MaxRecords
    /\ val' = v
    /\ exp' = e
    /\ file' = file \o EncodeAll(rs)
    /\ records' = records \o rs
    /\ UNCHANGED <<phase, now>>

Present == val # Absent
Expired == exp # Never /\ exp <= now
Drop    == Present /\ Commit(Absent, Never, <<DelRecord>>)

-----------------------------------------------------------------------------
(***************************************************************************)
(* The machine's integers and the arithmetic of expiry.                    *)
(***************************************************************************)
Wrap(x) == ((x - MinInt64) % (2 * (MaxInt64 + 1))) + MinInt64
Quo(a, b) == IF a < 0 THEN -((-a) \div b) ELSE a \div b    \* Go's division truncates

\* parseTTL without its overflow check.
parseTTL_unchecked(n, unit) == {Wrap(n * unit)}

\* parseTTL: the duration of n units, or nothing when the product would overflow.
parseTTL(n, unit) ==
    IF n > Quo(MaxInt64, unit) \/ n < Quo(MinInt64, unit) THEN {} ELSE {Wrap(n * unit)}

\* ttlIn truncating instead of rounding to the nearest.
ttlIn_truncates(d, unit) == LET n == Quo(d, unit) IN IF n < 1 THEN 1 ELSE n

\* ttlIn: the reply to TTL (or PTTL) for a key with d left.
ttlIn(d, unit) ==
    LET n == Quo(Wrap(d + unit \div 2), unit) IN IF n < 1 THEN 1 ELSE n

-----------------------------------------------------------------------------
(***************************************************************************)
(* The handlers.                                                           *)
(***************************************************************************)
Set(v, e) == Commit(v, e, <<SetRecord(v, e)>>)

\* SetWithDeadline, which deletes when the deadline is already reached.
SetWithDeadline(v, at) == IF at > now THEN Set(v, at) ELSE Drop

\* ExpireAt; a key that is gone, or gone by then, is deleted.
ExpireAt(at) ==
    /\ Present
    /\ IF Expired \/ at <= now
         THEN Drop
         ELSE Commit(val, at, <<<<cmdPEXPIREAT, Key, unixMillis(at)>>>>)

set == \E v \in Values : Set(v, Never)

\* set with EX or PX, and with EXAT or PXAT: a number that is not positive is
\* refused.
setIn(n, unit) == \E d \in parseTTL(n, unit) : d > 0 /\ Set(TimedValue, now + d)
setAt(n, unit) == \E d \in parseTTL(n, unit) : d > 0 /\ SetWithDeadline(TimedValue, d)

expireIn(n, unit)   == \E d \in parseTTL(n, unit) : ExpireAt(now + d)
expireAtIn(n, unit) == \E d \in parseTTL(n, unit) : ExpireAt(d)

del == Drop

\* The entry a read-modify-write starts from; an expired one is deleted first, without
\* a record.
Live       == Present /\ ~Expired
LiveExp    == IF Live THEN exp ELSE Never
Replace(v) == Set(v, LiveExp)

append == Replace((IF Live THEN val ELSE <<>>) \o Suffix)

\* Increment without the overflow check.
Fits_unchecked(n, delta) == TRUE

\* Increment's overflow check, and Increment.
Fits(n, delta) ==
    ~ \/ delta > 0 /\ n > MaxInt64 - delta
      \/ delta < 0 /\ n < MinInt64 - delta

Increment(delta) ==
    LET n == IF Live THEN parseInt(val) ELSE Got(0, 0)
    IN  /\ OK(n)
        /\ Fits(n.got, delta)
        /\ Replace(Itoa(Wrap(n.got + delta)))

-----------------------------------------------------------------------------
(***************************************************************************)
(* Crash and restart.                                                      *)
(***************************************************************************)
\* The process dies and any prefix of the file is what the disk has.
Crash ==
    /\ phase = "up"
    /\ phase' = "down"
    /\ \E n \in 0 .. Len(file) : file' = SubSeq(file, 1, n)
    /\ val' = Absent
    /\ exp' = Never
    /\ UNCHANGED <<now, records>>

\* No entry.
gone == [val |-> Absent, exp |-> Never]

\* applyLogged: the entries the record args may leave when replayed over e (one,
\* or none when the handler's reply is an error).
applyLogged(args, e) ==
    LET number  == parseInt(args[Len(args)])
        until   == IF OK(number) THEN parseTTL(number.got, Ms) ELSE {}
        dead    == e.val = Absent \/ (e.exp # Never /\ e.exp <= now)
    IN  CASE args[1] = cmdDEL -> {gone}
          [] args[1] = cmdSET /\ Len(args) = 3 -> {[val |-> args[3], exp |-> Never]}
          [] args[1] = cmdSET /\ Len(args) = 5 ->
                {IF d > now THEN [val |-> args[3], exp |-> d] ELSE gone :
                    d \in {u \in until : u > 0}}
          [] args[1] = cmdPEXPIREAT ->
                {IF dead \/ d <= now THEN gone ELSE [e EXCEPT !.exp = d] : d \in until}

\* What Replay's loop makes of c, the outcome of its read: l.cmds were applied so far,
\* l.bytes is their encoded length and l.entry what they left; a loop that is done has the
\* size of the file it leaves.
Handle(l, c) ==
    LET applied == applyLogged(c.got, l.entry)
        corrupt == [l EXCEPT !.phase = "refused"]
    IN  CASE c = EOF           -> [l EXCEPT !.phase = "up"]
          [] c = UnexpectedEOF -> [l EXCEPT !.phase = "up", !.size = l.bytes]    \* os.Truncate
          [] c = ProtocolError -> corrupt
          [] OK(c) /\ c.got = <<>> -> [l EXCEPT !.next = c.next]
          [] OK(c) /\ c.got # <<>> ->
                IF applied = {} THEN corrupt
                ELSE [l EXCEPT !.next = c.next, !.cmds = Append(l.cmds, c.got),
                               !.bytes = l.bytes + EncodedLen(c.got),
                               !.entry = CHOOSE e \in applied : TRUE]

\* One round of the loop.
Round(l)    == Handle(l, ReadCommand(file, l.next))
Continue(l) == IF l.phase = "down" THEN Round(l) ELSE l

\* The loop: rounds[k] is where its first k rounds have come.  Every round but the last
\* reads a header line, four bytes or more: so many rounds see the end of the file.
MaxRounds == Len(file) \div 4 + 1
rounds ==
    LET loop[k \in 0 .. MaxRounds] ==
            IF k = 0
              THEN [phase |-> "down", next |-> 1, cmds |-> <<>>, bytes |-> 0,
                    size |-> Len(file), entry |-> gone]
              ELSE Continue(loop[k - 1])
    IN  loop
replay == rounds[MaxRounds]

Restart(r) ==
    /\ phase' = r.phase
    /\ file' = SubSeq(file, 1, r.size)
    /\ IF r.phase = "up"
         THEN records' = r.cmds /\ val' = r.entry.val /\ exp' = r.entry.exp
         ELSE UNCHANGED <<records, val, exp>>

Replay ==
    /\ phase = "down"
    /\ Restart(replay)
    /\ UNCHANGED now

Tick ==
    /\ phase = "up"
    /\ now < MaxNow
    /\ now' = now + 1
    /\ UNCHANGED <<phase, val, exp, file, records>>

Next ==
    \/ set \/ del \/ append
    \/ \E delta \in {1, -1} : Increment(delta)
    \/ \E n \in Counts, unit \in Units :
          setIn(n, unit) \/ setAt(n, unit) \/ expireIn(n, unit) \/ expireAtIn(n, unit)
    \/ Crash \/ Replay \/ Tick

Spec == Init /\ [][Next]_vars

-----------------------------------------------------------------------------
(***************************************************************************)
(* Properties.                                                             *)
(***************************************************************************)
\* The records of rs that lie whole within the first n bytes of their encoding.
Whole(rs, n) ==
    SubSeq(rs, 1, Max({m \in 0 .. Len(rs) : Len(EncodeAll(SubSeq(rs, 1, m))) <= n}))

\* Replay applies exactly the records that survived the crash whole, in order,
\* and leaves the file at the end of the last of them, so that the next append
\* starts a record and not the middle of one: whatever byte the file was cut at,
\* and whatever bytes the payloads hold.
RestartExact ==
    [][phase = "down" /\ phase' = "up" =>
          /\ records' = Whole(records, Len(file))
          /\ file' = EncodeAll(records')]_vars

\* The limits the reader puts on a record and the writer does not: a value APPEND
\* has grown past the longest bulk string, and a deadline, set relative to the
\* clock, whose distance from the epoch overflows a Duration.
Unreadable(r) ==
    \/ \E i \in DOMAIN r : Len(r[i]) > MaxBulkLength
    \/ r[1] = cmdPEXPIREAT /\ parseInt(r[Len(r)]).got * Ms > MaxInt64
    \/ r[1] = cmdSET /\ Len(r) = 5 /\ parseInt(r[Len(r)]).got * Ms > MaxInt64

\* Replay refuses a log this server wrote only for a record beyond those limits;
\* a crash alone, wherever it cuts, never makes the server unbootable.
RefusesOnlyUnreadable ==
    phase = "refused" => \E i \in DOMAIN records : Unreadable(records[i])

\* ErrCorrupt "cannot be explained by a crash mid-write": a log only ever written
\* by this server is never refused.
Restartable == phase # "refused"

\* A number parseTTL lets through gives the deadline the client asked for, not
\* one the multiplication has wrapped into the past.
DeadlineAsAsked ==
    [][\A n \in Counts, unit \in Units :
          /\ setIn(n, unit)    => val' = TimedValue /\ exp' = now + n * unit
          /\ expireIn(n, unit) => IF n > 0 /\ ~Expired THEN exp' = now + n * unit
                                                       ELSE val' = Absent]_vars

\* INCR and DECR move the counter by one; at the end of the machine word they are
\* refused rather than wrapped to the other end.
CounterMoves ==
    [][\A delta \in {1, -1} :
          Increment(delta) =>
             parseInt(val').got = (IF Live THEN parseInt(val).got ELSE 0) + delta]_vars

\* TTL replies with the nearest number of units, and never less than 1 for a live
\* key; only in the last half unit of a Duration does rounding up overflow.
TtlNearest ==
    phase = "up" /\ Live /\ exp # Never =>
        \A unit \in Units :
            LET d == exp - now
                n == ttlIn(d, unit)
            IN  IF d > MaxInt64 - unit \div 2
                  THEN n = 1
                  ELSE n >= 1 /\ (n * unit - d) * 2 <= (IF d < unit THEN 2 * unit ELSE unit)
                              /\ (d - n * unit) * 2 < unit
=============================================================================
