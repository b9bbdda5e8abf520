-------------------------------- MODULE RESP --------------------------------
(***************************************************************************)
(* The wire format of internal/resp, which is also the format of the       *)
(* append-only file: a command is an array of bulk strings.  A stream is a *)
(* sequence of bytes; the bytes that matter to the parser are "*", "$",    *)
(* "CR", "LF", the signs and the digits, and a payload may hold any of     *)
(* them.  Numbers are written in a base of the model's choosing, so that   *)
(* short payloads already have lengths of several digits.                  *)
(***************************************************************************)
EXTENDS Integers, Sequences, FiniteSetsExt, Functions

CONSTANTS
    Byte,              \* the bytes
    Digits,            \* the digits, least first: their number is the base
    MaxBulkLength,     \* the longest payload the parser accepts
    MaxArrayLength,    \* the most arguments it accepts
    ReaderBufSize,     \* the longest header line, its CRLF included
    MaxInt64           \* the largest integer of the machine word

Base == Len(Digits)
CRLF == <<"CR", "LF">>

\* strconv.AppendInt.
Numeral[n \in Nat] ==
    IF n < Base THEN <<Digits[n + 1]>>
                ELSE Append(Numeral[n \div Base], Digits[(n % Base) + 1])
Itoa(n) == IF n < 0 THEN <<"-">> \o Numeral[-n] ELSE Numeral[n]

MinInt64 == -MaxInt64 - 1
Int64    == MinInt64 .. MaxInt64

Bytes == Seq(Byte)

\* Digits are told from each other, from the signs and from the end of a line, and a
\* count that the reader accepts fits the buffer and the machine word.
ASSUME RESPAssumption ==
    /\ {"*", "$", "+", "-", "CR", "LF"} \subseteq Byte
    /\ Digits \in Seq(Byte) /\ Base >= 2
    /\ \A i, j \in 1 .. Base : Digits[i] = Digits[j] => i = j
    /\ \A i \in 1 .. Base : Digits[i] \notin {"+", "-", "LF"}
    /\ MaxInt64 \in Nat /\ ReaderBufSize \in Nat
    /\ \A max \in {MaxBulkLength, MaxArrayLength} :
          max \in 0 .. MaxInt64 /\ \A n \in 0 .. max : 1 + Len(Itoa(n)) + 2 <= ReaderBufSize

-----------------------------------------------------------------------------
(***************************************************************************)
(* The writer.                                                             *)
(***************************************************************************)
writeCountLine(typ, n) == <<typ>> \o Itoa(n) \o CRLF

\* A bulk string whose length counts no CR, as if it were a line of text.
WriteBulkString_text(p) ==
    writeCountLine("$", Len(SelectSeq(p, LAMBDA b : b # "CR"))) \o p \o CRLF

WriteBulkString(p) == writeCountLine("$", Len(p)) \o p \o CRLF

\* The array header, then argument after argument: written(args)[k] is the command up to
\* its k-th argument, the whole of it what Log.Append adds to the file.
written(args) ==
    LET bytes[k \in 0 .. Len(args)] ==
            IF k = 0 THEN writeCountLine("*", Len(args)) ELSE bytes[k - 1] \o WriteBulkString(args[k])
    IN  bytes
writeCommand(args) == written(args)[Len(args)]

\* EncodedLen with every length taken for a single digit.
countLineLen_oneDigit(n) == 1 + 1 + 2

\* EncodedLen: the number of bytes writeCommand writes, derived without writing; again
\* argument after argument.
countLineLen(n) == 1 + Len(Itoa(n)) + 2
measured(args) ==
    LET size[k \in 0 .. Len(args)] ==
            IF k = 0 THEN countLineLen(Len(args))
                     ELSE size[k - 1] + countLineLen(Len(args[k])) + Len(args[k]) + 2
    IN  size
EncodedLen(args) == measured(args)[Len(args)]

-----------------------------------------------------------------------------
(***************************************************************************)
(* The reader.  Every operator reads the stream s from position i on, and  *)
(* returns what it read with the position after it, or the error.          *)
(***************************************************************************)
Got(x, i)     == [err |-> "nil", got |-> x, next |-> i]
EOF           == [err |-> "EOF"]
UnexpectedEOF == [err |-> "UnexpectedEOF"]
ProtocolError == [err |-> "Protocol"]
OK(r)         == r.err = "nil"

\* unexpectedEOF: inside a command a clean end of the stream is a truncation.
unexpectedEOF(r) == IF r = EOF THEN UnexpectedEOF ELSE r

\* strconv.ParseInt: an optional sign, then digits, within the machine word.
DigitValue(c) == CHOOSE v \in 0 .. Base - 1 : Digits[v + 1] = c
values(b) ==
    LET value[k \in 0 .. Len(b)] ==
            IF k = 0 THEN 0 ELSE value[k - 1] * Base + DigitValue(b[k])
    IN  value
Value(b) == values(b)[Len(b)]
parseInt(b) ==
    LET signed == b # <<>> /\ b[1] \in {"+", "-"}
        digits == IF signed THEN Tail(b) ELSE b
        n      == IF signed /\ b[1] = "-" THEN -Value(digits) ELSE Value(digits)
    IN  IF digits = <<>> \/ ~(Range(digits) \subseteq Range(Digits)) THEN ProtocolError
        ELSE IF n \in Int64 THEN Got(n, 0) ELSE ProtocolError

\* readLine: ReadSlice up to the first LF of a buffer's worth, then its checks.
readLine(s, i) ==
    LET ends == {j \in i .. Min({Len(s), i + ReaderBufSize - 1}) : s[j] = "LF"}
        lf   == Min(ends)
    IN  CASE i > Len(s)                                  -> EOF
          [] i <= Len(s) /\ ends = {}                    ->
                IF Len(s) - i + 1 >= ReaderBufSize THEN ProtocolError ELSE UnexpectedEOF
          [] ends # {} /\ (lf < i + 2 \/ s[lf - 1] # "CR") -> ProtocolError
          [] OTHER                                       -> Got(SubSeq(s, i, lf - 2), lf + 1)

\* A header line's count: its type byte, then an integer up to max.
readCount(s, i, typ, max) ==
    LET line == readLine(s, i)
        n    == parseInt(Tail(line.got))
    IN  IF ~OK(line) THEN line
        ELSE IF line.got[1] = typ /\ OK(n) /\ n.got \in 0 .. max THEN Got(n.got, line.next)
        ELSE ProtocolError

\* The payload, and the CRLF at position end.
readBulkString(s, i) ==
    LET n   == unexpectedEOF(readCount(s, i, "$", MaxBulkLength))
        end == n.next + n.got
    IN  IF ~OK(n) THEN n
        ELSE IF end + 1 > Len(s) THEN UnexpectedEOF
        ELSE IF SubSeq(s, end, end + 1) # CRLF THEN ProtocolError
        ELSE Got(SubSeq(s, n.next, end - 1), end + 2)

\* One round of ReadCommand's loop, after those that have read the arguments in read.
readArg(s, read) ==
    LET arg == readBulkString(s, read.next)
    IN  IF ~OK(read) THEN read
        ELSE IF ~OK(arg) THEN arg
        ELSE Got(Append(read.got, arg.got), arg.next)

\* The loop: readArgs(s, i, n)[k] is what its first k rounds have read.
readArgs(s, i, n) ==
    LET args[k \in 0 .. n] == IF k = 0 THEN Got(<<>>, i) ELSE readArg(s, args[k - 1])
    IN  args

ReadCommand(s, i) ==
    LET n == readCount(s, i, "*", MaxArrayLength)
    IN  IF OK(n) THEN readArgs(s, n.next, n.got)[n.got] ELSE n
=============================================================================
