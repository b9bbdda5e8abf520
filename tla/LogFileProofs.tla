---------------------------- MODULE LogFileProofs ----------------------------
(***************************************************************************)
(* From numbers to bytes and back, for every base, every limit of the      *)
(* reader and every payload: what the writer of internal/resp writes, the  *)
(* reader reads, or finds cut short, or refuses for its size; so replay    *)
(* applies exactly the records that a crash has left whole.                *)
(*                                                                         *)
(* The recursive functions of RESP and LogFile are loops.  That such a     *)
(* function exists, and what it computes, is proved by induction over sets *)
(* of numbers.                                                             *)
(***************************************************************************)
EXTENDS LogFile, WellFoundedInduction, TLAPS

\* A set of numbers that is not empty has a least element.
LEMMA Least ==
  ASSUME NEW T \in SUBSET Nat, T # {}
  PROVE  \E m \in T : \A n \in T : m <= n
<1> DEFINE R == {ss \in Nat \X Nat : ss[1] < ss[2]}
<1>1. IsWellFoundedOn(R, Nat)
  BY NatLessThanWellFounded DEF OpToRel
<1>2. \A m, n \in T : <<n, m>> \notin R => m <= n
  OBVIOUS
<1> HIDE DEF R
<1>3. PICK m \in T : \A n \in T : <<n, m>> \notin R
  BY Zenon, <1>1, WFMin
<1> QED BY Zenon, <1>2, <1>3

\* A set that holds 0, and each number's successor, holds every number.
LEMMA Inductive ==
  ASSUME NEW T \in SUBSET Nat, 0 \in T, \A n \in T : n + 1 \in T
  PROVE  \A n \in Nat : n \in T
<1> SUFFICES ASSUME Nat \ T # {} PROVE FALSE
  OBVIOUS
<1>1. PICK m \in Nat \ T : \A n \in Nat \ T : m <= n
  <2> DEFINE U == Nat \ T
  <2>1. U \in SUBSET Nat /\ U # {}
    OBVIOUS
  <2> HIDE DEF U
  <2>2. \E m \in U : \A n \in U : m <= n
    BY <2>1, Least
  <2> QED BY <2>2 DEF U
<1>2. m # 0 /\ m - 1 \in Nat
  OBVIOUS
<1>3. m - 1 \in T
  BY <1>1, <1>2
<1>4. (m - 1) + 1 \in T
  BY <1>3
<1> QED BY <1>4



-----------------------------------------------------------------------------
(***************************************************************************)
(* Loops.                                                                  *)
(***************************************************************************)
\* The rounds of a loop over states S; f is its trace from state a on: its state before
\* the first round, and after each of n.
Loop(step, n, S) == step \in [1 .. n -> [S -> S]]
Trace(f, step, n, S, a) ==
    f \in [0 .. n -> S] /\ f[0] = a /\ \A k \in 1 .. n : f[k] = step[k][f[k - 1]]

\* Two functions that begin alike and go on alike, and two that are alike.
GoAlike(f, g, n) == f[0] = g[0] /\ \A k \in 1 .. n : f[k - 1] = g[k - 1] => f[k] = g[k]
Alike(f, g, n)   == \A k \in 0 .. n : f[k] = g[k]

\* Every loop has a trace.
LEMMA LoopExists ==
  ASSUME NEW n \in Nat, NEW S, NEW a \in S, NEW step, Loop(step, n, S)
  PROVE  \E f : Trace(f, step, n, S, a)
<1> DEFINE T == {m \in Nat : m <= n => \E f : Trace(f, step, m, S, a)}
<1>1. 0 \in T
  <2> DEFINE f0 == [k \in 0 .. 0 |-> a]
  <2>1. Trace(f0, step, 0, S, a)
    BY DEF Trace
  <2> QED BY <2>1
<1>2. ASSUME NEW m \in T PROVE m + 1 \in T
  <2>0. m \in Nat /\ m + 1 \in Nat
    OBVIOUS
  <2> SUFFICES ASSUME m + 1 <= n PROVE \E f : Trace(f, step, m + 1, S, a)
    BY <2>0
  <2>1. PICK f : Trace(f, step, m, S, a)
    BY <1>2, <2>0
  <2> DEFINE b == step[m + 1][f[m]]
             g == [k \in 0 .. m + 1 |-> IF k = m + 1 THEN b ELSE f[k]]
  <2>2. f[m] \in S /\ b \in S
    BY <2>0, <2>1 DEF Trace, Loop
  <2>3. g \in [0 .. m + 1 -> S] /\ g[0] = a /\ g[m + 1] = b /\ \A k \in 0 .. m : g[k] = f[k]
    BY <2>0, <2>1, <2>2 DEF Trace
  <2>4. ASSUME NEW k \in 1 .. m + 1 PROVE g[k] = step[k][g[k - 1]]
    <3> HIDE DEF g
    <3>1. CASE k = m + 1
      <4>1. k - 1 = m /\ m \in 0 .. m
        BY <2>0, <3>1
      <4>2. g[k - 1] = f[m]
        BY <2>3, <4>1
      <4> QED BY <2>3, <3>1, <4>2
    <3>2. CASE k \in 1 .. m
      BY <2>0, <2>1, <2>3, <3>2 DEF Trace
    <3> QED BY <2>0, <3>1, <3>2
  <2> HIDE DEF g
  <2> QED BY <2>3, <2>4 DEF Trace
<1>3. n \in T
  <2> HIDE DEF T
  <2>1. T \in SUBSET Nat
    BY DEF T
  <2> QED BY <1>1, <1>2, <2>1, Inductive
<1> QED BY <1>3

\* Functions that begin alike and go on alike are alike.
LEMMA LoopsAgree ==
  ASSUME NEW n \in Nat, NEW f, NEW g, GoAlike(f, g, n)
  PROVE  Alike(f, g, n)
<1> DEFINE T == {m \in Nat : m <= n => f[m] = g[m]}
<1>1. 0 \in T
  BY DEF GoAlike
<1>2. ASSUME NEW m \in T PROVE m + 1 \in T
  <2> SUFFICES ASSUME m + 1 <= n PROVE f[m + 1] = g[m + 1]
    OBVIOUS
  <2>1. m + 1 \in 1 .. n /\ (m + 1) - 1 = m /\ f[m] = g[m]
    OBVIOUS
  <2> QED BY <2>1 DEF GoAlike
<1>3. T \in SUBSET Nat
  OBVIOUS
<1> HIDE DEF T
<1>4. \A m \in Nat : m \in T
  BY <1>1, <1>2, <1>3, Inductive
<1> QED BY <1>4 DEF T, Alike

\* Concatenation.
LEMMA Concat ==
  ASSUME NEW s \in Bytes, NEW t \in Bytes
  PROVE  /\ s \o t \in Bytes /\ Len(s) \in Nat /\ Len(t) \in Nat /\ Len(s \o t) = Len(s) + Len(t)
         /\ \A i \in 1 .. Len(s) : (s \o t)[i] = s[i]
         /\ \A i \in 1 .. Len(t) : (s \o t)[Len(s) + i] = t[i]
BY DEF Bytes

\* A single byte, and the end of a line.
LEMMA OneByte ==
  ASSUME NEW c \in Byte
  PROVE  <<c>> \in Bytes /\ Len(<<c>>) = 1 /\ <<c>>[1] = c
BY DEF Bytes

\* The end of a line.
LEMMA LineEnd == CRLF \in Bytes /\ Len(CRLF) = 2 /\ CRLF[1] = "CR" /\ CRLF[2] = "LF"
<1>1. "CR" \in Byte /\ "LF" \in Byte
  BY RESPAssumption
<1>2. ASSUME NEW c \in Byte, NEW d \in Byte
      PROVE  <<c, d>> \in Bytes /\ Len(<<c, d>>) = 2 /\ <<c, d>>[1] = c /\ <<c, d>>[2] = d
  BY DEF Bytes
<1> QED BY <1>1, <1>2 DEF CRLF

\* Sequences with the same bytes are the same.
LEMMA SameBytes ==
  ASSUME NEW s \in Bytes, NEW t \in Bytes, Len(s) = Len(t), \A i \in 1 .. Len(s) : s[i] = t[i]
  PROVE  s = t
BY DEF Bytes

\* What a loop's trace satisfies, from an operator's recursive definition.
LEMMA Written ==
  ASSUME NEW args \in Seq(Bytes), \A p \in Bytes : WriteBulkString(p) \in Bytes,
         \A n \in Nat : writeCountLine("*", n) \in Bytes
  PROVE  /\ written(args) \in [0 .. Len(args) -> Bytes]
         /\ written(args)[0] = writeCountLine("*", Len(args))
         /\ \A k \in 1 .. Len(args) : written(args)[k] = written(args)[k - 1] \o WriteBulkString(args[k])
<1> DEFINE n == Len(args)
           a == writeCountLine("*", Len(args))
           b(k, x) == x \o WriteBulkString(args[k])
           step == [k \in 1 .. n |-> [x \in Bytes |-> b(k, x)]]
           Runs(g) == g = [k \in 0 .. n |-> IF k = 0 THEN a ELSE b(k, g[k - 1])]
           w == written(args)
<1>0. n \in Nat /\ a \in Bytes
  OBVIOUS
<1>b. \A k \in 1 .. n, x \in Bytes : b(k, x) \in Bytes
  BY Concat
<1>5. Runs(w) <=> \E g : Runs(g)
  <2>1. w = CHOOSE g : Runs(g)
    BY DEF written
  <2> HIDE DEF Runs, w
  <2> QED BY <2>1
<1> HIDE DEF n, a, b, w
<1>1. Loop(step, n, Bytes)
  BY <1>b DEF Loop
<1>2. PICK f : Trace(f, step, n, Bytes, a)
  <2> HIDE DEF step
  <2> QED BY <1>0, <1>1, LoopExists, Zenon
<1>3. f[0] = a /\ \A k \in 1 .. n : f[k] = b(k, f[k - 1])
  BY <1>0, <1>2 DEF Trace
<1>4. Runs(f)
  BY <1>0, <1>2, <1>3 DEF Trace
<1>6. w[0] = a /\ \A k \in 1 .. n : w[k] = b(k, w[k - 1])
  BY <1>0, <1>4, <1>5
<1>7. Alike(f, w, n)
  <2>1. GoAlike(f, w, n)
    BY <1>3, <1>6 DEF GoAlike
  <2> QED BY <1>0, <2>1, LoopsAgree, Zenon
<1>8. w \in [0 .. n -> Bytes]
  BY Zenon, <1>2, <1>4, <1>5, <1>7 DEF Trace, Alike
<1> QED BY <1>6, <1>8 DEF n, a, b, w

-----------------------------------------------------------------------------
(***************************************************************************)
(* Numbers and their numerals.                                             *)
(***************************************************************************)

\* A numeral is a digit, or that of a smaller number with a digit behind it.
Digit(v) == Digits[v + 1]
Spelled(f, n) == IF n < Base THEN <<Digit(n)>> ELSE Append(f[n \div Base], Digit(n % Base))
Numerals(f, m)  == f \in [0 .. m -> Bytes] /\ \A n \in 0 .. m : f[n] = Spelled(f, n)

\* The base, and its digits.
LEMMA BaseType == Base \in Nat /\ Base >= 2 /\ \A v \in 0 .. Base - 1 : Digit(v) \in Byte
<1>1. Digits \in Seq(Byte) /\ Base >= 2 /\ Base = Len(Digits)
  BY RESPAssumption DEF Base
<1>2. Base \in Nat /\ \A i \in 1 .. Base : Digits[i] \in Byte
  BY <1>1
<1>3. \A v \in 0 .. Base - 1 : v + 1 \in 1 .. Base
  BY <1>2
<1> QED BY <1>1, <1>2, <1>3 DEF Digit

\* Division by the base.
LEMMA Division ==
  ASSUME NEW n \in Nat
  PROVE  /\ n \div Base \in Nat /\ n % Base \in 0 .. Base - 1
         /\ n = Base * (n \div Base) + (n % Base)
         /\ n >= Base => n \div Base < n /\ n \div Base >= 1
         /\ n < Base => n \div Base = 0 /\ n % Base = n
<1> DEFINE q == n \div Base
           m == n % Base
<1>0. Base \in Nat /\ Base >= 2
  BY BaseType
<1>1. PICK B \in Nat : B = Base /\ B >= 2
  BY <1>0
<1>2. n \div B \in Int /\ n % B \in 0 .. B - 1 /\ n = B * (n \div B) + (n % B)
  <2>0. B \in Nat /\ B > 0
    BY <1>1
  <2>1. n % B \in 0 .. B - 1 /\ n \div B \in Int
    BY <2>0
  <2>2. n = B * (n \div B) + (n % B)
    BY <2>0
  <2> QED BY <2>1, <2>2
<1>3. n \div B >= 0
  <2> SUFFICES ASSUME n \div B <= -1 PROVE FALSE
    BY <1>2
  <2>1. PICK p \in Int, z \in Int : p = n \div B /\ z = B * p
    BY <1>1, <1>2
  <2>2. z <= -B
    BY <1>1, <2>1
  <2> QED BY <1>1, <1>2, <2>1, <2>2
<1>4. PICK p \in Nat, z \in Nat, r \in Nat : p = n \div B /\ z = B * p /\ r = n % B
  <2>1. n \div B \in Nat /\ n % B \in Nat
    BY <1>1, <1>2, <1>3
  <2>2. B * (n \div B) \in Nat
    BY <1>1, <2>1
  <2> QED BY <2>1, <2>2
<1>5. n = z + r /\ r < B /\ (p = 0 => z = 0) /\ (p >= 1 => z >= B) /\ z >= 2 * p
  BY <1>1, <1>2, <1>4
<1>6. (n >= B => p < n /\ p >= 1) /\ (n < B => p = 0 /\ r = n)
  BY <1>1, <1>4, <1>5
<1> QED BY <1>1, <1>2, <1>4, <1>6

\* What a number is spelled with is bytes when the smaller numerals are.
LEMMA SpelledType ==
  ASSUME NEW n \in Nat, NEW f, n >= Base => f[n \div Base] \in Bytes
  PROVE  Spelled(f, n) \in Bytes
<1>1. CASE n < Base
  <2>1. Digit(n) \in Byte
    BY <1>1, BaseType
  <2> QED BY <1>1, <2>1 DEF Spelled, Bytes
<1>2. CASE n >= Base
  <2>1. Digit(n % Base) \in Byte
    BY Division, BaseType
  <2>2. Spelled(f, n) = Append(f[n \div Base], Digit(n % Base))
    BY <1>2, BaseType DEF Spelled
  <2> QED BY <1>2, <2>1, <2>2 DEF Bytes
<1> QED BY <1>1, <1>2, BaseType

\* There are numerals up to any number.
LEMMA NumeralsUpTo == \A m \in Nat : \E f : Numerals(f, m)
<1> DEFINE T == {m \in Nat : \E f : Numerals(f, m)}
<1>1. 0 \in T
  <2> DEFINE f == [n \in 0 .. 0 |-> <<Digit(0)>>]
  <2>0. \A g : Spelled(g, 0) = <<Digit(0)>>
    BY BaseType DEF Spelled
  <2>1. <<Digit(0)>> \in Bytes
    BY BaseType DEF Bytes
  <2>2. Numerals(f, 0)
    BY <2>0, <2>1 DEF Numerals
  <2> QED BY <2>2
<1>2. ASSUME NEW m \in T PROVE m + 1 \in T
  <2>0. m \in Nat
    OBVIOUS
  <2>1. PICK f : Numerals(f, m)
    OBVIOUS
  <2> DEFINE b == Spelled(f, m + 1)
             g == [n \in 0 .. m + 1 |-> IF n = m + 1 THEN b ELSE f[n]]
  <2>2. b \in Bytes
    <3>1. m + 1 >= Base => (m + 1) \div Base \in 0 .. m
      BY <2>0, Division
    <3>2. m + 1 >= Base => f[(m + 1) \div Base] \in Bytes
      BY <2>1, <3>1 DEF Numerals
    <3> QED BY <2>0, <3>2, SpelledType
  <2>3. g \in [0 .. m + 1 -> Bytes] /\ g[m + 1] = b /\ \A n \in 0 .. m : g[n] = f[n]
    BY <2>0, <2>1, <2>2 DEF Numerals
  <2> HIDE DEF g
  <2>4. ASSUME NEW n \in 0 .. m + 1 PROVE g[n] = Spelled(g, n)
    <3>0. n \in Nat
      BY <2>0
    <3>1. n >= Base => n \div Base \in 0 .. m
      BY <2>0, <3>0, Division
    <3>2. n >= Base => g[n \div Base] = f[n \div Base]
      BY <2>3, <3>1
    <3>3. Spelled(g, n) = Spelled(f, n)
      BY <3>0, <3>2, BaseType DEF Spelled
    <3>4. CASE n = m + 1
      BY <2>3, <3>3, <3>4
    <3>5. CASE n \in 0 .. m
      BY <2>1, <2>3, <3>3, <3>5 DEF Numerals
    <3> QED BY <2>0, <3>4, <3>5
  <2>5. Numerals(g, m + 1)
    BY <2>3, <2>4 DEF Numerals
  <2> QED BY <2>0, <2>5
<1>3. T \in SUBSET Nat
  OBVIOUS
<1> HIDE DEF T
<1>4. \A m \in Nat : m \in T
  BY <1>1, <1>2, <1>3, Inductive
<1> QED BY <1>4 DEF T

\* There are no two ways of spelling a number.
LEMMA NumeralsAgree ==
  ASSUME NEW m \in Nat, NEW k \in Nat, NEW f, NEW g, Numerals(f, m), Numerals(g, k)
  PROVE  \A n \in Nat : n <= m /\ n <= k => f[n] = g[n]
<1> SUFFICES ASSUME \E n \in Nat : n <= m /\ n <= k /\ f[n] # g[n] PROVE FALSE
  OBVIOUS
<1> DEFINE U == {n \in Nat : n <= m /\ n <= k /\ f[n] # g[n]}
<1>1. U \in SUBSET Nat /\ U # {}
  OBVIOUS
<1>2. PICK n \in U : \A i \in U : n <= i
  <2> HIDE DEF U
  <2> QED BY <1>1, Least
<1>3. n >= Base => n \div Base \in Nat /\ n \div Base < n
  BY Division
<1>4. n >= Base => f[n \div Base] = g[n \div Base]
  BY <1>2, <1>3
<1>5. Spelled(f, n) = Spelled(g, n)
  BY <1>4, BaseType DEF Spelled
<1> QED BY <1>5 DEF Numerals

\* The equation that defines Numeral, and its type.
LEMMA NumeralIs ==
  /\ Numeral \in [Nat -> Bytes]
  /\ \A n \in Nat : Numeral[n] = Spelled(Numeral, n)
<1> DEFINE F(m) == CHOOSE f : Numerals(f, m)
           h == [n \in Nat |-> F(n)[n]]
           Runs(g) == g = [n \in Nat |-> Spelled(g, n)]
<1>1. \A m \in Nat : Numerals(F(m), m)
  BY NumeralsUpTo
<1> HIDE DEF F
<1>2. h \in [Nat -> Bytes]
  BY <1>1 DEF Numerals
<1>3. ASSUME NEW n \in Nat PROVE h[n] = Spelled(h, n)
  <2>1. F(n)[n] = Spelled(F(n), n)
    BY <1>1 DEF Numerals
  <2>2. n >= Base => n \div Base \in Nat /\ n \div Base <= n
    BY Division
  <2>3. n >= Base => F(n)[n \div Base] = F(n \div Base)[n \div Base]
    BY <1>1, <2>2, NumeralsAgree
  <2>4. Spelled(F(n), n) = Spelled(h, n)
    BY <2>2, <2>3, BaseType DEF Spelled
  <2> QED BY <2>1, <2>4
<1>4. Runs(h)
  BY <1>2, <1>3
<1>5. Runs(Numeral)
  <2>1. Numeral = CHOOSE g : Runs(g)
    BY DEF Numeral, Spelled, Digit
  <2> HIDE DEF Runs, h
  <2> QED BY <1>4, <2>1
<1>6. \A n \in Nat : Numeral[n] = Spelled(Numeral, n)
  BY <1>5
<1>7. ASSUME NEW n \in Nat PROVE Numeral[n] \in Bytes
  <2> DEFINE U == {i \in Nat : Numeral[i] \notin Bytes}
  <2> SUFFICES ASSUME U # {} PROVE FALSE
    OBVIOUS
  <2>1. PICK i \in U : \A j \in U : i <= j
    <3>1. U \in SUBSET Nat
      OBVIOUS
    <3> HIDE DEF U
    <3> QED BY <3>1, Least
  <2>2. i >= Base => Numeral[i \div Base] \in Bytes
    BY <2>1, Division
  <2> QED BY <1>6, <2>1, <2>2, SpelledType
<1>8. Numeral \in [Nat -> Bytes]
  BY <1>5, <1>7
<1> QED BY <1>6, <1>8

\* A sequence of digits.
AllDigits(b) == b \in Bytes /\ \A k \in 1 .. Len(b) : \E v \in 0 .. Base - 1 : b[k] = Digit(v)

\* A digit is known by its value, and is neither a sign nor the end of a line.
LEMMA DigitKnown ==
  ASSUME NEW v \in 0 .. Base - 1
  PROVE  /\ DigitValue(Digit(v)) = v /\ Digit(v) \notin {"+", "-", "LF"} /\ Digit(v) \in Range(Digits)
<1>1. /\ Digits \in Bytes /\ Base = Len(Digits) /\ Base \in Nat /\ v + 1 \in 1 .. Base
      /\ \A i, j \in 1 .. Base : Digits[i] = Digits[j] => i = j
      /\ \A i \in 1 .. Base : Digits[i] \notin {"+", "-", "LF"}
  BY RESPAssumption, BaseType DEF Base, Bytes
<1>2. \A u \in 0 .. Base - 1 : Digits[u + 1] = Digits[v + 1] => u = v
  <2> SUFFICES ASSUME NEW u \in 0 .. Base - 1, Digits[u + 1] = Digits[v + 1] PROVE u = v
    OBVIOUS
  <2>1. u + 1 \in 1 .. Base
    BY <1>1
  <2>2. u + 1 = v + 1
    BY <1>1, <2>1
  <2> QED BY <1>1, <2>2
<1>3. DigitValue(Digit(v)) = v
  <2>1. DigitValue(Digit(v)) = CHOOSE u \in 0 .. Base - 1 : Digits[u + 1] = Digits[v + 1]
    BY DEF DigitValue, Digit
  <2> QED BY <1>2, <2>1
<1>4. Digit(v) \in Range(Digits)
  <2>1. DOMAIN Digits = 1 .. Base
    BY <1>1
  <2> QED BY <1>1, <2>1 DEF Range, Digit
<1> QED BY <1>1, <1>3, <1>4 DEF Digit

\* The value of a numeral, digit by digit.
LEMMA ValuesAre ==
  ASSUME NEW b, AllDigits(b)
  PROVE  /\ values(b) \in [0 .. Len(b) -> Nat] /\ values(b)[0] = 0
         /\ \A k \in 1 .. Len(b) : values(b)[k] = values(b)[k - 1] * Base + DigitValue(b[k])
<1> DEFINE n == Len(b)
           a == 0
           c(k, x) == x * Base + DigitValue(b[k])
           step == [k \in 1 .. n |-> [x \in Nat |-> c(k, x)]]
           Runs(g) == g = [k \in 0 .. n |-> IF k = 0 THEN a ELSE c(k, g[k - 1])]
           w == values(b)
<1>0. n \in Nat /\ a \in Nat
  BY DEF AllDigits, Bytes
<1>b. \A k \in 1 .. n, x \in Nat : c(k, x) \in Nat
  <2> SUFFICES ASSUME NEW k \in 1 .. n, NEW x \in Nat PROVE c(k, x) \in Nat
    OBVIOUS
  <2>1. DigitValue(b[k]) \in 0 .. Base - 1
    BY DigitKnown DEF AllDigits
  <2>2. x * Base \in Nat
    BY BaseType
  <2> QED BY <2>1, <2>2, BaseType
<1>5. Runs(w) <=> \E g : Runs(g)
  <2>1. w = CHOOSE g : Runs(g)
    BY DEF values
  <2> HIDE DEF Runs, w
  <2> QED BY <2>1
<1> HIDE DEF n, a, c, w
<1>1. Loop(step, n, Nat)
  BY <1>b DEF Loop
<1>2. PICK f : Trace(f, step, n, Nat, a)
  <2> HIDE DEF step
  <2> QED BY <1>0, <1>1, LoopExists, Zenon
<1>3. f[0] = a /\ \A k \in 1 .. n : f[k] = c(k, f[k - 1])
  <2> SUFFICES ASSUME NEW k \in 1 .. n PROVE f[k] = c(k, f[k - 1])
    BY <1>2 DEF Trace
  <2>1. k - 1 \in 0 .. n
    BY <1>0
  <2>2. PICK x \in Nat : x = f[k - 1]
    BY <1>2, <2>1 DEF Trace
  <2>3. f[k] = step[k][x]
    BY <1>2, <2>2 DEF Trace
  <2> QED BY <2>2, <2>3
<1>4. Runs(f)
  BY <1>0, <1>2, <1>3 DEF Trace
<1>6. w[0] = a /\ \A k \in 1 .. n : w[k] = c(k, w[k - 1])
  BY <1>0, <1>4, <1>5
<1>7. Alike(f, w, n)
  <2>1. GoAlike(f, w, n)
    BY <1>3, <1>6 DEF GoAlike
  <2> QED BY <1>0, <2>1, LoopsAgree, Zenon
<1>8. w \in [0 .. n -> Nat]
  BY Zenon, <1>2, <1>4, <1>5, <1>7 DEF Trace, Alike
<1> QED BY <1>6, <1>8 DEF n, a, c, w

\* A digit behind a numeral.
LEMMA ValueAppend ==
  ASSUME NEW b, AllDigits(b), NEW v \in 0 .. Base - 1
  PROVE  /\ AllDigits(Append(b, Digit(v))) /\ Value(b) \in Nat
         /\ Value(Append(b, Digit(v))) = Value(b) * Base + v
<1> DEFINE d == Append(b, Digit(v))
           n == Len(b)
<1>1. /\ d \in Bytes /\ Len(d) = n + 1 /\ n \in Nat /\ d[n + 1] = Digit(v)
      /\ \A k \in 1 .. n : d[k] = b[k]
  BY BaseType DEF AllDigits, Bytes
<1> HIDE DEF d, n
<1>2. AllDigits(d)
  <2> SUFFICES ASSUME NEW k \in 1 .. n + 1 PROVE \E u \in 0 .. Base - 1 : d[k] = Digit(u)
    BY <1>1 DEF AllDigits
  <2>1. CASE k = n + 1
    BY <1>1, <2>1
  <2>2. CASE k \in 1 .. n
    BY <1>1, <2>2 DEF AllDigits, n
  <2> QED BY <1>1, <2>1, <2>2
<1>3. PICK f, g : f = values(b) /\ g = values(d)
  OBVIOUS
<1>4. /\ f[0] = 0 /\ \A k \in 1 .. n : f[k] = f[k - 1] * Base + DigitValue(b[k])
      /\ f \in [0 .. n -> Nat]
  BY <1>3, ValuesAre DEF n
<1>5. g[0] = 0 /\ \A k \in 1 .. n + 1 : g[k] = g[k - 1] * Base + DigitValue(d[k])
  BY <1>1, <1>2, <1>3, ValuesAre
<1>6. \A k \in 1 .. n : g[k] = g[k - 1] * Base + DigitValue(b[k])
  BY <1>1, <1>5
<1>7. GoAlike(f, g, n)
  <2>1. ASSUME NEW k \in 1 .. n, f[k - 1] = g[k - 1] PROVE f[k] = g[k]
    <3>1. f[k] = f[k - 1] * Base + DigitValue(b[k]) /\ g[k] = g[k - 1] * Base + DigitValue(b[k])
      BY <1>4, <1>6
    <3> QED BY <2>1, <3>1, Zenon
  <2> QED BY <1>4, <1>5, <2>1 DEF GoAlike
<1>8. g[n] = f[n] /\ f[n] \in Nat
  BY <1>1, <1>4, <1>7, LoopsAgree DEF Alike
<1>9. g[n + 1] = g[n] * Base + v
  <2>1. n + 1 \in 1 .. n + 1 /\ (n + 1) - 1 = n
    BY <1>1
  <2> QED BY <1>1, <1>5, <2>1, DigitKnown
<1> QED BY <1>1, <1>2, <1>3, <1>8, <1>9 DEF Value, d, n

\* A numeral of one digit.
LEMMA ValueOne ==
  ASSUME NEW v \in 0 .. Base - 1
  PROVE  AllDigits(<<Digit(v)>>) /\ Value(<<Digit(v)>>) = v
<1>1. AllDigits(<<>>) /\ Len(<<>>) = 0
  BY DEF AllDigits, Bytes
<1>2. Append(<<>>, Digit(v)) = <<Digit(v)>>
  BY BaseType
<1>3. Value(<<>>) = 0
  BY <1>1, ValuesAre DEF Value
<1>4. AllDigits(Append(<<>>, Digit(v))) /\ Value(Append(<<>>, Digit(v))) = 0 * Base + v
  BY Zenon, <1>1, <1>3, ValueAppend
<1>5. 0 * Base + v = v
  BY BaseType
<1> QED BY <1>2, <1>4, <1>5

\* A numeral is made of digits, and is read back as the number it was written for.
LEMMA NumeralRead ==
  ASSUME NEW n \in Nat
  PROVE  AllDigits(Numeral[n]) /\ Value(Numeral[n]) = n /\ Len(Numeral[n]) >= 1
<1> DEFINE Good(i) == AllDigits(Numeral[i]) /\ Value(Numeral[i]) = i /\ Len(Numeral[i]) >= 1
           U == {i \in Nat : ~Good(i)}
<1> SUFFICES ASSUME U # {} PROVE FALSE
  OBVIOUS
<1>1. PICK i \in U : \A j \in U : i <= j
  <2>1. U \in SUBSET Nat
    OBVIOUS
  <2> HIDE DEF U
  <2> QED BY <2>1, Least
<1>2. i \in Nat /\ ~Good(i) /\ Numeral[i] = Spelled(Numeral, i)
  BY NumeralIs
<1>3. CASE i < Base
  <2>1. Numeral[i] = <<Digit(i)>> /\ i \in 0 .. Base - 1
    BY <1>2, <1>3, BaseType DEF Spelled
  <2> QED BY <1>2, <2>1, ValueOne
<1>4. CASE i >= Base
  <2> DEFINE q == i \div Base
             m == i % Base
  <2>1. q \in Nat /\ q < i /\ m \in 0 .. Base - 1 /\ i = Base * q + m
    BY <1>2, <1>4, Division
  <2>2. Numeral[i] = Append(Numeral[q], Digit(m))
    BY <1>2, <1>4, BaseType DEF Spelled
  <2> HIDE DEF q, m
  <2>3. Good(q)
    BY <1>1, <2>1
  <2>4. AllDigits(Numeral[i]) /\ Value(Numeral[i]) = q * Base + m
    BY <2>1, <2>2, <2>3, ValueAppend
  <2>5. Len(Numeral[i]) >= 1
    BY <2>2, <2>3, BaseType, <2>1 DEF AllDigits, Bytes
  <2>6. q * Base + m = i
    BY <2>1, BaseType
  <2> QED BY <1>2, <2>4, <2>5, <2>6
<1> QED BY <1>2, <1>3, <1>4, BaseType

\* A sequence of digits is one in the parser's eyes.
LEMMA DigitsAre ==
  ASSUME NEW b, AllDigits(b)
  PROVE  /\ Range(b) \subseteq Range(Digits)
         /\ \A k \in 1 .. Len(b) : b[k] \notin {"+", "-", "LF"}
<1>1. \A k \in 1 .. Len(b) : b[k] \in Range(Digits) /\ b[k] \notin {"+", "-", "LF"}
  BY DigitKnown DEF AllDigits
<1>2. DOMAIN b = 1 .. Len(b)
  BY DEF AllDigits, Bytes
<1> QED BY <1>1, <1>2 DEF Range

\* A number written by AppendInt is read back by ParseInt, or refused if it has no place in
\* the machine word.
LEMMA Parsed ==
  ASSUME NEW n \in Int
  PROVE  /\ Itoa(n) \in Bytes /\ Len(Itoa(n)) >= 1
         /\ n >= 0 => \A k \in 1 .. Len(Itoa(n)) : Itoa(n)[k] # "LF"
         /\ parseInt(Itoa(n)) = IF n \in Int64 THEN Got(n, 0) ELSE ProtocolError
<1>1. CASE n >= 0
  <2> DEFINE b == Numeral[n]
  <2>1. AllDigits(b) /\ Value(b) = n /\ Len(b) >= 1 /\ b \in Bytes
    BY <1>1, NumeralRead DEF AllDigits
  <2>2. Itoa(n) = b
    BY <1>1 DEF Itoa
  <2>3. Range(b) \subseteq Range(Digits) /\ \A k \in 1 .. Len(b) : b[k] \notin {"+", "-", "LF"}
    BY <2>1, DigitsAre
  <2> HIDE DEF b
  <2>4. b # <<>> /\ b[1] \notin {"+", "-"}
    BY <2>1, <2>3 DEF Bytes
  <2>5. parseInt(b) = IF n \in Int64 THEN Got(n, 0) ELSE ProtocolError
    BY <2>1, <2>3, <2>4 DEF parseInt
  <2> QED BY <2>1, <2>2, <2>3, <2>5
<1>2. CASE n < 0
  <2> DEFINE d == Numeral[-n]
             b == <<"-">> \o d
  <2>1. AllDigits(d) /\ Value(d) = -n /\ Len(d) >= 1 /\ d \in Bytes
    BY <1>2, NumeralRead DEF AllDigits
  <2>2. Itoa(n) = b
    BY <1>2 DEF Itoa
  <2>3. Range(d) \subseteq Range(Digits)
    BY <2>1, DigitsAre
  <2> HIDE DEF d
  <2>4. b \in Bytes /\ Len(b) >= 1 /\ b # <<>> /\ b[1] = "-" /\ Tail(b) = d /\ d # <<>>
    <3>1. /\ b \in Bytes /\ Len(b) = 1 + Len(d) /\ Len(d) \in Nat /\ b[1] = "-" /\ d # <<>>
          /\ \A k \in 1 .. Len(d) : b[1 + k] = d[k]
      <4>1. <<"-">> \in Bytes /\ Len(<<"-">>) = 1 /\ <<"-">>[1] = "-"
        <5>1. "-" \in Byte
          BY RESPAssumption
        <5> QED BY <5>1, OneByte
      <4>2. d # <<>> /\ Len(d) \in Nat
        BY <2>1 DEF Bytes
      <4> QED BY <2>1, <4>1, <4>2, Concat
    <3> HIDE DEF b
    <3>2. Tail(b) \in Bytes /\ Len(Tail(b)) = Len(d) /\ \A k \in 1 .. Len(d) : Tail(b)[k] = d[k]
      BY <3>1 DEF Bytes
    <3>3. Tail(b) = d
      BY Zenon, <2>1, <3>2, SameBytes
    <3> QED BY <3>1, <3>3 DEF Bytes
  <2> HIDE DEF b
  <2>5. -Value(d) = n
    BY <2>1
  <2>6. parseInt(b) = IF n \in Int64 THEN Got(n, 0) ELSE ProtocolError
    BY Zenon, <2>3, <2>4, <2>5 DEF parseInt
  <2> QED BY <1>2, <2>2, <2>4, <2>6
<1> QED BY <1>1, <1>2

-----------------------------------------------------------------------------
(***************************************************************************)
(* Reading.                                                                *)
(***************************************************************************)

\* From position i on, s holds t, as far as s goes.
Carries(s, i, t) == \A j \in 1 .. Len(t) : i + j - 1 <= Len(s) => s[i + j - 1] = t[j]

\* What comes of reading x, written in n bytes from position i on, when the reader's limits
\* let x pass or not: the stream ends too early, or x is refused, or x is read.
Outcome(r, s, i, x, n, passes) ==
    \/ r = UnexpectedEOF /\ Len(s) < i + n - 1
    \/ r = ProtocolError /\ ~passes
    \/ r = Got(x, i + n) /\ passes /\ i + n - 1 <= Len(s)

\* The outcomes are told apart by the error.
LEMMA Errors ==
  /\ ~OK(EOF) /\ ~OK(UnexpectedEOF) /\ ~OK(ProtocolError)
  /\ EOF # UnexpectedEOF /\ EOF # ProtocolError /\ UnexpectedEOF # ProtocolError
  /\ \A x, i : OK(Got(x, i)) /\ Got(x, i).got = x /\ Got(x, i).next = i
  /\ \A x, i : Got(x, i) # EOF /\ Got(x, i) # UnexpectedEOF /\ Got(x, i) # ProtocolError
<1>1. /\ EOF.err = "EOF" /\ UnexpectedEOF.err = "UnexpectedEOF" /\ ProtocolError.err = "Protocol"
      /\ \A x, i : Got(x, i).err = "nil" /\ Got(x, i).got = x /\ Got(x, i).next = i
  BY DEF EOF, UnexpectedEOF, ProtocolError, Got
<1> QED BY <1>1 DEF OK

\* A stream that holds a text holds its parts.
LEMMA CarriesParts ==
  ASSUME NEW s \in Bytes, NEW i \in Nat \ {0}, NEW t \in Bytes, NEW u \in Bytes, Carries(s, i, t \o u)
  PROVE  Carries(s, i, t) /\ Carries(s, i + Len(t), u)
<1> DEFINE w == t \o u
<1>1. /\ Len(t) \in Nat /\ Len(u) \in Nat /\ Len(s) \in Nat /\ Len(w) = Len(t) + Len(u)
      /\ \A j \in 1 .. Len(t) : w[j] = t[j]
      /\ \A j \in 1 .. Len(u) : w[Len(t) + j] = u[j]
  BY Concat
<1> HIDE DEF w
<1>2. ASSUME NEW j \in 1 .. Len(t), i + j - 1 <= Len(s) PROVE s[i + j - 1] = t[j]
  <2>1. j \in 1 .. Len(w) /\ w[j] = t[j]
    BY <1>1
  <2> QED BY <1>2, <2>1 DEF Carries, w
<1>3. ASSUME NEW j \in 1 .. Len(u), i + Len(t) + j - 1 <= Len(s) PROVE s[i + Len(t) + j - 1] = u[j]
  <2>1. PICK k \in 1 .. Len(w) : k = Len(t) + j
    BY <1>1
  <2>2. i + k - 1 <= Len(s) /\ i + k - 1 = i + Len(t) + j - 1 /\ w[k] = u[j]
    BY <1>1, <1>3, <2>1
  <2>3. s[i + k - 1] = w[k]
    BY <2>1, <2>2 DEF Carries, w
  <2> QED BY <2>2, <2>3
<1> QED BY <1>2, <1>3 DEF Carries

\* A text that fits the stream is a part of it.
LEMMA CarriedWhole ==
  ASSUME NEW s \in Bytes, NEW i \in Nat \ {0}, NEW t \in Bytes, Carries(s, i, t), i + Len(t) - 1 <= Len(s)
  PROVE  SubSeq(s, i, i + Len(t) - 1) = t
<1> DEFINE e == i + Len(t) - 1
           u == SubSeq(s, i, e)
<1>1. Len(t) \in Nat /\ Len(s) \in Nat /\ e \in Int /\ e - i + 1 = Len(t)
  BY DEF Bytes
<1>2. u \in Bytes /\ Len(u) = Len(t) /\ \A j \in 1 .. Len(t) : u[j] = s[i + j - 1]
  <2>1. \A j \in i .. e : j \in 1 .. Len(s)
    BY <1>1
  <2>2. u \in Bytes
    BY <1>1, <2>1 DEF Bytes
  <2>3. Len(u) = Len(t)
    BY <1>1 DEF Bytes
  <2>4. \A j \in 1 .. Len(t) : u[j] = s[i + j - 1]
    BY <1>1 DEF Bytes
  <2> QED BY <2>2, <2>3, <2>4
<1> HIDE DEF u, e
<1>3. \A j \in 1 .. Len(t) : u[j] = t[j]
  BY <1>1, <1>2 DEF Carries, e
<1>4. u = t
  BY <1>2, <1>3, SameBytes
<1> QED BY <1>4 DEF u, e

\* The smaller of two numbers.
LEMMA MinTwo ==
  ASSUME NEW a \in Int, NEW b \in Int
  PROVE  Min({a, b}) = IF a <= b THEN a ELSE b
BY DEF Min

\* A header line, and the end of the line found by its LF.
LEMMA LineRead ==
  ASSUME NEW s \in Bytes, NEW i \in Nat \ {0}, NEW b \in Bytes, Len(b) >= 1,
         \A k \in 1 .. Len(b) : b[k] # "LF", Carries(s, i, b \o CRLF)
  PROVE  /\ i > Len(s) => readLine(s, i) = EOF
         /\ i <= Len(s) => Outcome(readLine(s, i), s, i, b, Len(b) + 2, Len(b) + 2 <= ReaderBufSize)
<1> DEFINE n == Len(b)
           e == i + n + 1
           top == Min({Len(s), i + ReaderBufSize - 1})
           ends == {j \in i .. Min({Len(s), i + ReaderBufSize - 1}) : s[j] = "LF"}
           r == readLine(s, i)
<1>1. n \in Nat /\ n >= 1 /\ Len(s) \in Nat /\ ReaderBufSize \in Nat /\ e \in Nat
  BY RESPAssumption DEF Bytes
<1>2. top = IF Len(s) <= i + ReaderBufSize - 1 THEN Len(s) ELSE i + ReaderBufSize - 1
  BY <1>1, MinTwo
<1>3. Carries(s, i, b) /\ Carries(s, i + n, CRLF)
  BY CarriesParts, LineEnd
<1>4. \A j \in i .. Len(s) : j < e => s[j] # "LF"
  <2> SUFFICES ASSUME NEW j \in i .. Len(s), j < e PROVE s[j] # "LF"
    OBVIOUS
  <2>1. CASE j < i + n
    <3>1. PICK k \in 1 .. n : i + k - 1 = j
      <4>1. j - i + 1 \in 1 .. n /\ i + (j - i + 1) - 1 = j
        BY <1>1, <2>1
      <4> QED BY <4>1
    <3>2. i + k - 1 <= Len(s)
      BY <1>1, <3>1
    <3>3. s[i + k - 1] = b[k]
      BY <1>3, <3>2 DEF Carries
    <3> QED BY <3>1, <3>3
  <2>2. CASE j = i + n
    <3>1. 1 \in 1 .. Len(CRLF) /\ i + n + 1 - 1 = j /\ j <= Len(s)
      BY <1>1, <2>2, LineEnd
    <3>2. s[j] = CRLF[1]
      BY <1>3, <3>1 DEF Carries
    <3> QED BY <3>2, LineEnd
  <2> QED BY <1>1, <2>1, <2>2
<1>5. e <= Len(s) => s[e] = "LF" /\ s[e - 1] = "CR"
  <2> SUFFICES ASSUME e <= Len(s) PROVE s[e] = "LF" /\ s[e - 1] = "CR"
    OBVIOUS
  <2>1. 1 \in 1 .. Len(CRLF) /\ 2 \in 1 .. Len(CRLF) /\ i + n + 1 - 1 = e - 1 /\ i + n + 2 - 1 = e
        /\ e - 1 <= Len(s)
    BY <1>1, LineEnd
  <2>2. s[e - 1] = CRLF[1] /\ s[e] = CRLF[2]
    BY <1>3, <2>1 DEF Carries
  <2> QED BY <2>2, LineEnd
<1>r. r = CASE i > Len(s) -> EOF
            [] i <= Len(s) /\ ends = {} ->
                  IF Len(s) - i + 1 >= ReaderBufSize THEN ProtocolError ELSE UnexpectedEOF
            [] ends # {} /\ (Min(ends) < i + 2 \/ s[Min(ends) - 1] # "CR") -> ProtocolError
            [] OTHER -> Got(SubSeq(s, i, Min(ends) - 2), Min(ends) + 1)
  BY DEF readLine
<1> HIDE DEF n, e, top, r
<1>6. ends = {j \in i .. top : s[j] = "LF"}
  BY DEF top
<1>6a. e = i + n + 1 /\ n = Len(b)
  BY DEF e, n
<1> HIDE DEF ends
<1>7. ASSUME i > Len(s) PROVE r = EOF
  <2>1. ends = {}
    BY <1>1, <1>2, <1>6, <1>7
  <2> QED BY <1>1, <1>7, <1>r, <2>1
<1>8. ASSUME i <= Len(s), ~(e <= Len(s) /\ n + 2 <= ReaderBufSize)
      PROVE  Outcome(r, s, i, b, n + 2, n + 2 <= ReaderBufSize)
  <2>1. ends = {}
    BY <1>1, <1>2, <1>4, <1>6, <1>6a, <1>8
  <2>2. r = IF Len(s) - i + 1 >= ReaderBufSize THEN ProtocolError ELSE UnexpectedEOF
    BY <1>1, <1>8, <1>r, <2>1
  <2> QED BY <1>1, <1>6a, <1>8, <2>2 DEF Outcome
<1>9. ASSUME i <= Len(s), e <= Len(s), n + 2 <= ReaderBufSize
      PROVE  Outcome(r, s, i, b, n + 2, n + 2 <= ReaderBufSize)
  <2>1. e \in ends /\ \A j \in ends : e <= j
    BY <1>1, <1>2, <1>4, <1>5, <1>6, <1>6a, <1>9
  <2>2. Min(ends) = e
    <3>1. \A j \in ends : j \in Int
      BY <1>1, <1>2, <1>6
    <3>2. Min(ends) = CHOOSE x \in ends : \A y \in ends : x <= y
      BY DEF Min
    <3>3. Min(ends) \in ends /\ Min(ends) <= e
      BY <2>1, <3>2
    <3>4. PICK m \in Int : m = Min(ends) /\ m <= e /\ e <= m
      BY <2>1, <3>1, <3>3
    <3> QED BY <1>1, <3>4
  <2>3. ends # {} /\ ~(e < i + 2 \/ s[e - 1] # "CR")
    BY <1>1, <1>5, <1>6a, <1>9, <2>1
  <2>4. r = Got(SubSeq(s, i, e - 2), e + 1)
    BY <1>1, <1>9, <1>r, <2>2, <2>3
  <2>5. e - 2 = i + Len(b) - 1 /\ e + 1 = i + (n + 2) /\ e - 2 <= Len(s)
    BY <1>1, <1>6a, <1>9
  <2>6. SubSeq(s, i, e - 2) = b
    BY <1>3, <2>5, CarriedWhole
  <2>7. r = Got(b, i + (n + 2))
    BY Zenon, <2>4, <2>5, <2>6
  <2>8. i + (n + 2) - 1 <= Len(s)
    BY <1>1, <1>6a, <1>9
  <2> QED BY <1>9, <2>7, <2>8 DEF Outcome
<1> QED BY <1>1, <1>7, <1>8, <1>9 DEF n, r

\* A text with the end of a line behind it.
LEMMA LineConcat ==
  ASSUME NEW t \in Bytes
  PROVE  t \o CRLF \in Bytes /\ Len(t \o CRLF) = Len(t) + 2
<1>1. PICK c \in Bytes : c = CRLF /\ Len(c) = 2
  BY LineEnd
<1>2. t \o c \in Bytes /\ Len(t \o c) = Len(t) + Len(c)
  BY Concat
<1> QED BY <1>1, <1>2

\* The reader's limits.
LEMMA Limits ==
  /\ MaxInt64 \in Nat /\ ReaderBufSize \in Nat
  /\ \A max \in {MaxBulkLength, MaxArrayLength} :
        /\ max \in Nat /\ max <= MaxInt64
        /\ \A n \in Nat : n <= max => countLineLen(n) <= ReaderBufSize
<1>1. MaxInt64 \in Nat /\ ReaderBufSize \in Nat
  BY RESPAssumption
<1>2. \A max \in {MaxBulkLength, MaxArrayLength} :
        max \in 0 .. MaxInt64 /\ \A n \in 0 .. max : 1 + Len(Itoa(n)) + 2 <= ReaderBufSize
  BY Zenon, RESPAssumption
<1>3. ASSUME NEW max \in {MaxBulkLength, MaxArrayLength}
      PROVE  /\ max \in Nat /\ max <= MaxInt64
             /\ \A n \in Nat : n <= max => countLineLen(n) <= ReaderBufSize
  <2>1. max \in 0 .. MaxInt64 /\ \A n \in 0 .. max : countLineLen(n) <= ReaderBufSize
    BY Zenon, <1>2 DEF countLineLen
  <2> QED BY <1>1, <2>1
<1> QED BY <1>1, <1>3

\* A header line without its end.
LEMMA CountLine ==
  ASSUME NEW typ \in Byte, typ # "LF", NEW n \in Nat
  PROVE  /\ \E b \in Bytes :
              /\ writeCountLine(typ, n) = b \o CRLF
              /\ Len(b) + 2 = countLineLen(n) /\ Len(b) >= 1 /\ b[1] = typ /\ Tail(b) = Itoa(n)
              /\ \A k \in 1 .. Len(b) : b[k] # "LF"
         /\ writeCountLine(typ, n) \in Bytes /\ Len(writeCountLine(typ, n)) = countLineLen(n)
         /\ countLineLen(n) \in Nat /\ countLineLen(n) >= 4
<1>1. PICK d \in Bytes : d = Itoa(n) /\ Len(d) >= 1 /\ \A k \in 1 .. Len(d) : d[k] # "LF"
  BY Parsed
<1>2. PICK h \in Bytes : h = <<typ>> /\ Len(h) = 1 /\ h[1] = typ
  BY Zenon, OneByte
<1> DEFINE b == h \o d
<1>3. /\ b \in Bytes /\ Len(d) \in Nat /\ Len(b) = 1 + Len(d) /\ b[1] = typ
      /\ \A k \in 1 .. Len(d) : b[1 + k] = d[k]
  BY <1>2, Concat
<1>4. b \o CRLF \in Bytes /\ Len(b \o CRLF) = 1 + Len(d) + 2
  <2> HIDE DEF b
  <2>1. Len(b \o CRLF) = Len(b) + 2 /\ b \o CRLF \in Bytes
    BY <1>3, LineConcat
  <2> QED BY <1>3, <2>1
<1>5. Tail(b) = d
  <2> HIDE DEF b
  <2>1. Tail(b) \in Bytes /\ Len(Tail(b)) = Len(d) /\ \A k \in 1 .. Len(d) : Tail(b)[k] = d[k]
    BY <1>1, <1>3 DEF Bytes
  <2> QED BY Zenon, <2>1, SameBytes
<1>6. ASSUME NEW k \in 1 .. Len(b) PROVE b[k] # "LF"
  <2> HIDE DEF b
  <2>1. CASE k = 1
    BY <1>3, <2>1
  <2>2. CASE k # 1
    <3>1. PICK j \in 1 .. Len(d) : k = 1 + j
      <4>1. k - 1 \in 1 .. Len(d) /\ k = 1 + (k - 1)
        BY <1>3, <2>2
      <4> QED BY <4>1
    <3> QED BY <1>1, <1>3, <3>1
  <2> QED BY <2>1, <2>2
<1>7. writeCountLine(typ, n) = b \o CRLF
  BY <1>1, <1>2 DEF writeCountLine
<1>8. countLineLen(n) = 1 + Len(d) + 2
  BY <1>1 DEF countLineLen
<1> HIDE DEF b
<1>9. Len(b) + 2 = countLineLen(n) /\ Len(b) >= 1 /\ countLineLen(n) \in Nat /\ countLineLen(n) >= 4
  BY <1>1, <1>3, <1>8
<1>10. writeCountLine(typ, n) \in Bytes /\ Len(writeCountLine(typ, n)) = countLineLen(n)
  BY <1>4, <1>7, <1>8
<1> QED BY Zenon, <1>1, <1>3, <1>5, <1>6, <1>7, <1>9, <1>10

\* A count is read, or refused when it is above the limit.
LEMMA CountRead ==
  ASSUME NEW s \in Bytes, NEW i \in Nat \ {0}, NEW typ \in Byte, typ # "LF", NEW n \in Nat,
         NEW max \in {MaxBulkLength, MaxArrayLength}, Carries(s, i, writeCountLine(typ, n))
  PROVE  /\ i > Len(s) => readCount(s, i, typ, max) = EOF
         /\ i <= Len(s) => Outcome(readCount(s, i, typ, max), s, i, n, countLineLen(n), n <= max)
<1> DEFINE line == readLine(s, i)
           c == readCount(s, i, typ, max)
           v == parseInt(Tail(line.got))
<1>0. countLineLen(n) \in Nat
  BY CountLine
<1>1. PICK b \in Bytes :
         /\ writeCountLine(typ, n) = b \o CRLF
         /\ Len(b) + 2 = countLineLen(n) /\ Len(b) >= 1 /\ b[1] = typ /\ Tail(b) = Itoa(n)
         /\ \A k \in 1 .. Len(b) : b[k] # "LF"
  BY Zenon, CountLine
<1>2. /\ i > Len(s) => line = EOF
      /\ i <= Len(s) => Outcome(line, s, i, b, Len(b) + 2, Len(b) + 2 <= ReaderBufSize)
  BY <1>1, LineRead
<1>3. c = IF ~OK(line) THEN line
          ELSE IF line.got[1] = typ /\ OK(v) /\ v.got \in 0 .. max THEN Got(v.got, line.next)
          ELSE ProtocolError
  BY DEF readCount
<1>4. /\ max \in Nat /\ max <= MaxInt64 /\ MaxInt64 \in Nat /\ ReaderBufSize \in Nat
      /\ n <= max => Len(b) + 2 <= ReaderBufSize
  BY Zenon, <1>1, Limits
<1> HIDE DEF line, c, v
<1>5. ASSUME i > Len(s) PROVE c = EOF
  BY <1>2, <1>3, <1>5, Errors
<1>6. ASSUME i <= Len(s) PROVE Outcome(c, s, i, n, countLineLen(n), n <= max)
  <2>1. CASE line = UnexpectedEOF /\ Len(s) < i + (Len(b) + 2) - 1
    BY <1>0, <1>1, <1>3, <2>1, Errors DEF Outcome
  <2>2. CASE line = ProtocolError /\ ~(Len(b) + 2 <= ReaderBufSize)
    <3>1. c = ProtocolError /\ ~(n <= max)
      BY <1>3, <1>4, <2>2, Errors
    <3> QED BY <3>1 DEF Outcome
  <2>3. CASE line = Got(b, i + (Len(b) + 2)) /\ i + (Len(b) + 2) - 1 <= Len(s)
    <3>1. OK(line) /\ line.got = b /\ line.next = i + (Len(b) + 2)
      BY <2>3, Errors
    <3>2. v = IF n \in Int64 THEN Got(n, 0) ELSE ProtocolError
      <4>1. v = parseInt(Itoa(n))
        BY Zenon, <1>1, <3>1 DEF v
      <4>2. n \in Int
        OBVIOUS
      <4> QED BY Zenon, <4>1, <4>2, Parsed
    <3>3. CASE n <= max
      <4>1. n \in Int64
        BY <1>4, <3>3 DEF Int64, MinInt64
      <4>2. OK(v) /\ v.got = n
        BY <3>2, <4>1, Errors
      <4>3. c = Got(n, i + countLineLen(n))
        BY <1>0, <1>1, <1>3, <1>4, <3>1, <3>3, <4>2
      <4> QED BY <1>0, <1>1, <2>3, <3>3, <4>3 DEF Outcome
    <3>4. CASE ~(n <= max)
      <4>1. ~(OK(v) /\ v.got \in 0 .. max)
        BY <1>4, <3>2, <3>4, Errors
      <4>2. c = ProtocolError
        BY <1>3, <3>1, <4>1
      <4> QED BY <3>4, <4>2 DEF Outcome
    <3> QED BY <3>3, <3>4
  <2> QED BY <1>2, <1>6, <2>1, <2>2, <2>3 DEF Outcome
<1> QED BY <1>5, <1>6 DEF c

\* A bulk string and its length.
LEMMA BulkString ==
  ASSUME NEW p \in Bytes
  PROVE  /\ WriteBulkString(p) \in Bytes /\ countLineLen(Len(p)) \in Nat /\ countLineLen(Len(p)) >= 4
         /\ Len(p) \in Nat
         /\ Len(WriteBulkString(p)) = countLineLen(Len(p)) + Len(p) + 2
         /\ writeCountLine("$", Len(p)) \in Bytes
         /\ Len(writeCountLine("$", Len(p))) = countLineLen(Len(p))
<1>1. "$" \in Byte /\ "$" # "LF" /\ Len(p) \in Nat
  BY RESPAssumption DEF Bytes
<1>2. PICK h \in Bytes : h = writeCountLine("$", Len(p)) /\ Len(h) = countLineLen(Len(p))
  BY <1>1, CountLine
<1>3. countLineLen(Len(p)) \in Nat /\ countLineLen(Len(p)) >= 4
  BY <1>1, CountLine
<1>4. h \o p \in Bytes /\ Len(h \o p) = Len(h) + Len(p)
  BY Concat
<1>5. (h \o p) \o CRLF \in Bytes /\ Len((h \o p) \o CRLF) = Len(h) + Len(p) + 2
  <2>1. PICK t \in Bytes : t = h \o p /\ Len(t) = Len(h) + Len(p)
    BY Zenon, <1>4
  <2>2. t \o CRLF \in Bytes /\ Len(t \o CRLF) = Len(t) + 2
    BY LineConcat
  <2> QED BY <2>1, <2>2
<1> QED BY <1>1, <1>2, <1>3, <1>5 DEF WriteBulkString

\* A bulk string is read, or the stream ends within it, or it is refused for its length.
LEMMA BulkRead ==
  ASSUME NEW s \in Bytes, NEW i \in Nat \ {0}, NEW p \in Bytes, Carries(s, i, WriteBulkString(p))
  PROVE  Outcome(readBulkString(s, i), s, i, p, Len(WriteBulkString(p)), Len(p) <= MaxBulkLength)
<1> DEFINE h == writeCountLine("$", Len(p))
           H == countLineLen(Len(p))
           L == Len(p)
           c == readCount(s, i, "$", MaxBulkLength)
           n == unexpectedEOF(c)
           end == n.next + n.got
           r == readBulkString(s, i)
           W == Len(WriteBulkString(p))
<1>1. /\ h \in Bytes /\ Len(h) = H /\ H \in Nat /\ H >= 4 /\ L \in Nat /\ W = H + L + 2 /\ Len(s) \in Nat
      /\ WriteBulkString(p) = (h \o p) \o CRLF /\ h \o p \in Bytes /\ Len(h \o p) = H + L
  <2>1. h \in Bytes /\ Len(h) = H /\ H \in Nat /\ H >= 4 /\ L \in Nat /\ W = H + L + 2
    BY BulkString
  <2>2. Len(s) \in Nat
    BY DEF Bytes
  <2>3. WriteBulkString(p) = (h \o p) \o CRLF
    BY DEF WriteBulkString
  <2> HIDE DEF h, H, W
  <2>4. h \o p \in Bytes /\ Len(h \o p) = H + L
    BY Zenon, <2>1, Concat
  <2> QED BY <2>1, <2>2, <2>3, <2>4
<1>2. r = IF ~OK(n) THEN n
          ELSE IF end + 1 > Len(s) THEN UnexpectedEOF
          ELSE IF SubSeq(s, end, end + 1) # CRLF THEN ProtocolError
          ELSE Got(SubSeq(s, n.next, end - 1), end + 2)
  BY DEF readBulkString
<1>3. n = IF c = EOF THEN UnexpectedEOF ELSE c
  BY DEF unexpectedEOF
<1> HIDE DEF h, H, L, c, n, r, W
<1>4. Carries(s, i, h) /\ Carries(s, i + H, p) /\ Carries(s, i + H + L, CRLF)
  <2>1. Carries(s, i, h \o p) /\ Carries(s, i + (H + L), CRLF)
    <3>1. PICK t \in Bytes : t = h \o p /\ Len(t) = H + L
      BY Zenon, <1>1
    <3>2. Carries(s, i, t \o CRLF)
      BY <1>1, <3>1
    <3>3. Carries(s, i, t) /\ Carries(s, i + Len(t), CRLF)
      BY <3>2, CarriesParts, LineEnd
    <3> QED BY <3>1, <3>3
  <2>2. Carries(s, i, h) /\ Carries(s, i + H, p)
    BY Zenon, <1>1, <2>1, CarriesParts
  <2>3. i + (H + L) = i + H + L
    BY <1>1
  <2> QED BY <2>1, <2>2, <2>3
<1>5. /\ i > Len(s) => c = EOF
      /\ i <= Len(s) => Outcome(c, s, i, L, H, L <= MaxBulkLength)
  <2>1. "$" \in Byte /\ "$" # "LF"
    BY RESPAssumption
  <2> QED BY <1>1, <1>4, <2>1, CountRead DEF h, H, L, c
<1>6. CASE i > Len(s)
  <2>1. r = UnexpectedEOF
    BY <1>2, <1>3, <1>5, <1>6, Errors
  <2>2. Len(s) < i + W - 1
    BY <1>1, <1>6
  <2> QED BY <2>1, <2>2 DEF Outcome, r, W
<1>7. CASE i <= Len(s)
  <2>1. CASE c = UnexpectedEOF /\ Len(s) < i + H - 1
    <3>1. r = UnexpectedEOF /\ Len(s) < i + W - 1
      BY <1>1, <1>2, <1>3, <2>1, Errors
    <3> QED BY <3>1 DEF Outcome, r, W
  <2>2. CASE c = ProtocolError /\ ~(L <= MaxBulkLength)
    <3>1. r = ProtocolError
      BY <1>2, <1>3, <2>2, Errors
    <3> QED BY <2>2, <3>1 DEF Outcome, r, L
  <2>3. CASE c = Got(L, i + H) /\ L <= MaxBulkLength /\ i + H - 1 <= Len(s)
    <3>1. OK(n) /\ n.got = L /\ n.next = i + H
      BY <1>3, <2>3, Errors
    <3>2. end = i + H + L
      BY <3>1
    <3>3. CASE end + 1 > Len(s)
      <4>1. r = UnexpectedEOF
        BY <1>2, <3>1, <3>3
      <4>2. Len(s) < i + W - 1
        BY <1>1, <3>2, <3>3
      <4> QED BY <4>1, <4>2 DEF Outcome, r, W
    <3>4. CASE end + 1 <= Len(s)
      <4>0. PICK e \in Nat \ {0} : e = end /\ e = i + H + L
        BY <1>1, <3>2
      <4>1. SubSeq(s, e, e + 1) = CRLF
        <5>1. e + Len(CRLF) - 1 = e + 1 /\ e + 1 <= Len(s)
          BY <3>4, <4>0, LineEnd
        <5>2. Carries(s, e, CRLF)
          BY <1>4, <4>0
        <5> QED BY Zenon, <4>0, <5>1, <5>2, LineEnd, CarriedWhole
      <4>2. SubSeq(s, i + H, e - 1) = p
        <5>1. e - 1 = (i + H) + Len(p) - 1 /\ e - 1 <= Len(s) /\ i + H \in Nat \ {0}
          BY <1>1, <3>4, <4>0 DEF L
        <5>2. PICK j \in Nat \ {0} : j = i + H
          BY <5>1
        <5>3. SubSeq(s, j, j + Len(p) - 1) = p
          BY Zenon, <1>4, <5>1, <5>2, CarriedWhole
        <5> QED BY <5>1, <5>2, <5>3
      <4>3. r = Got(p, e + 2)
        <5>1. ~(end + 1 > Len(s)) /\ ~(SubSeq(s, end, end + 1) # CRLF)
          BY <1>1, <3>4, <4>0, <4>1
        <5>2. r = Got(SubSeq(s, n.next, end - 1), end + 2)
          BY <1>2, <3>1, <5>1
        <5> QED BY Zenon, <3>1, <4>0, <4>2, <5>2
      <4>4. e + 2 = i + W /\ i + W - 1 <= Len(s)
        BY <1>1, <3>4, <4>0
      <4> QED BY <2>3, <4>3, <4>4 DEF Outcome, r, W, L
    <3> QED BY <1>1, <3>2, <3>3, <3>4
  <2> QED BY <1>5, <1>7, <2>1, <2>2, <2>3 DEF Outcome
<1> QED BY <1>1, <1>6, <1>7

\* The beginnings of a sequence, one element after another.
LEMMA PrefixGrows ==
  ASSUME NEW S, NEW q \in Seq(S), NEW k \in 1 .. Len(q)
  PROVE  /\ SubSeq(q, 1, k - 1) \in Seq(S) /\ Len(SubSeq(q, 1, k - 1)) = k - 1
         /\ Append(SubSeq(q, 1, k - 1), q[k]) = SubSeq(q, 1, k)
         /\ SubSeq(q, 1, 0) = <<>> /\ SubSeq(q, 1, Len(q)) = q
<1> DEFINE a == SubSeq(q, 1, k - 1)
           b == SubSeq(q, 1, k)
           c == Append(a, q[k])
<1>1. Len(q) \in Nat /\ k \in Nat /\ k - 1 \in Nat /\ q[k] \in S
  OBVIOUS
<1>2. /\ a \in Seq(S) /\ Len(a) = k - 1
      /\ \A j \in 1 .. k - 1 : a[j] = q[j]
  BY <1>1
<1>3. /\ b \in Seq(S) /\ Len(b) = k
      /\ \A j \in 1 .. k : b[j] = q[j]
  BY <1>1
<1> HIDE DEF a, b
<1>4. c \in Seq(S) /\ Len(c) = k /\ \A j \in 1 .. k : c[j] = q[j]
  BY <1>1, <1>2
<1> HIDE DEF c
<1>5. c = b
  BY <1>1, <1>3, <1>4
<1>6. SubSeq(q, 1, 0) = <<>> /\ SubSeq(q, 1, Len(q)) = q
  <2>1. SubSeq(q, 1, 0) = <<>>
    OBVIOUS
  <2>2. SubSeq(q, 1, Len(q)) = q
    OBVIOUS
  <2> QED BY <2>1, <2>2
<1> QED BY <1>2, <1>5, <1>6 DEF a, b, c

\* The loop of readArgs.
LEMMA ArgsAre ==
  ASSUME NEW s, NEW i, NEW n \in Nat
  PROVE  /\ readArgs(s, i, n)[0] = Got(<<>>, i)
         /\ \A k \in 1 .. n : readArgs(s, i, n)[k] = readArg(s, readArgs(s, i, n)[k - 1])
<1> DEFINE a == Got(<<>>, i)
           b(x) == readArg(s, x)
           Runs(g, m) == g = [k \in 0 .. m |-> IF k = 0 THEN a ELSE b(g[k - 1])]
           w == readArgs(s, i, n)
           T == {m \in Nat : \E g : Runs(g, m)}
<1>1. w = CHOOSE g : Runs(g, n)
  BY DEF readArgs
<1> HIDE DEF a, b, w
<1>2. 0 \in T
  <2> DEFINE g0 == [k \in 0 .. 0 |-> a]
  <2>1. Runs(g0, 0)
    OBVIOUS
  <2> QED BY Zenon, <2>1
<1>3. ASSUME NEW m \in T PROVE m + 1 \in T
  <2>0. m \in Nat /\ m + 1 \in Nat
    OBVIOUS
  <2>1. PICK f : Runs(f, m)
    BY <1>3
  <2> DEFINE c == b(f[m])
             g == [k \in 0 .. m + 1 |-> IF k = m + 1 THEN c ELSE f[k]]
  <2>2. f[0] = a /\ \A k \in 1 .. m : f[k] = b(f[k - 1])
    BY <2>0, <2>1
  <2>3. g[0] = a /\ g[m + 1] = c /\ \A k \in 0 .. m : g[k] = f[k]
    BY <2>0, <2>2
  <2>4. ASSUME NEW k \in 0 .. m + 1 PROVE g[k] = IF k = 0 THEN a ELSE b(g[k - 1])
    <3> HIDE DEF g
    <3>1. CASE k = m + 1
      <4>1. k - 1 = m /\ m \in 0 .. m /\ k # 0
        BY <2>0, <3>1
      <4>2. g[k - 1] = f[m]
        BY <2>3, <4>1
      <4> QED BY <2>3, <3>1, <4>1, <4>2
    <3>2. CASE k \in 1 .. m
      <4>1. k - 1 \in 0 .. m /\ k \in 0 .. m /\ k # 0
        BY <2>0, <3>2
      <4> QED BY <2>2, <2>3, <3>2, <4>1
    <3>3. CASE k = 0
      BY <2>3, <3>3
    <3> QED BY <2>0, <3>1, <3>2, <3>3
  <2>5. Runs(g, m + 1)
    BY <2>4
  <2> HIDE DEF g, Runs
  <2> QED BY <2>0, <2>5
<1>4. n \in T
  <2>1. T \in SUBSET Nat
    OBVIOUS
  <2> HIDE DEF T
  <2> QED BY <1>2, <1>3, <2>1, Inductive
<1>5. Runs(w, n)
  <2> HIDE DEF Runs
  <2> QED BY <1>1, <1>4
<1>6. w[0] = a /\ \A k \in 1 .. n : w[k] = b(w[k - 1])
  BY <1>5
<1> QED BY <1>6 DEF w, a, b

\* A command as it is written, argument after argument.
LEMMA WrittenIs ==
  ASSUME NEW args \in Seq(Bytes)
  PROVE  /\ written(args) \in [0 .. Len(args) -> Bytes]
         /\ written(args)[0] = writeCountLine("*", Len(args))
         /\ \A k \in 1 .. Len(args) : written(args)[k] = written(args)[k - 1] \o WriteBulkString(args[k])
<1>1. \A p \in Bytes : WriteBulkString(p) \in Bytes
  BY BulkString
<1>2. ASSUME NEW n \in Nat PROVE writeCountLine("*", n) \in Bytes
  <2>1. "*" \in Byte /\ "*" # "LF"
    BY RESPAssumption
  <2> QED BY <2>1, CountLine
<1> QED BY Zenon, <1>1, <1>2, Written

\* Its length: the header alone is four bytes, and EncodedLen derives it.
LEMMA WrittenLen ==
  ASSUME NEW args \in Seq(Bytes)
  PROVE  /\ \A k \in 0 .. Len(args) :
              written(args)[k] \in Bytes /\ Len(written(args)[k]) \in Nat /\ Len(written(args)[k]) >= 4
         /\ Len(written(args)[0]) = countLineLen(Len(args))
         /\ \A k \in 1 .. Len(args) :
              Len(written(args)[k]) = Len(written(args)[k - 1]) + Len(WriteBulkString(args[k]))
         /\ writeCommand(args) \in Bytes
         /\ EncodedLen(args) = Len(writeCommand(args))
<1> DEFINE n == Len(args)
           w == written(args)
           L == [k \in 0 .. n |-> Len(w[k])]
           a == countLineLen(n)
           b(k, x) == x + countLineLen(Len(args[k])) + Len(args[k]) + 2
           Runs(g) == g = [k \in 0 .. n |-> IF k = 0 THEN a ELSE b(k, g[k - 1])]
           m == measured(args)
<1>0. n \in Nat /\ \A k \in 1 .. n : args[k] \in Bytes
  OBVIOUS
<1>1. /\ w \in [0 .. n -> Bytes] /\ w[0] = writeCountLine("*", n)
      /\ \A k \in 1 .. n : w[k] = w[k - 1] \o WriteBulkString(args[k])
  BY Zenon, WrittenIs
<1>2. m = CHOOSE g : Runs(g)
  BY DEF measured
<1>3. Len(w[0]) = a /\ a \in Nat /\ a >= 4
  <2>1. "*" \in Byte /\ "*" # "LF"
    BY RESPAssumption
  <2> QED BY <1>0, <1>1, <2>1, CountLine
<1> HIDE DEF w, m, a
<1>4. ASSUME NEW k \in 1 .. n
      PROVE  /\ k - 1 \in 0 .. n /\ Len(w[k]) = Len(w[k - 1]) + Len(WriteBulkString(args[k]))
             /\ Len(w[k]) = b(k, Len(w[k - 1])) /\ Len(w[k]) >= Len(w[k - 1])
  <2>1. k - 1 \in 0 .. n /\ args[k] \in Bytes
    BY <1>0
  <2>2. PICK u \in Bytes : u = w[k - 1]
    BY <1>1, <2>1
  <2>3. PICK p \in Bytes : p = args[k]
    BY <2>1
  <2>4. PICK t \in Bytes : t = WriteBulkString(p)
    BY BulkString
  <2>5. Len(t) = countLineLen(Len(p)) + Len(p) + 2 /\ countLineLen(Len(p)) \in Nat /\ Len(p) \in Nat
    BY <2>4, BulkString
  <2>6. Len(u \o t) = Len(u) + Len(t) /\ Len(u) \in Nat
    BY Concat
  <2>7. w[k] = u \o t
    BY <1>1, <2>2, <2>3, <2>4
  <2>8. Len(w[k]) = Len(u) + Len(t)
    BY Zenon, <2>6, <2>7
  <2>9. b(k, Len(u)) = Len(u) + countLineLen(Len(p)) + Len(p) + 2
    BY Zenon, <2>3
  <2>10. b(k, Len(u)) = Len(u) + Len(t) /\ Len(u) + Len(t) >= Len(u)
    <3> HIDE DEF b
    <3> QED BY <2>5, <2>6, <2>9
  <2> HIDE DEF b
  <2> QED BY Zenon, <2>1, <2>2, <2>3, <2>4, <2>8, <2>10
<1>5. ASSUME NEW k \in 0 .. n PROVE Len(w[k]) \in Nat /\ Len(w[k]) >= 4
  <2>0. \A j \in 0 .. n : Len(w[j]) \in Nat
    BY <1>1 DEF Bytes
  <2> DEFINE T == {j \in Nat : j <= n => Len(w[j]) >= 4}
  <2>1. 0 \in T
    BY <1>3
  <2>2. ASSUME NEW j \in T PROVE j + 1 \in T
    <3> SUFFICES ASSUME j + 1 <= n PROVE Len(w[j + 1]) >= 4
      OBVIOUS
    <3>1. j \in Nat /\ j \in 0 .. n /\ Len(w[j]) >= 4 /\ j + 1 \in 1 .. n /\ (j + 1) - 1 = j /\ j + 1 \in 0 .. n
      BY <1>0, <2>2
    <3>2. Len(w[j + 1]) >= Len(w[j])
      BY Zenon, <1>4, <3>1
    <3> QED BY <2>0, <3>1, <3>2
  <2>3. k \in T
    <3>1. T \in SUBSET Nat /\ k \in Nat
      BY <1>0
    <3> HIDE DEF T
    <3> QED BY <2>1, <2>2, <3>1, Inductive
  <2> QED BY <1>0, <2>0, <2>3
<1>6. Runs(L)
  <2>1. ASSUME NEW k \in 0 .. n PROVE L[k] = IF k = 0 THEN a ELSE b(k, L[k - 1])
    <3>1. CASE k = 0
      BY <1>3, <3>1
    <3>2. CASE k # 0
      <4>1. k \in 1 .. n /\ k - 1 \in 0 .. n
        BY <1>0, <3>2
      <4>2. L[k] = Len(w[k]) /\ L[k - 1] = Len(w[k - 1])
        BY <4>1
      <4> QED BY Zenon, <1>4, <3>2, <4>1, <4>2
    <3> QED BY <3>1, <3>2
  <2> QED BY Zenon, <2>1
<1>7. Runs(m)
  <2> HIDE DEF Runs
  <2> QED BY <1>2, <1>6
<1>8. m[n] = L[n]
  <2>1. GoAlike(m, L, n)
    <3>1. m[0] = a /\ L[0] = a
      <4>1. 0 \in 0 .. n
        BY <1>0
      <4>2. m[0] = a
        BY <1>7, <4>1
      <4>3. L[0] = a
        BY <1>3, <4>1
      <4> QED BY <4>2, <4>3
    <3>2. ASSUME NEW k \in 1 .. n, m[k - 1] = L[k - 1] PROVE m[k] = L[k]
      <4>1. m[k] = b(k, m[k - 1]) /\ L[k] = b(k, L[k - 1])
        <5>1. k \in 0 .. n /\ k # 0
          BY <1>0
        <5>2. m[k] = b(k, m[k - 1])
          BY <1>7, <5>1
        <5>3. L[k] = b(k, L[k - 1])
          <6> HIDE DEF L
          <6> QED BY <1>6, <5>1
        <5> QED BY <5>2, <5>3
      <4> QED BY <3>2, <4>1
    <3> QED BY Zenon, <3>1, <3>2 DEF GoAlike
  <2> HIDE DEF L
  <2>2. Alike(m, L, n)
    BY Zenon, <1>0, <2>1, LoopsAgree
  <2> QED BY <1>0, <2>2 DEF Alike
<1>9. L[n] = Len(w[n]) /\ w[n] \in Bytes
  BY <1>0, <1>1
<1>10. writeCommand(args) = w[n] /\ EncodedLen(args) = m[n]
  BY DEF writeCommand, EncodedLen, w, m
<1>11. \A k \in 0 .. n : w[k] \in Bytes
  BY <1>1
<1> HIDE DEF L
<1> QED BY Zenon, <1>3, <1>4, <1>5, <1>8, <1>9, <1>10, <1>11 DEF w, a

\* The arguments among the first k that are not too long.
Accepted(args, k) == \A j \in 1 .. k : Len(args[j]) <= MaxBulkLength

\* A text grown part by part.
Chain(w, parts, n) ==
    w \in [0 .. n -> Bytes] /\ parts \in [1 .. n -> Bytes] /\ \A k \in 1 .. n : w[k] = w[k - 1] \o parts[k]

\* Its beginnings are in the stream with the whole.
LEMMA ChainCarried ==
  ASSUME NEW s \in Bytes, NEW i \in Nat \ {0}, NEW n \in Nat, NEW w, NEW parts, Chain(w, parts, n),
         Carries(s, i, w[n])
  PROVE  \A k \in 0 .. n : Carries(s, i, w[k])
<1> DEFINE T == {m \in Nat : m <= n => Carries(s, i, w[n - m])}
<1>1. 0 \in T
  <2>1. n - 0 = n
    OBVIOUS
  <2> QED BY <2>1
<1>2. ASSUME NEW m \in T PROVE m + 1 \in T
  <2> SUFFICES ASSUME m + 1 <= n PROVE Carries(s, i, w[n - (m + 1)])
    OBVIOUS
  <2>1. PICK k \in 1 .. n : k = n - m
    BY <1>2
  <2>2. k - 1 = n - (m + 1) /\ k - 1 \in 0 .. n /\ m <= n
    BY <1>2, <2>1
  <2>3. Carries(s, i, w[k])
    BY <2>1, <2>2, <1>2
  <2>4. PICK u \in Bytes : u = w[k - 1]
    BY <2>2 DEF Chain
  <2>5. PICK t \in Bytes : t = parts[k]
    BY DEF Chain
  <2>6. Carries(s, i, u \o t)
    BY Zenon, <2>3, <2>4, <2>5 DEF Chain
  <2>7. Carries(s, i, u)
    BY <2>6, CarriesParts
  <2> QED BY <2>2, <2>4, <2>7
<1>3. ASSUME NEW k \in 0 .. n PROVE Carries(s, i, w[k])
  <2>1. T \in SUBSET Nat /\ n - k \in Nat /\ n - (n - k) = k /\ n - k <= n
    OBVIOUS
  <2>2. n - k \in T
    <3> HIDE DEF T
    <3> QED BY <1>1, <1>2, <2>1, Inductive
  <2> QED BY <2>1, <2>2
<1> QED BY <1>3

\* What the stream holds of a command it holds of the command's beginnings.
LEMMA CarriesBegin ==
  ASSUME NEW s \in Bytes, NEW i \in Nat \ {0}, NEW args \in Seq(Bytes), Carries(s, i, writeCommand(args))
  PROVE  \A k \in 0 .. Len(args) : Carries(s, i, written(args)[k])
<1> DEFINE n == Len(args)
           w == written(args)
           parts == [k \in 1 .. n |-> WriteBulkString(args[k])]
<1>1. n \in Nat /\ \A k \in 1 .. n : args[k] \in Bytes
  OBVIOUS
<1>2. /\ w \in [0 .. n -> Bytes]
      /\ \A k \in 1 .. n : w[k] = w[k - 1] \o WriteBulkString(args[k])
  BY Zenon, WrittenIs
<1>3. \A k \in 1 .. n : WriteBulkString(args[k]) \in Bytes
  BY <1>1, BulkString
<1>4. w[n] = writeCommand(args)
  BY DEF writeCommand
<1> HIDE DEF w, n
<1>5. Chain(w, parts, n)
  BY Zenon, <1>2, <1>3 DEF Chain
<1> HIDE DEF parts
<1> QED BY Zenon, <1>1, <1>4, <1>5, ChainCarried DEF w, n

\* The arguments are read one by one, until the stream ends or one is too long.
LEMMA ArgsRead ==
  ASSUME NEW s \in Bytes, NEW i \in Nat \ {0}, NEW args \in Seq(Bytes), Carries(s, i, writeCommand(args)),
         i + countLineLen(Len(args)) - 1 <= Len(s)
  PROVE  Outcome(readArgs(s, i + countLineLen(Len(args)), Len(args))[Len(args)],
                 s, i, args, Len(writeCommand(args)), Accepted(args, Len(args)))
<1> DEFINE n == Len(args)
           w == written(args)
           L(k) == Len(w[k])
           r == readArgs(s, i + countLineLen(n), n)
           P(k) == Outcome(r[k], s, i, SubSeq(args, 1, k), L(k), Accepted(args, k))
           T == {k \in Nat : k <= n => P(k)}
<1>1. n \in Nat /\ Len(s) \in Nat
  BY DEF Bytes
<1>2. ASSUME NEW k \in 1 .. n
      PROVE  /\ args[k] \in Bytes /\ k - 1 \in 0 .. n /\ k \in 0 .. n
             /\ w[k] = w[k - 1] \o WriteBulkString(args[k]) /\ L(k) = L(k - 1) + Len(WriteBulkString(args[k]))
             /\ r[k] = readArg(s, r[k - 1])
  <2>1. args[k] \in Bytes /\ k - 1 \in 0 .. n /\ k \in 0 .. n
    BY <1>1
  <2>2. w[k] = w[k - 1] \o WriteBulkString(args[k])
    BY Zenon, WrittenIs
  <2>3. L(k) = L(k - 1) + Len(WriteBulkString(args[k]))
    BY Zenon, WrittenLen
  <2>4. r[k] = readArg(s, r[k - 1])
    BY <1>1, ArgsAre
  <2> QED BY <2>1, <2>2, <2>3, <2>4
<1>3. \A k \in 0 .. n : w[k] \in Bytes /\ L(k) \in Nat /\ L(k) >= 4 /\ Carries(s, i, w[k])
  BY Zenon, WrittenLen, CarriesBegin
<1>4. r[0] = Got(<<>>, i + L(0)) /\ i + L(0) - 1 <= Len(s)
  <2>1. L(0) = countLineLen(n)
    BY Zenon, WrittenLen
  <2> HIDE DEF L
  <2>2. r[0] = Got(<<>>, i + countLineLen(n))
    BY <1>1, ArgsAre
  <2> QED BY <2>1, <2>2
<1>5. writeCommand(args) = w[n]
  BY DEF writeCommand
<1> HIDE DEF w, r
<1>6. 0 \in T
  <2>1. SubSeq(args, 1, 0) = <<>>
    OBVIOUS
  <2>2. Accepted(args, 0)
    BY DEF Accepted
  <2>3. P(0)
    BY Zenon, <1>4, <2>1, <2>2 DEF Outcome
  <2> QED BY <2>3
<1>7. ASSUME NEW k \in 1 .. n, P(k - 1) PROVE P(k)
  <2>0. /\ args[k] \in Bytes /\ k - 1 \in 0 .. n /\ k \in 0 .. n
        /\ w[k] = w[k - 1] \o WriteBulkString(args[k]) /\ L(k) = L(k - 1) + Len(WriteBulkString(args[k]))
        /\ r[k] = readArg(s, r[k - 1])
    BY Zenon, <1>2
  <2>1. PICK p \in Bytes : p = args[k]
    BY <2>0
  <2>2. PICK t \in Bytes : t = WriteBulkString(p) /\ Len(t) \in Nat
    BY BulkString DEF Bytes
  <2>3. PICK u \in Bytes : u = w[k - 1] /\ Len(u) \in Nat /\ L(k - 1) = Len(u)
    BY <1>3, <2>0
  <2>4. w[k] = u \o t /\ L(k) = Len(u) + Len(t) /\ Carries(s, i, u \o t)
    <3>1. w[k] = u \o t /\ L(k) = Len(u) + Len(t)
      BY Zenon, <2>0, <2>1, <2>2, <2>3
    <3>2. Carries(s, i, w[k])
      BY Zenon, <1>3, <2>0
    <3> QED BY Zenon, <3>1, <3>2
  <2>5. PICK j \in Nat \ {0} : j = i + Len(u)
    BY <2>3
  <2>6. Carries(s, j, t)
    BY <2>4, <2>5, CarriesParts
  <2> DEFINE arg == readBulkString(s, j)
             q == SubSeq(args, 1, k - 1)
             q1 == SubSeq(args, 1, k)
             c == r[k - 1]
  <2>7. Outcome(arg, s, j, p, Len(t), Len(p) <= MaxBulkLength)
    BY <2>2, <2>6, BulkRead
  <2>8. Append(q, p) = q1
    BY <2>1, PrefixGrows
  <2>9. Accepted(args, k) <=> Accepted(args, k - 1) /\ Len(p) <= MaxBulkLength
    BY <1>1, <2>1 DEF Accepted
  <2>10. r[k] = IF ~OK(c) THEN c
                ELSE IF ~OK(readBulkString(s, c.next)) THEN readBulkString(s, c.next)
                ELSE Got(Append(c.got, readBulkString(s, c.next).got), readBulkString(s, c.next).next)
    BY <2>0 DEF readArg
  <2>11. Outcome(c, s, i, q, Len(u), Accepted(args, k - 1))
    BY <1>7, <2>3
  <2> HIDE DEF q, q1, c, L
  <2> SUFFICES Outcome(r[k], s, i, q1, Len(u) + Len(t), Accepted(args, k))
    BY <2>4 DEF q1
  <2>12. CASE c = UnexpectedEOF /\ Len(s) < i + Len(u) - 1
    <3>1. r[k] = UnexpectedEOF
      BY <2>10, <2>12, Errors
    <3>2. Len(s) < i + (Len(u) + Len(t)) - 1
      BY <1>1, <2>2, <2>3, <2>12
    <3> QED BY <3>1, <3>2 DEF Outcome
  <2>13. CASE c = ProtocolError /\ ~Accepted(args, k - 1)
    <3>1. r[k] = ProtocolError
      BY <2>10, <2>13, Errors
    <3> QED BY <2>9, <2>13, <3>1 DEF Outcome
  <2>14. CASE c = Got(q, i + Len(u)) /\ Accepted(args, k - 1) /\ i + Len(u) - 1 <= Len(s)
    <3>1. OK(c) /\ c.got = q /\ c.next = j
      BY <2>5, <2>14, Errors
    <3>2. r[k] = IF ~OK(arg) THEN arg ELSE Got(Append(q, arg.got), arg.next)
      BY Zenon, <2>10, <3>1
    <3> HIDE DEF arg
    <3>3. CASE arg = UnexpectedEOF /\ Len(s) < j + Len(t) - 1
      <4>1. r[k] = UnexpectedEOF
        BY <3>2, <3>3, Errors
      <4>2. Len(s) < i + (Len(u) + Len(t)) - 1
        BY <1>1, <2>2, <2>3, <2>5, <3>3
      <4> QED BY <4>1, <4>2 DEF Outcome
    <3>4. CASE arg = ProtocolError /\ ~(Len(p) <= MaxBulkLength)
      <4>1. r[k] = ProtocolError
        BY <3>2, <3>4, Errors
      <4> QED BY <2>9, <3>4, <4>1 DEF Outcome
    <3>5. CASE arg = Got(p, j + Len(t)) /\ Len(p) <= MaxBulkLength /\ j + Len(t) - 1 <= Len(s)
      <4>1. OK(arg) /\ arg.got = p /\ arg.next = j + Len(t)
        BY <3>5, Errors
      <4>2. r[k] = Got(q1, j + Len(t))
        BY Zenon, <2>8, <3>2, <4>1
      <4>3. j + Len(t) = i + (Len(u) + Len(t)) /\ i + (Len(u) + Len(t)) - 1 <= Len(s)
        BY <1>1, <2>2, <2>3, <2>5, <3>5
      <4> QED BY <2>9, <2>14, <3>5, <4>2, <4>3 DEF Outcome
    <3> QED BY <2>7, <3>3, <3>4, <3>5 DEF Outcome
  <2> QED BY <2>11, <2>12, <2>13, <2>14 DEF Outcome
<1>8. ASSUME NEW k \in T PROVE k + 1 \in T
  <2> SUFFICES ASSUME k + 1 <= n PROVE P(k + 1)
    OBVIOUS
  <2>1. PICK m \in 1 .. n : m = k + 1 /\ m - 1 = k /\ k <= n
    BY <1>1, <1>8
  <2>2. P(k)
    BY <1>8, <2>1
  <2> HIDE DEF P
  <2> QED BY <1>7, <2>1, <2>2
<1>9. P(n)
  <2>1. T \in SUBSET Nat
    OBVIOUS
  <2>2. n \in T
    <3> HIDE DEF T
    <3> QED BY <1>1, <1>6, <1>8, <2>1, Inductive
  <2> HIDE DEF P
  <2> QED BY <1>1, <2>2
<1>10. SubSeq(args, 1, n) = args
  OBVIOUS
<1> QED BY Zenon, <1>5, <1>9, <1>10 DEF r

\* A command is read, or the stream ends within it, or it is refused for its size.
LEMMA CommandRead ==
  ASSUME NEW s \in Bytes, NEW i \in Nat \ {0}, NEW args \in Seq(Bytes), Carries(s, i, writeCommand(args))
  PROVE  /\ i > Len(s) => ReadCommand(s, i) = EOF
         /\ i <= Len(s) => Outcome(ReadCommand(s, i), s, i, args, Len(writeCommand(args)),
                                   Len(args) <= MaxArrayLength /\ Accepted(args, Len(args)))
<1> DEFINE n == Len(args)
           H == countLineLen(n)
           W == Len(writeCommand(args))
           c == readCount(s, i, "*", MaxArrayLength)
           r == ReadCommand(s, i)
           fits == n <= MaxArrayLength /\ Accepted(args, n)
<1>1. n \in Nat /\ Len(s) \in Nat /\ "*" \in Byte /\ "*" # "LF"
  BY RESPAssumption DEF Bytes
<1>2. W \in Nat /\ H \in Nat /\ W >= H /\ Len(written(args)[0]) = H
  <2> DEFINE T == {k \in Nat : k <= n => Len(written(args)[k]) >= H}
  <2>1. /\ \A k \in 0 .. n : Len(written(args)[k]) \in Nat
        /\ Len(written(args)[0]) = H
        /\ \A k \in 1 .. n : Len(written(args)[k]) = Len(written(args)[k - 1]) + Len(WriteBulkString(args[k]))
    BY Zenon, WrittenLen
  <2>2. 0 \in T /\ H \in Nat
    BY <1>1, <2>1
  <2>3. ASSUME NEW k \in T PROVE k + 1 \in T
    <3> SUFFICES ASSUME k + 1 <= n PROVE Len(written(args)[k + 1]) >= H
      OBVIOUS
    <3>1. k + 1 \in 1 .. n /\ (k + 1) - 1 = k /\ k \in 0 .. n /\ args[k + 1] \in Bytes
      BY <1>1
    <3>2. Len(WriteBulkString(args[k + 1])) \in Nat
      BY <3>1, BulkString DEF Bytes
    <3>3. Len(written(args)[k + 1]) = Len(written(args)[k]) + Len(WriteBulkString(args[k + 1]))
      BY Zenon, <2>1, <3>1
    <3> HIDE DEF H
    <3>4. PICK x \in Nat : x = Len(written(args)[k]) /\ x >= H
      BY <2>1, <2>3, <3>1
    <3>5. PICK y \in Nat : y = Len(WriteBulkString(args[k + 1]))
      BY <3>2
    <3>6. Len(written(args)[k + 1]) = x + y
      BY Zenon, <3>3, <3>4, <3>5
    <3>7. x + y >= H
      BY <2>2, <3>4
    <3> QED BY Zenon, <3>6, <3>7
  <2>4. n \in T
    <3>1. T \in SUBSET Nat
      OBVIOUS
    <3> HIDE DEF T
    <3> QED BY <1>1, <2>2, <2>3, <3>1, Inductive
  <2>5. writeCommand(args) = written(args)[n]
    BY DEF writeCommand
  <2> HIDE DEF H
  <2> QED BY <1>1, <2>1, <2>2, <2>4, <2>5
<1>3. Carries(s, i, writeCountLine("*", n))
  <2>1. 0 \in 0 .. n
    BY <1>1
  <2>2. written(args)[0] = writeCountLine("*", n)
    BY Zenon, WrittenIs
  <2>3. Carries(s, i, written(args)[0])
    BY <2>1, CarriesBegin
  <2> QED BY <2>2, <2>3
<1>4. /\ i > Len(s) => c = EOF
      /\ i <= Len(s) => Outcome(c, s, i, n, H, n <= MaxArrayLength)
  BY <1>1, <1>3, CountRead
<1>5. r = IF OK(c) THEN readArgs(s, c.next, c.got)[c.got] ELSE c
  BY DEF ReadCommand
<1>6. i + H - 1 <= Len(s) => Outcome(readArgs(s, i + H, n)[n], s, i, args, W, Accepted(args, n))
  BY ArgsRead
<1> HIDE DEF n, H, W, c, r
<1>7. ASSUME i > Len(s) PROVE r = EOF
  BY <1>4, <1>5, <1>7, Errors
<1>8. ASSUME i <= Len(s) PROVE Outcome(r, s, i, args, W, fits)
  <2>1. CASE c = UnexpectedEOF /\ Len(s) < i + H - 1
    <3>1. r = UnexpectedEOF /\ Len(s) < i + W - 1
      BY <1>1, <1>2, <1>5, <2>1, Errors
    <3> QED BY <3>1 DEF Outcome
  <2>2. CASE c = ProtocolError /\ ~(n <= MaxArrayLength)
    <3>1. r = ProtocolError
      BY <1>5, <2>2, Errors
    <3> QED BY <2>2, <3>1 DEF Outcome
  <2>3. CASE c = Got(n, i + H) /\ n <= MaxArrayLength /\ i + H - 1 <= Len(s)
    <3>1. r = readArgs(s, i + H, n)[n]
      BY <1>5, <2>3, Errors
    <3>2. Outcome(r, s, i, args, W, Accepted(args, n))
      BY <1>6, <2>3, <3>1
    <3> QED BY <2>3, <3>2 DEF Outcome
  <2> QED BY <1>4, <1>8, <2>1, <2>2, <2>3 DEF Outcome
<1> QED BY <1>7, <1>8 DEF n, W, r

-----------------------------------------------------------------------------
(***************************************************************************)
(* The file.                                                               *)
(***************************************************************************)
Commands == Seq(Bytes)

\* The bytes of a sequence of records, record after record.
LEMMA EncodedIs ==
  ASSUME NEW rs \in Seq(Commands)
  PROVE  /\ encoded(rs) \in [0 .. Len(rs) -> Bytes] /\ encoded(rs)[0] = <<>>
         /\ \A k \in 1 .. Len(rs) : encoded(rs)[k] = encoded(rs)[k - 1] \o writeCommand(rs[k])
         /\ \A k \in 1 .. Len(rs) : rs[k] \in Commands /\ writeCommand(rs[k]) \in Bytes
<1> DEFINE n == Len(rs)
           a == <<>>
           b(k, x) == x \o writeCommand(rs[k])
           step == [k \in 1 .. n |-> [x \in Bytes |-> b(k, x)]]
           Runs(g) == g = [k \in 0 .. n |-> IF k = 0 THEN a ELSE b(k, g[k - 1])]
           w == encoded(rs)
<1>0. n \in Nat /\ a \in Bytes /\ \A k \in 1 .. n : rs[k] \in Commands
  BY DEF Bytes
<1>a. \A k \in 1 .. n : writeCommand(rs[k]) \in Bytes
  BY Zenon, <1>0, WrittenLen DEF Commands
<1>b. \A k \in 1 .. n, x \in Bytes : b(k, x) \in Bytes
  BY <1>a, Concat
<1>5. Runs(w) <=> \E g : Runs(g)
  <2>1. w = CHOOSE g : Runs(g)
    BY DEF encoded
  <2> HIDE DEF Runs, w
  <2> QED BY <2>1
<1> HIDE DEF n, a, b, w
<1>1. Loop(step, n, Bytes)
  BY <1>b DEF Loop
<1>2. PICK f : Trace(f, step, n, Bytes, a)
  <2> HIDE DEF step
  <2> QED BY <1>0, <1>1, LoopExists, Zenon
<1>3. f[0] = a /\ \A k \in 1 .. n : f[k] = b(k, f[k - 1])
  <2>1. ASSUME NEW k \in 1 .. n PROVE f[k] = b(k, f[k - 1])
    <3>1. k - 1 \in 0 .. n
      BY <1>0
    <3>2. f[k] = step[k][f[k - 1]] /\ f[k - 1] \in Bytes
      <4> HIDE DEF step
      <4> QED BY <1>2, <3>1 DEF Trace
    <3> QED BY <3>2
  <2> QED BY <1>2, <2>1 DEF Trace
<1>4. Runs(f)
  BY <1>0, <1>2, <1>3 DEF Trace
<1>6. w[0] = a /\ \A k \in 1 .. n : w[k] = b(k, w[k - 1])
  BY <1>0, <1>4, <1>5
<1>7. Alike(f, w, n)
  <2>1. GoAlike(f, w, n)
    BY <1>3, <1>6 DEF GoAlike
  <2> QED BY <1>0, <2>1, LoopsAgree, Zenon
<1>8. w \in [0 .. n -> Bytes]
  BY Zenon, <1>2, <1>4, <1>5, <1>7 DEF Trace, Alike
<1> QED BY <1>0, <1>6, <1>8, <1>a DEF n, a, b, w

\* A beginning of the records has a beginning of the bytes.
LEMMA EncodedPrefix ==
  ASSUME NEW rs \in Seq(Commands), NEW m \in 0 .. Len(rs)
  PROVE  /\ SubSeq(rs, 1, m) \in Seq(Commands) /\ Len(SubSeq(rs, 1, m)) = m
         /\ EncodeAll(SubSeq(rs, 1, m)) = encoded(rs)[m]
<1> DEFINE q == SubSeq(rs, 1, m)
           f == encoded(q)
           g == encoded(rs)
<1>1. /\ q \in Seq(Commands) /\ Len(q) = m /\ m \in Nat /\ Len(rs) \in Nat
      /\ \A k \in 1 .. m : q[k] = rs[k] /\ k \in 1 .. Len(rs)
  OBVIOUS
<1> HIDE DEF q
<1>2. f[0] = <<>> /\ \A k \in 1 .. m : f[k] = f[k - 1] \o writeCommand(rs[k])
  BY Zenon, <1>1, EncodedIs
<1>3. g[0] = <<>> /\ \A k \in 1 .. m : g[k] = g[k - 1] \o writeCommand(rs[k])
  BY Zenon, <1>1, EncodedIs
<1>4. EncodeAll(q) = f[m]
  BY <1>1 DEF EncodeAll
<1> HIDE DEF f, g
<1>5. GoAlike(f, g, m)
  BY Zenon, <1>2, <1>3 DEF GoAlike
<1>6. Alike(f, g, m)
  BY Zenon, <1>1, <1>5, LoopsAgree
<1>7. f[m] = g[m]
  BY <1>1, <1>6 DEF Alike
<1> QED BY <1>1, <1>4, <1>7 DEF q, g

\* A record more.
LEMMA EncodedAppend ==
  ASSUME NEW rs \in Seq(Commands), NEW r \in Commands
  PROVE  /\ Append(rs, r) \in Seq(Commands) /\ EncodeAll(rs) \in Bytes
         /\ EncodeAll(Append(rs, r)) = EncodeAll(rs) \o writeCommand(r)
         /\ EncodeAll(<<r>>) = writeCommand(r)
<1>1. ASSUME NEW qs \in Seq(Commands)
      PROVE  /\ Append(qs, r) \in Seq(Commands) /\ EncodeAll(qs) \in Bytes
             /\ EncodeAll(Append(qs, r)) = EncodeAll(qs) \o writeCommand(r)
  <2> DEFINE q == Append(qs, r)
             n == Len(q)
  <2>1. q \in Seq(Commands) /\ n = Len(qs) + 1 /\ Len(qs) \in Nat /\ q[n] = r /\ SubSeq(q, 1, n - 1) = qs
    <3>1. q \in Seq(Commands) /\ n = Len(qs) + 1 /\ Len(qs) \in Nat /\ q[n] = r
      OBVIOUS
    <3>2. SubSeq(q, 1, n - 1) \in Seq(Commands) /\ Len(SubSeq(q, 1, n - 1)) = Len(qs)
          /\ \A j \in 1 .. Len(qs) : SubSeq(q, 1, n - 1)[j] = qs[j]
      OBVIOUS
    <3> HIDE DEF q, n
    <3>3. SubSeq(q, 1, n - 1) = qs
      BY <3>1, <3>2
    <3> QED BY <3>1, <3>3
  <2> HIDE DEF q, n
  <2>2. n \in 1 .. Len(q) /\ n - 1 \in 0 .. Len(q)
    BY <2>1 DEF n
  <2>3. encoded(q)[n] = encoded(q)[n - 1] \o writeCommand(r)
    BY Zenon, <2>1, <2>2, EncodedIs
  <2>4. EncodeAll(qs) = encoded(q)[n - 1] /\ EncodeAll(qs) \in Bytes
    <3>1. EncodeAll(qs) = encoded(q)[n - 1]
      BY Zenon, <2>1, <2>2, EncodedPrefix
    <3>2. encoded(q)[n - 1] \in Bytes
      BY Zenon, <2>1, <2>2, EncodedIs
    <3> QED BY <3>1, <3>2
  <2>5. EncodeAll(q) = encoded(q)[n]
    BY DEF EncodeAll, n
  <2> QED BY <2>1, <2>3, <2>4, <2>5 DEF q
<1>2. EncodeAll(<<r>>) = writeCommand(r)
  <2>1. <<>> \in Seq(Commands) /\ Append(<<>>, r) = <<r>> /\ Len(<<>>) = 0
    OBVIOUS
  <2>2. EncodeAll(<<>>) = <<>>
    <3>1. encoded(<<>>)[0] = <<>>
      BY Zenon, <2>1, EncodedIs
    <3> QED BY <2>1, <3>1 DEF EncodeAll
  <2>3. EncodeAll(<<r>>) = EncodeAll(<<>>) \o writeCommand(r)
    BY Zenon, <1>1, <2>1
  <2>4. PICK t \in Bytes : t = writeCommand(r)
    BY Zenon, WrittenLen DEF Commands
  <2>5. <<>> \o t = t
    BY DEF Bytes
  <2> QED BY Zenon, <2>2, <2>3, <2>4, <2>5
<1> QED BY <1>1, <1>2

\* Where the records end.
LEMMA EncodedEnds ==
  ASSUME NEW rs \in Seq(Commands)
  PROVE  /\ \A k \in 0 .. Len(rs) :
              encoded(rs)[k] \in Bytes /\ Len(encoded(rs)[k]) \in Nat /\ Len(encoded(rs)[k]) >= 4 * k
         /\ Len(encoded(rs)[0]) = 0
         /\ \A k \in 1 .. Len(rs) :
              /\ Len(writeCommand(rs[k])) \in Nat /\ Len(writeCommand(rs[k])) >= 4
              /\ Len(encoded(rs)[k]) = Len(encoded(rs)[k - 1]) + Len(writeCommand(rs[k]))
         /\ \A j, k \in 0 .. Len(rs) : j <= k => Len(encoded(rs)[j]) <= Len(encoded(rs)[k])
<1> DEFINE n == Len(rs)
           w == encoded(rs)
           c(k) == writeCommand(rs[k])
           off == [k \in 0 .. n |-> Len(w[k])]
<1>1. /\ n \in Nat /\ w \in [0 .. n -> Bytes] /\ w[0] = <<>>
      /\ \A k \in 1 .. n : w[k] = w[k - 1] \o c(k)
      /\ \A k \in 1 .. n : c(k) \in Bytes /\ Len(c(k)) \in Nat /\ Len(c(k)) >= 4
  <2>1. n \in Nat
    OBVIOUS
  <2>2. w \in [0 .. n -> Bytes] /\ w[0] = <<>> /\ \A k \in 1 .. n : w[k] = w[k - 1] \o c(k)
    BY Zenon, EncodedIs
  <2>3. ASSUME NEW k \in 1 .. n PROVE c(k) \in Bytes /\ Len(c(k)) \in Nat /\ Len(c(k)) >= 4
    <3>1. PICK r \in Seq(Bytes) : r = rs[k]
      BY EncodedIs DEF Commands
    <3>2. Len(r) \in 0 .. Len(r)
      OBVIOUS
    <3>3. writeCommand(r) = written(r)[Len(r)]
      BY DEF writeCommand
    <3>4. writeCommand(r) \in Bytes /\ Len(writeCommand(r)) \in Nat /\ Len(writeCommand(r)) >= 4
      BY Zenon, <3>2, <3>3, WrittenLen
    <3> QED BY <3>1, <3>4
  <2> HIDE DEF w, c
  <2> QED BY <2>1, <2>2, <2>3
<1> HIDE DEF n, w, c
<1>2. off \in [0 .. n -> Nat] /\ off[0] = 0 /\ \A k \in 0 .. n : off[k] = Len(w[k])
  <2>1. \A k \in 0 .. n : Len(w[k]) \in Nat
    BY <1>1 DEF Bytes
  <2>2. Len(w[0]) = 0
    BY <1>1
  <2> QED BY <1>1, <2>1, <2>2
<1> HIDE DEF off
<1>3. ASSUME NEW k \in 1 .. n
      PROVE  k - 1 \in 0 .. n /\ k \in 0 .. n /\ off[k] = off[k - 1] + Len(c(k)) /\ off[k] >= off[k - 1] + 4
  <2>1. k - 1 \in 0 .. n /\ k \in 0 .. n
    BY <1>1
  <2>2. PICK u \in Bytes : u = w[k - 1] /\ off[k - 1] = Len(u)
    BY <1>1, <1>2, <2>1
  <2>3. PICK t \in Bytes : t = c(k) /\ Len(t) \in Nat /\ Len(t) >= 4
    BY <1>1
  <2>4. off[k] = Len(u \o t)
    BY Zenon, <1>1, <1>2, <2>1, <2>2, <2>3
  <2>5. Len(u \o t) = Len(u) + Len(t) /\ Len(u) \in Nat
    BY Concat
  <2> QED BY <2>1, <2>2, <2>3, <2>4, <2>5
<1>4. ASSUME NEW j \in 0 .. n, NEW k \in 0 .. n, j <= k PROVE off[j] <= off[k] /\ off[k] >= 4 * k
  <2> DEFINE T == {m \in Nat : m <= n => (off[m] >= 4 * m /\ (j <= m => off[j] <= off[m]))}
  <2>1. 0 \in T
    <3>1. j <= 0 => j = 0
      BY <1>1
    <3> QED BY <1>2, <3>1
  <2>2. ASSUME NEW m \in T PROVE m + 1 \in T
    <3> SUFFICES ASSUME m + 1 <= n
                 PROVE  off[m + 1] >= 4 * (m + 1) /\ (j <= m + 1 => off[j] <= off[m + 1])
      OBVIOUS
    <3>1. m \in Nat /\ m \in 0 .. n /\ m + 1 \in 1 .. n /\ (m + 1) - 1 = m /\ m + 1 \in 0 .. n
      BY <1>1
    <3>2. off[m] >= 4 * m /\ (j <= m => off[j] <= off[m])
      BY <1>1, <2>2, <3>1
    <3>3. off[m + 1] >= off[m] + 4
      BY <1>3, <3>1
    <3>4. off[m] \in Nat /\ off[m + 1] \in Nat /\ off[j] \in Nat
      BY <1>2, <3>1
    <3>5. off[m + 1] >= 4 * (m + 1)
      BY <3>1, <3>2, <3>3, <3>4
    <3>6. ASSUME j <= m + 1 PROVE off[j] <= off[m + 1]
      <4>1. CASE j = m + 1
        BY <3>4, <4>1
      <4>2. CASE j <= m
        BY <3>2, <3>3, <3>4, <4>2
      <4> QED BY <1>1, <3>1, <3>6, <4>1, <4>2
    <3> QED BY <3>5, <3>6
  <2>3. k \in T
    <3>1. T \in SUBSET Nat /\ k \in Nat
      BY <1>1
    <3> HIDE DEF T
    <3> QED BY <2>1, <2>2, <3>1, Inductive
  <2> QED BY <1>1, <1>4, <2>3
<1>5. \A k \in 0 .. n : w[k] \in Bytes /\ Len(w[k]) \in Nat /\ Len(w[k]) >= 4 * k
  <2> SUFFICES ASSUME NEW k \in 0 .. n PROVE w[k] \in Bytes /\ Len(w[k]) \in Nat /\ Len(w[k]) >= 4 * k
    OBVIOUS
  <2>1. k <= k
    BY <1>1
  <2> QED BY <1>1, <1>2, <1>4, <2>1
<1>6. \A j, k \in 0 .. n : j <= k => Len(w[j]) <= Len(w[k])
  BY <1>2, <1>4
<1>7. ASSUME NEW k \in 1 .. n
      PROVE  Len(c(k)) \in Nat /\ Len(c(k)) >= 4 /\ Len(w[k]) = Len(w[k - 1]) + Len(c(k))
  BY Zenon, <1>1, <1>2, <1>3
<1>8. Len(w[0]) = 0
  BY <1>1
<1> QED BY Zenon, <1>5, <1>6, <1>7, <1>8 DEF n, w, c

\* f is t as far as f goes.
Begins(f, t) == f \in Bytes /\ Len(f) <= Len(t) /\ \A j \in 1 .. Len(f) : f[j] = t[j]

\* What a file that begins the records' bytes holds of each.
LEMMA Held ==
  ASSUME NEW rs \in Seq(Commands), NEW f, Begins(f, EncodeAll(rs))
  PROVE  /\ \A k \in 0 .. Len(rs) : Carries(f, 1, encoded(rs)[k])
         /\ \A k \in 1 .. Len(rs) : Carries(f, 1 + Len(encoded(rs)[k - 1]), writeCommand(rs[k]))
<1> DEFINE n == Len(rs)
           w == encoded(rs)
           c == [k \in 1 .. n |-> writeCommand(rs[k])]
<1>1. /\ n \in Nat /\ w \in [0 .. n -> Bytes]
      /\ \A k \in 1 .. n : w[k] = w[k - 1] \o writeCommand(rs[k]) /\ writeCommand(rs[k]) \in Bytes
  <2>1. n \in Nat
    OBVIOUS
  <2> QED BY Zenon, <2>1, EncodedIs
<1>2. f \in Bytes /\ EncodeAll(rs) = w[n] /\ w[n] \in Bytes
  BY <1>1 DEF Begins, EncodeAll
<1>3. Carries(f, 1, w[n])
  <2>1. PICK t \in Bytes : t = w[n] /\ Begins(f, t)
    BY <1>2
  <2>2. Len(f) \in Nat /\ Len(t) \in Nat
    BY <1>2 DEF Bytes
  <2>3. ASSUME NEW j \in 1 .. Len(t), 1 + j - 1 <= Len(f) PROVE f[1 + j - 1] = t[j]
    <3>1. 1 + j - 1 = j /\ j \in 1 .. Len(f)
      BY <2>2, <2>3
    <3> QED BY <2>1, <3>1 DEF Begins
  <2>4. Carries(f, 1, t)
    BY <2>3 DEF Carries
  <2> QED BY <2>1, <2>4
<1>4. Chain(w, c, n) /\ \A k \in 1 .. n : c[k] = writeCommand(rs[k])
  BY <1>1 DEF Chain
<1> HIDE DEF w, c, n
<1>5. \A k \in 0 .. n : Carries(f, 1, w[k])
  <2>1. 1 \in Nat \ {0}
    OBVIOUS
  <2> QED BY Zenon, <1>1, <1>2, <1>3, <1>4, <2>1, ChainCarried
<1>6. ASSUME NEW k \in 1 .. n PROVE Carries(f, 1 + Len(w[k - 1]), writeCommand(rs[k]))
  <2>1. k \in 0 .. n /\ k - 1 \in 0 .. n
    BY <1>1
  <2>2. PICK u \in Bytes : u = w[k - 1]
    BY <1>1, <2>1
  <2>3. PICK t \in Bytes : t = writeCommand(rs[k])
    BY <1>1
  <2>4. Carries(f, 1, u \o t)
    BY <1>1, <1>5, <2>1, <2>2, <2>3
  <2>5. PICK i \in Nat \ {0} : i = 1
    OBVIOUS
  <2>6. Carries(f, i + Len(u), t)
    BY <1>2, <2>4, <2>5, CarriesParts
  <2> QED BY <2>2, <2>3, <2>5, <2>6
<1> QED BY <1>5, <1>6 DEF n, w

\* What the reader finds at the end of the k-th record: the end of the file, the next
\* record or a part of it, or a record it refuses.
LEMMA RecordRead ==
  ASSUME NEW rs \in Seq(Commands), NEW f, Begins(f, EncodeAll(rs)), NEW k \in 0 .. Len(rs),
         Len(encoded(rs)[k]) <= Len(f)
  PROVE  \/ Len(encoded(rs)[k]) = Len(f) /\ ReadCommand(f, Len(encoded(rs)[k]) + 1) = EOF
         \/ /\ k + 1 \in 1 .. Len(rs)
            /\ Outcome(ReadCommand(f, Len(encoded(rs)[k]) + 1), f, Len(encoded(rs)[k]) + 1, rs[k + 1],
                       Len(encoded(rs)[k + 1]) - Len(encoded(rs)[k]),
                       Len(rs[k + 1]) <= MaxArrayLength /\ Accepted(rs[k + 1], Len(rs[k + 1])))
<1> DEFINE n == Len(rs)
           w == encoded(rs)
<1>1. /\ n \in Nat /\ f \in Bytes /\ Len(f) \in Nat /\ Len(f) <= Len(w[n])
      /\ \A j \in 0 .. n : Len(w[j]) \in Nat
  <2>1. n \in Nat
    OBVIOUS
  <2>2. f \in Bytes /\ Len(f) \in Nat /\ Len(f) <= Len(w[n])
    BY DEF Begins, EncodeAll, Bytes
  <2> QED BY <2>1, <2>2, EncodedEnds
<1>2. PICK i \in Nat \ {0} : i = Len(w[k]) + 1
  BY <1>1
<1>3. CASE Len(w[k]) = Len(f)
  <2>1. i > Len(f)
    BY <1>1, <1>2, <1>3
  <2>2. <<>> \in Seq(Bytes)
    OBVIOUS
  <2>3. writeCommand(<<>>) \in Bytes
    BY Zenon, <2>2, WrittenLen
  <2>4. Carries(f, i, writeCommand(<<>>))
    <3>1. Len(writeCommand(<<>>)) \in Nat
      BY <2>3 DEF Bytes
    <3> QED BY <1>1, <2>1, <3>1 DEF Carries
  <2>5. ReadCommand(f, i) = EOF
    BY Zenon, <1>1, <2>1, <2>2, <2>4, CommandRead
  <2> QED BY <1>2, <1>3, <2>5
<1>4. CASE Len(w[k]) < Len(f)
  <2>1. k + 1 \in 1 .. n /\ k + 1 \in 0 .. n /\ (k + 1) - 1 = k
    <3>1. k # n
      BY <1>1, <1>4
    <3> QED BY <1>1, <3>1
  <2>2. PICK r \in Seq(Bytes) : r = rs[k + 1]
    BY <2>1, EncodedIs DEF Commands
  <2>3. Carries(f, i, writeCommand(r))
    <3>1. Carries(f, 1 + Len(w[(k + 1) - 1]), writeCommand(rs[k + 1]))
      BY <2>1, Held
    <3>2. 1 + Len(w[k]) = i
      BY <1>1, <1>2
    <3> QED BY <2>1, <2>2, <3>1, <3>2
  <2>4. i <= Len(f)
    BY <1>1, <1>2, <1>4
  <2>5. Outcome(ReadCommand(f, i), f, i, r, Len(writeCommand(r)),
                Len(r) <= MaxArrayLength /\ Accepted(r, Len(r)))
    BY <1>1, <2>3, <2>4, CommandRead
  <2>6. Len(writeCommand(r)) = Len(w[k + 1]) - Len(w[k])
    <3>1. Len(w[k + 1]) = Len(w[(k + 1) - 1]) + Len(writeCommand(rs[k + 1])) /\ Len(writeCommand(rs[k + 1])) \in Nat
      BY Zenon, <2>1, EncodedEnds
    <3>2. PICK x \in Nat : x = Len(w[k])
      BY <1>1
    <3>3. PICK y \in Nat : y = Len(writeCommand(r)) /\ Len(w[k + 1]) = x + y
      BY Zenon, <2>1, <2>2, <3>1, <3>2
    <3> QED BY <3>2, <3>3
  <2> QED BY Zenon, <1>2, <2>1, <2>2, <2>5, <2>6
<1>5. Len(w[k]) = Len(f) \/ Len(w[k]) < Len(f)
  <2>1. PICK x \in Nat : x = Len(w[k]) /\ x <= Len(f)
    BY <1>1
  <2> QED BY <1>1, <2>1
<1> QED BY Zenon, <1>3, <1>4, <1>5

-----------------------------------------------------------------------------
(***************************************************************************)
(* The machine's integers.                                                 *)
(***************************************************************************)
\* Division with remainder.
LEMMA Quotient ==
  ASSUME NEW a \in Nat, NEW b \in Nat, b >= 1
  PROVE  /\ a \div b \in Nat /\ a % b \in 0 .. b - 1
         /\ a = b * (a \div b) + (a % b)
         /\ a < b => a % b = a
<1> DEFINE q == a \div b
           m == a % b
<1>1. q \in Int /\ m \in 0 .. b - 1 /\ a = b * q + m
  OBVIOUS
<1> HIDE DEF q, m
<1>2. q >= 0
  <2> SUFFICES ASSUME q <= -1 PROVE FALSE
    BY <1>1
  <2>1. b * q <= -b
    BY <1>1
  <2> QED BY <1>1, <2>1
<1>3. ASSUME a < b PROVE m = a
  <2>1. q = 0
    <3> SUFFICES ASSUME q >= 1 PROVE FALSE
      BY <1>1, <1>2
    <3>1. b * q >= b
      BY <1>1
    <3> QED BY <1>1, <1>3, <3>1
  <2>2. b * q = 0
    BY <2>1
  <2> QED BY <1>1, <2>2
<1> QED BY <1>1, <1>2, <1>3 DEF q, m

\* A quotient is as many times as b goes into a.
LEMMA GoesInto ==
  ASSUME NEW a \in Nat, NEW b \in Nat, b >= 1, NEW n \in Int
  PROVE  n <= a \div b <=> n * b <= a
<1>1. PICK q \in Nat : q = a \div b
  BY Quotient
<1>2. PICK m \in 0 .. b - 1 : a = b * q + m
  <2>1. a % b \in 0 .. b - 1 /\ a = b * (a \div b) + (a % b)
    BY Quotient
  <2> QED BY Zenon, <1>1, <2>1
<1>3. ASSUME n <= q PROVE n * b <= a
  <2>1. n * b <= q * b
    BY <1>3
  <2>2. q * b = b * q
    OBVIOUS
  <2> QED BY <1>2, <2>1, <2>2
<1>4. ASSUME n >= q + 1 PROVE n * b > a
  <2>1. n * b >= (q + 1) * b
    BY <1>4
  <2>2. (q + 1) * b = b * q + b
    OBVIOUS
  <2> QED BY <1>2, <2>1, <2>2
<1> QED BY <1>1, <1>3, <1>4

\* A number of the machine's is not changed by wrapping.
LEMMA Wrapped ==
  ASSUME NEW x \in Int64
  PROVE  x \in Int /\ Wrap(x) = x
<1>1. MaxInt64 \in Nat
  BY RESPAssumption
<1>2. PICK a \in Nat : a = x - MinInt64 /\ a < 2 * (MaxInt64 + 1) /\ x = a + MinInt64
  BY <1>1 DEF Int64, MinInt64
<1>3. PICK b \in Nat : b = 2 * (MaxInt64 + 1) /\ b >= 1
  BY <1>1
<1>4. a % b = a
  BY <1>2, <1>3, Quotient
<1>5. Wrap(x) = (a % b) + MinInt64
  BY <1>2, <1>3 DEF Wrap
<1> QED BY <1>1, <1>2, <1>4, <1>5 DEF Int64, MinInt64

\* parseTTL gives the product, or nothing when it is not a number of the machine's.
LEMMA Duration ==
  ASSUME NEW n \in Int, NEW u \in Nat, u >= 1
  PROVE  /\ parseTTL(n, u) = IF n * u \in Int64 THEN {n * u} ELSE {}
         /\ n > 0 => n * u > 0
         /\ n <= 0 => n * u <= 0
<1>1. MaxInt64 \in Nat /\ MaxInt64 + 1 \in Nat /\ n * u \in Int /\ -n \in Int
  BY RESPAssumption
<1>2. Quo(MaxInt64, u) = MaxInt64 \div u
  BY <1>1 DEF Quo
<1>3. Quo(MinInt64, u) = -((MaxInt64 + 1) \div u)
  <2>1. MinInt64 < 0 /\ -MinInt64 = MaxInt64 + 1
    BY <1>1 DEF MinInt64
  <2> QED BY <2>1 DEF Quo
<1>4. n > Quo(MaxInt64, u) <=> n * u > MaxInt64
  <2>1. n <= MaxInt64 \div u <=> n * u <= MaxInt64
    BY <1>1, GoesInto
  <2>2. MaxInt64 \div u \in Nat
    BY <1>1, Quotient
  <2> QED BY <1>1, <1>2, <2>1, <2>2
<1>5. n < Quo(MinInt64, u) <=> n * u < MinInt64
  <2>1. (-n) <= (MaxInt64 + 1) \div u <=> (-n) * u <= MaxInt64 + 1
    BY <1>1, GoesInto
  <2>2. (MaxInt64 + 1) \div u \in Nat
    BY <1>1, Quotient
  <2>3. (-n) * u = -(n * u)
    BY <1>1
  <2> QED BY <1>1, <1>3, <2>1, <2>2, <2>3 DEF MinInt64
<1>6. n * u \in Int64 <=> ~(n > Quo(MaxInt64, u) \/ n < Quo(MinInt64, u))
  BY <1>1, <1>4, <1>5 DEF Int64, MinInt64
<1>7. n * u \in Int64 => Wrap(n * u) = n * u
  BY Wrapped
<1>8. parseTTL(n, u) = IF n * u \in Int64 THEN {n * u} ELSE {}
  BY <1>6, <1>7 DEF parseTTL
<1>9. (n > 0 => n * u > 0) /\ (n <= 0 => n * u <= 0)
  OBVIOUS
<1> QED BY <1>8, <1>9

-----------------------------------------------------------------------------
(***************************************************************************)
(* The records the server writes, and their replay.                        *)
(***************************************************************************)
Stamps == 1 .. MaxInt64
Deadline == {Never} \cup (Ms .. now + MaxInt64)
Entry == [val : Bytes \cup {Absent}, exp : Deadline]

\* The four shapes of a record.
Del(r)        == r = <<cmdDEL, Key>>
SetFor(r, v)  == r = <<cmdSET, Key, v>>
SetTo(r, v, n)  == r = <<cmdSET, Key, v, cmdPXAT, Itoa(n)>>
Expires(r, n) == r = <<cmdPEXPIREAT, Key, Itoa(n)>>
Shaped(r) ==
    \/ Del(r)
    \/ \E v \in Bytes : SetFor(r, v)
    \/ \E v \in Bytes, n \in Stamps : SetTo(r, v, n)
    \/ \E n \in Stamps : Expires(r, n)
Record == {r \in Commands : Shaped(r)}

\* Sequences written out.
LEMMA Tuples ==
  ASSUME NEW S, NEW a \in S, NEW b \in S, NEW c \in S, NEW d \in S, NEW e \in S
  PROVE  /\ <<a>> \in Seq(S) /\ Len(<<a>>) = 1 /\ <<a>>[1] = a
         /\ <<a, b>> \in Seq(S) /\ Len(<<a, b>>) = 2 /\ <<a, b>>[1] = a /\ <<a, b>>[2] = b
         /\ <<a, b, c>> \in Seq(S) /\ Len(<<a, b, c>>) = 3 /\ <<a, b, c>>[1] = a /\ <<a, b, c>>[2] = b
         /\ <<a, b, c>>[3] = c
         /\ <<a, b, c, d, e>> \in Seq(S) /\ Len(<<a, b, c, d, e>>) = 5
         /\ <<a, b, c, d, e>>[1] = a /\ <<a, b, c, d, e>>[3] = c /\ <<a, b, c, d, e>>[5] = e
OBVIOUS

\* The words of a record.
LEMMA Words ==
  /\ cmdSET \in Bytes /\ cmdDEL \in Bytes /\ cmdPXAT \in Bytes /\ cmdPEXPIREAT \in Bytes /\ Key \in Bytes
  /\ cmdSET # cmdDEL /\ cmdSET # cmdPEXPIREAT /\ cmdDEL # cmdPEXPIREAT
<1>1. "S" \in Byte /\ "D" \in Byte /\ "X" \in Byte /\ "P" \in Byte /\ "k" \in Byte
  BY LogFileAssumption
<1>2. /\ cmdSET \in Bytes /\ cmdDEL \in Bytes /\ cmdPXAT \in Bytes /\ cmdPEXPIREAT \in Bytes /\ Key \in Bytes
      /\ cmdSET[1] = "S" /\ cmdDEL[1] = "D" /\ cmdPEXPIREAT[1] = "P"
  BY Zenon, <1>1, OneByte DEF cmdSET, cmdDEL, cmdPXAT, cmdPEXPIREAT, Key
<1> QED BY <1>2

\* What is assumed of the constants.
LEMMA Settings ==
  /\ MaxInt64 \in Nat /\ Ms \in Nat /\ Ms >= 2 /\ Ms <= MaxInt64 /\ Sec \in Nat /\ Sec >= 2 /\ Sec <= MaxInt64
  /\ Start \in Nat /\ Ms <= Start /\ Start <= MaxInt64
  /\ MaxNow \in Nat /\ Start <= MaxNow /\ MaxNow <= MaxInt64
  /\ Absent \notin Bytes /\ Values \subseteq Bytes /\ TimedValue \in Bytes /\ Suffix \in Bytes
  /\ Counts \subseteq Int /\ MaxArrayLength \in Nat /\ MaxArrayLength >= 5
<1>1. MaxInt64 \in Nat /\ MaxArrayLength \in Nat
  BY Zenon, Limits
<1>2. /\ Ms \in 2 .. MaxInt64 /\ Sec \in 2 .. MaxInt64
      /\ Start \in Ms .. MaxInt64 /\ MaxNow \in Start .. MaxInt64
  BY LogFileAssumption
<1>3. /\ Absent \notin Bytes /\ Values \subseteq Bytes /\ TimedValue \in Bytes /\ Suffix \in Bytes
      /\ Counts \subseteq Int /\ MaxArrayLength >= 5
  BY LogFileAssumption
<1> QED BY <1>1, <1>2, <1>3

\* A stamp is read as it was written.
LEMMA Stamped ==
  ASSUME NEW n \in Stamps
  PROVE  /\ n \in Int /\ n >= 1 /\ Itoa(n) \in Bytes
         /\ parseInt(Itoa(n)) = Got(n, 0)
         /\ parseTTL(n, Ms) = IF n * Ms <= MaxInt64 THEN {n * Ms} ELSE {}
         /\ n * Ms \in Int /\ n * Ms > 0
<1>1. n \in Int /\ n >= 1 /\ n \in Int64
  BY Settings DEF Stamps, Int64, MinInt64
<1>2. Itoa(n) \in Bytes /\ parseInt(Itoa(n)) = Got(n, 0)
  BY Zenon, <1>1, Parsed
<1>3. Ms \in Nat /\ Ms >= 1
  BY Settings
<1>4. n * Ms \in Int /\ n * Ms > 0
  BY <1>1, <1>3, Duration
<1>5. parseTTL(n, Ms) = IF n * Ms \in Int64 THEN {n * Ms} ELSE {}
  BY <1>1, <1>3, Duration
<1>6. n * Ms \in Int64 <=> n * Ms <= MaxInt64
  BY <1>4, Settings DEF Int64, MinInt64
<1> QED BY <1>1, <1>2, <1>4, <1>5, <1>6

\* The shapes, and what tells them apart.
LEMMA DelIs ==
  ASSUME NEW r, Del(r)
  PROVE  r \in Record /\ Len(r) = 2 /\ r[1] = cmdDEL
<1>1. r \in Commands /\ Len(r) = 2 /\ r[1] = cmdDEL
  BY Zenon, Words, Tuples DEF Del, Commands
<1> QED BY <1>1 DEF Record, Shaped

\* A SET without an expiry.
LEMMA SetForIs ==
  ASSUME NEW r, NEW v \in Bytes, SetFor(r, v)
  PROVE  r \in Record /\ Len(r) = 3 /\ r[1] = cmdSET /\ r[3] = v
<1>1. r \in Commands /\ Len(r) = 3 /\ r[1] = cmdSET /\ r[3] = v
  BY Zenon, Words, Tuples DEF SetFor, Commands
<1> QED BY <1>1 DEF Record, Shaped

\* A SET with one.
LEMMA SetToIs ==
  ASSUME NEW r, NEW v \in Bytes, NEW n \in Stamps, SetTo(r, v, n)
  PROVE  r \in Record /\ Len(r) = 5 /\ r[1] = cmdSET /\ r[3] = v /\ r[5] = Itoa(n)
<1>1. r \in Commands /\ Len(r) = 5 /\ r[1] = cmdSET /\ r[3] = v /\ r[5] = Itoa(n)
  BY Zenon, Words, Tuples, Stamped DEF SetTo, Commands
<1> QED BY <1>1 DEF Record, Shaped

\* A PEXPIREAT.
LEMMA ExpiresIs ==
  ASSUME NEW r, NEW n \in Stamps, Expires(r, n)
  PROVE  r \in Record /\ Len(r) = 3 /\ r[1] = cmdPEXPIREAT /\ r[3] = Itoa(n)
<1>1. r \in Commands /\ Len(r) = 3 /\ r[1] = cmdPEXPIREAT /\ r[3] = Itoa(n)
  BY Zenon, Words, Tuples, Stamped DEF Expires, Commands
<1> QED BY <1>1 DEF Record, Shaped

\* A record is a command of two arguments or more, and no more than the reader takes.
LEMMA RecordIs ==
  ASSUME NEW r \in Record
  PROVE  r \in Commands /\ Len(r) \in Nat /\ Len(r) >= 2 /\ Len(r) <= MaxArrayLength /\ r # <<>>
<1>1. r \in Commands /\ Shaped(r)
  BY DEF Record
<1>2. Len(r) \in {2, 3, 5}
  BY <1>1, DelIs, SetForIs, SetToIs, ExpiresIs DEF Shaped
<1>3. Len(r) \in Nat /\ Len(r) >= 2 /\ Len(r) <= MaxArrayLength
  <2>1. MaxArrayLength \in Nat /\ MaxArrayLength >= 5
    BY Settings
  <2>2. ASSUME NEW l \in {2, 3, 5} PROVE l \in Nat /\ l >= 2 /\ l <= MaxArrayLength
    BY <2>1
  <2> QED BY Zenon, <1>2, <2>2
<1>4. Len(<<>>) = 0
  OBVIOUS
<1>5. r # <<>>
  BY <1>2, <1>4
<1> QED BY <1>1, <1>3, <1>5

\* Replaying a record leaves one entry; a record that none comes of is unreadable.
LEMMA Applied ==
  ASSUME NEW r \in Record, NEW e \in Entry, now \in Start .. MaxNow
  PROVE  \/ applyLogged(r, e) = {} /\ Unreadable(r)
         \/ \E x \in Entry : applyLogged(r, e) = {x}
<1> DEFINE number == parseInt(r[Len(r)])
           until == IF OK(number) THEN parseTTL(number.got, Ms) ELSE {}
           dead == e.val = Absent \/ (e.exp # Never /\ e.exp <= now)
           a == applyLogged(r, e)
<1>0. r \in Commands /\ Shaped(r)
  BY DEF Record
<1>1. a = CASE r[1] = cmdDEL -> {gone}
            [] r[1] = cmdSET /\ Len(r) = 3 -> {[val |-> r[3], exp |-> Never]}
            [] r[1] = cmdSET /\ Len(r) = 5 ->
                  {IF d > now THEN [val |-> r[3], exp |-> d] ELSE gone : d \in {u \in until : u > 0}}
            [] r[1] = cmdPEXPIREAT ->
                  {IF dead \/ d <= now THEN gone ELSE [e EXCEPT !.exp = d] : d \in until}
  BY DEF applyLogged
<1>2. gone \in Entry /\ \A v \in Bytes : [val |-> v, exp |-> Never] \in Entry
  BY DEF gone, Entry, Deadline
<1>3. ASSUME NEW d \in Int, d > now, d <= MaxInt64 PROVE d \in Deadline
  BY <1>3, Settings DEF Deadline
<1>4. ASSUME NEW n \in Stamps, r[Len(r)] = Itoa(n)
      PROVE  until = (IF n * Ms <= MaxInt64 THEN {n * Ms} ELSE {}) /\ number.got = n
  <2>1. number = Got(n, 0)
    BY <1>4, Stamped
  <2>2. OK(number) /\ number.got = n
    BY <2>1, Errors
  <2> HIDE DEF number
  <2> QED BY <2>2, Stamped
<1> HIDE DEF a, dead
<1>5. CASE Del(r)
  <2>1. r[1] = cmdDEL /\ ~(r[1] = cmdSET) /\ ~(r[1] = cmdPEXPIREAT)
    BY <1>5, DelIs, Words
  <2>2. a = {gone}
    BY <1>1, <2>1
  <2> QED BY <1>2, <2>2 DEF a
<1>6. ASSUME NEW v \in Bytes, SetFor(r, v) PROVE \E x \in Entry : a = {x}
  <2>1. /\ ~(r[1] = cmdDEL) /\ r[1] = cmdSET /\ Len(r) = 3 /\ ~(r[1] = cmdPEXPIREAT)
        /\ ~(Len(r) = 5) /\ r[3] = v
    BY <1>6, SetForIs, Words
  <2>2. a = {[val |-> v, exp |-> Never]}
    BY <1>1, <2>1
  <2> QED BY Zenon, <1>2, <2>2
<1>7. ASSUME NEW v \in Bytes, NEW n \in Stamps, SetTo(r, v, n)
      PROVE  (a = {} /\ Unreadable(r)) \/ \E x \in Entry : a = {x}
  <2>1. /\ ~(r[1] = cmdDEL) /\ r[1] = cmdSET /\ ~(Len(r) = 3) /\ Len(r) = 5 /\ ~(r[1] = cmdPEXPIREAT)
        /\ r[3] = v /\ r[Len(r)] = Itoa(n)
    BY <1>7, SetToIs, Words
  <2>2. until = (IF n * Ms <= MaxInt64 THEN {n * Ms} ELSE {}) /\ number.got = n
    BY <1>4, <2>1
  <2> HIDE DEF until
  <2>3. a = {IF d > now THEN [val |-> v, exp |-> d] ELSE gone : d \in {u \in until : u > 0}}
    BY <1>1, <2>1
  <2>4. PICK t \in Int : t = n * Ms /\ t > 0
    BY Stamped
  <2>5. CASE t <= MaxInt64
    <3>1. {u \in until : u > 0} = {t}
      BY <2>2, <2>4, <2>5
    <3>2. a = {IF t > now THEN [val |-> v, exp |-> t] ELSE gone}
      BY <2>3, <3>1
    <3>3. t > now => [val |-> v, exp |-> t] \in Entry
      BY <1>3, <2>5 DEF Entry
    <3> QED BY <1>2, <3>2, <3>3
  <2>6. CASE ~(t <= MaxInt64)
    <3>1. a = {}
      BY <2>2, <2>3, <2>4, <2>6
    <3>2. number.got * Ms > MaxInt64
      BY <2>2, <2>4, <2>6, Settings
    <3>3. Unreadable(r)
      BY <2>1, <3>2 DEF Unreadable
    <3> QED BY <3>1, <3>3
  <2> QED BY <2>5, <2>6
<1>8. ASSUME NEW n \in Stamps, Expires(r, n)
      PROVE  (a = {} /\ Unreadable(r)) \/ \E x \in Entry : a = {x}
  <2>1. /\ ~(r[1] = cmdDEL) /\ ~(r[1] = cmdSET) /\ r[1] = cmdPEXPIREAT /\ r[Len(r)] = Itoa(n)
    BY <1>8, ExpiresIs, Words
  <2>2. until = (IF n * Ms <= MaxInt64 THEN {n * Ms} ELSE {}) /\ number.got = n
    BY Zenon, <1>4, <2>1
  <2> HIDE DEF until
  <2>3. a = {IF dead \/ d <= now THEN gone ELSE [e EXCEPT !.exp = d] : d \in until}
    BY <1>1, <2>1
  <2>4. PICK t \in Int : t = n * Ms /\ t > 0
    BY Stamped
  <2>5. CASE t <= MaxInt64
    <3>1. until = {t}
      BY <2>2, <2>4, <2>5
    <3>2. a = {IF dead \/ t <= now THEN gone ELSE [e EXCEPT !.exp = t]}
      BY <2>3, <3>1
    <3>3. ~(t <= now) => [e EXCEPT !.exp = t] \in Entry
      <4>1. now \in Int
        BY Settings
      <4> QED BY <1>3, <2>5, <4>1 DEF Entry
    <3> QED BY <1>2, <3>2, <3>3
  <2>6. CASE ~(t <= MaxInt64)
    <3>1. a = {}
      BY <2>2, <2>3, <2>4, <2>6
    <3>2. number.got * Ms > MaxInt64
      BY <2>2, <2>4, <2>6, Settings
    <3>3. Unreadable(r)
      BY <2>1, <3>2 DEF Unreadable
    <3> QED BY <3>1, <3>3
  <2> QED BY <2>5, <2>6
<1> QED BY <1>0, <1>5, <1>6, <1>7, <1>8 DEF Shaped, a

-----------------------------------------------------------------------------
(***************************************************************************)
(* Replay's loop.                                                          *)
(***************************************************************************)
\* The loop after k rounds that have each applied a record; ended by the end of the file;
\* ended by a record it refuses.
End(k) == Len(encoded(records)[k])
Applying(l, k) ==
    /\ k \in 0 .. Len(records) /\ End(k) <= Len(file)
    /\ \E e \in Entry :
          l = [phase |-> "down", next |-> End(k) + 1, cmds |-> SubSeq(records, 1, k), bytes |-> End(k),
               size |-> Len(file), entry |-> e]
Applies(l, m) ==
    /\ l.phase = "up" /\ l.cmds = SubSeq(records, 1, m) /\ l.size = End(m) /\ l.entry \in Entry
    /\ End(m) <= Len(file) /\ (m + 1 \in 1 .. Len(records) => Len(file) < End(m + 1))
Ended(l)   == \E m \in 0 .. Len(records) : Applies(l, m)
Refuses(l) == l.phase = "refused" /\ l.size = Len(file) /\ \E i \in DOMAIN records : Unreadable(records[i])

\* What the loop starts from.
Replayable == records \in Seq(Record) /\ Begins(file, EncodeAll(records)) /\ now \in Start .. MaxNow

\* Records are commands.
LEMMA RecordsAre ==
  ASSUME records \in Seq(Record)
  PROVE  /\ records \in Seq(Commands) /\ Len(records) \in Nat
         /\ \A k \in 1 .. Len(records) : records[k] \in Record /\ k \in DOMAIN records
<1>1. Record \subseteq Commands
  BY DEF Record
<1>2. Len(records) \in Nat /\ DOMAIN records = 1 .. Len(records) /\ \A k \in 1 .. Len(records) : records[k] \in Record
  OBVIOUS
<1>3. records \in Seq(Commands)
  BY <1>1
<1> QED BY <1>2, <1>3

\* A round applies the next record, or ends the loop where the file or the reader does.
LEMMA RoundKept ==
  ASSUME Replayable, NEW k \in Nat, NEW l, Applying(l, k)
  PROVE  Applying(Round(l), k + 1) \/ Ended(Round(l)) \/ Refuses(Round(l))
<1> DEFINE n == Len(records)
           c == ReadCommand(file, l.next)
           applied == applyLogged(c.got, l.entry)
           corrupt == [l EXCEPT !.phase = "refused"]
           i == End(k) + 1
           x == Round(l)
<1>0. /\ records \in Seq(Commands) /\ n \in Nat /\ Len(file) \in Nat /\ Begins(file, EncodeAll(records))
      /\ \A j \in 1 .. n : records[j] \in Record /\ j \in DOMAIN records
  BY RecordsAre DEF Replayable, Begins, Bytes
<1>1. PICK e \in Entry :
         l = [phase |-> "down", next |-> i, cmds |-> SubSeq(records, 1, k), bytes |-> End(k),
              size |-> Len(file), entry |-> e]
  BY DEF Applying
<1>2. k \in 0 .. n /\ End(k) <= Len(file)
  BY DEF Applying
<1>3. \A j \in 0 .. n : End(j) \in Nat
  BY <1>0, EncodedEnds DEF End
<1>4. l.next = i /\ l.entry = e /\ c = ReadCommand(file, i)
  BY <1>1
<1>5. x = CASE c = EOF           -> [l EXCEPT !.phase = "up"]
            [] c = UnexpectedEOF -> [l EXCEPT !.phase = "up", !.size = l.bytes]
            [] c = ProtocolError -> corrupt
            [] OK(c) /\ c.got = <<>> -> [l EXCEPT !.next = c.next]
            [] OK(c) /\ c.got # <<>> ->
                  IF applied = {} THEN corrupt
                  ELSE [l EXCEPT !.next = c.next, !.cmds = Append(l.cmds, c.got),
                                 !.bytes = l.bytes + EncodedLen(c.got),
                                 !.entry = CHOOSE y \in applied : TRUE]
  BY DEF Round, Handle
<1> HIDE DEF c, x, i
<1>6. CASE End(k) = Len(file) /\ c = EOF
  <2>1. x = [l EXCEPT !.phase = "up"]
    BY <1>5, <1>6, Errors
  <2>2. x.phase = "up" /\ x.cmds = SubSeq(records, 1, k) /\ x.size = End(k) /\ x.entry = e
    BY <1>1, <1>6, <2>1
  <2>3. ASSUME k + 1 \in 1 .. n PROVE Len(file) < End(k + 1)
    <3>1. End(k + 1) >= End(k) + 4
      <4>1. (k + 1) - 1 = k
        OBVIOUS
      <4>2. /\ Len(encoded(records)[k + 1]) = Len(encoded(records)[(k + 1) - 1]) + Len(writeCommand(records[k + 1]))
            /\ Len(writeCommand(records[k + 1])) \in Nat /\ Len(writeCommand(records[k + 1])) >= 4
        BY Zenon, <1>0, <2>3, EncodedEnds
      <4>3. PICK y \in Nat : y >= 4 /\ End(k + 1) = End(k) + y
        BY Zenon, <4>1, <4>2 DEF End
      <4> QED BY <1>2, <1>3, <4>3
    <3>2. k + 1 \in 0 .. n
      BY <1>0, <2>3
    <3> QED BY <1>0, <1>2, <1>3, <1>6, <3>1, <3>2
  <2>4. Applies(x, k)
    BY <1>2, <2>2, <2>3 DEF Applies
  <2> QED BY <1>2, <2>4 DEF Ended, x
<1> DEFINE r == records[k + 1]
           L == End(k + 1) - End(k)
           fits == Len(r) <= MaxArrayLength /\ Accepted(r, Len(r))
<1>7. CASE k + 1 \in 1 .. n /\ Outcome(c, file, i, r, L, fits)
  <2>0. /\ k + 1 \in 1 .. n /\ k + 1 \in 0 .. n /\ (k + 1) - 1 = k /\ r \in Record /\ r \in Commands /\ r # <<>>
        /\ k + 1 \in DOMAIN records /\ Len(r) <= MaxArrayLength /\ Len(r) \in Nat
    <3>1. k + 1 \in 1 .. n /\ k + 1 \in 0 .. n /\ (k + 1) - 1 = k
      BY <1>0, <1>7
    <3>2. r \in Record /\ k + 1 \in DOMAIN records
      BY <1>0, <3>1
    <3>3. r \in Commands /\ r # <<>> /\ Len(r) <= MaxArrayLength /\ Len(r) \in Nat
      BY <3>2, RecordIs
    <3> QED BY <3>1, <3>2, <3>3
  <2>1. PICK a \in Nat : a = End(k)
    BY <1>2, <1>3
  <2>2. PICK b \in Nat : b = End(k + 1)
    BY <1>3, <2>0
  <2>3. i = a + 1 /\ L = b - a
    BY <2>1, <2>2 DEF i
  <2>4. corrupt.phase = "refused" /\ corrupt.size = Len(file)
    BY <1>1
  <2> HIDE DEF r, L, corrupt, n
  <2>5. CASE c = UnexpectedEOF /\ Len(file) < i + L - 1
    <3>1. x = [l EXCEPT !.phase = "up", !.size = l.bytes]
      BY <1>5, <2>5, Errors
    <3>2. x.phase = "up" /\ x.cmds = SubSeq(records, 1, k) /\ x.size = End(k) /\ x.entry = e
      BY <1>1, <3>1
    <3>3. Len(file) < End(k + 1)
      BY <1>0, <2>2, <2>3, <2>5
    <3>4. Applies(x, k)
      BY <1>2, <3>2, <3>3 DEF Applies
    <3> QED BY <1>2, <3>4 DEF Ended, x, n
  <2>6. CASE c = ProtocolError /\ ~fits
    <3>1. x = corrupt
      BY <1>5, <2>6, Errors
    <3>2. Unreadable(r)
      <4>1. PICK j \in 1 .. Len(r) : ~(Len(r[j]) <= MaxBulkLength)
        BY <2>0, <2>6 DEF Accepted
      <4>2. DOMAIN r = 1 .. Len(r) /\ r[j] \in Bytes /\ Len(r[j]) \in Nat /\ MaxBulkLength \in Nat
        <5>1. DOMAIN r = 1 .. Len(r) /\ r[j] \in Bytes
          BY <2>0 DEF Commands
        <5> QED BY <5>1, Limits DEF Bytes
      <4>3. Len(r[j]) > MaxBulkLength
        BY <4>1, <4>2
      <4> QED BY <4>2, <4>3 DEF Unreadable
    <3>3. Refuses(x)
      BY <2>0, <2>4, <3>1, <3>2 DEF Refuses, r
    <3> QED BY <3>3 DEF x
  <2>7. CASE c = Got(r, i + L) /\ i + L - 1 <= Len(file)
    <3>1. OK(c) /\ c.got = r /\ c.next = b + 1 /\ b <= Len(file)
      <4>1. i + L = b + 1 /\ i + L - 1 = b
        BY <2>1, <2>2, <2>3
      <4> QED BY <2>7, <4>1, Errors
    <3>2. c # EOF /\ c # UnexpectedEOF /\ c # ProtocolError
      BY <2>7, Errors
    <3>3. applied = applyLogged(r, e)
      BY <1>4, <3>1
    <3>4. CASE applied = {} /\ Unreadable(r)
      <4>1. x = corrupt
        BY <1>5, <2>0, <3>1, <3>2, <3>4
      <4>2. Refuses(x)
        BY <2>0, <2>4, <3>4, <4>1 DEF Refuses, r
      <4> QED BY <4>2 DEF x
    <3>5. ASSUME NEW y \in Entry, applied = {y} PROVE Applying(x, k + 1)
      <4>1. (CHOOSE z \in applied : TRUE) = y /\ applied # {}
        BY <3>5
      <4> HIDE DEF applied
      <4>2. x = [l EXCEPT !.next = c.next, !.cmds = Append(l.cmds, c.got),
                          !.bytes = l.bytes + EncodedLen(c.got), !.entry = y]
        BY Zenon, <1>5, <2>0, <3>1, <3>2, <4>1
      <4>3. EncodedLen(r) = b - a
        <5>1. EncodedLen(r) = Len(writeCommand(r))
          BY Zenon, <2>0, WrittenLen DEF Commands
        <5>2. Len(encoded(records)[k + 1]) = Len(encoded(records)[(k + 1) - 1]) + Len(writeCommand(records[k + 1]))
              /\ Len(writeCommand(records[k + 1])) \in Nat
          BY Zenon, <1>0, <2>0, EncodedEnds DEF n
        <5>3. PICK z \in Nat : z = EncodedLen(r) /\ b = a + z
          BY Zenon, <2>0, <2>1, <2>2, <5>1, <5>2 DEF End, r
        <5> QED BY <5>3
      <4>4. Append(SubSeq(records, 1, k), r) = SubSeq(records, 1, k + 1)
        <5>1. Append(SubSeq(records, 1, (k + 1) - 1), records[k + 1]) = SubSeq(records, 1, k + 1)
          BY <1>0, <2>0, PrefixGrows DEF n
        <5> QED BY <2>0, <5>1 DEF r
      <4>5. x = [phase |-> "down", next |-> b + 1, cmds |-> Append(SubSeq(records, 1, k), r),
                 bytes |-> a + EncodedLen(r), size |-> Len(file), entry |-> y]
        BY Zenon, <1>1, <2>1, <3>1, <4>2
      <4>6. a + EncodedLen(r) = b
        BY <4>3
      <4>7. x = [phase |-> "down", next |-> End(k + 1) + 1, cmds |-> SubSeq(records, 1, k + 1),
                 bytes |-> End(k + 1), size |-> Len(file), entry |-> y]
        BY Zenon, <2>2, <4>4, <4>5, <4>6
      <4>8. k + 1 \in 0 .. Len(records) /\ End(k + 1) <= Len(file)
        BY <2>0, <2>2, <3>1 DEF n
      <4> QED BY Zenon, <4>7, <4>8 DEF Applying
    <3>6. (applied = {} /\ Unreadable(r)) \/ \E y \in Entry : applied = {y}
      <4>1. now \in Start .. MaxNow
        BY DEF Replayable
      <4> QED BY <2>0, <3>3, <4>1, Applied
    <3> QED BY <3>4, <3>5, <3>6 DEF x
  <2> QED BY <1>7, <2>5, <2>6, <2>7 DEF Outcome
<1>8. \/ End(k) = Len(file) /\ c = EOF
      \/ k + 1 \in 1 .. n /\ Outcome(c, file, i, r, L, fits)
  BY Zenon, <1>0, <1>2, <1>4, RecordRead DEF End, i
<1> QED BY Zenon, <1>6, <1>7, <1>8

Begun == [phase |-> "down", next |-> 1, cmds |-> <<>>, bytes |-> 0, size |-> Len(file), entry |-> gone]

\* The loop of Replay, and that it has rounds enough for the file.
LEMMA RoundsAre ==
  ASSUME file \in Bytes
  PROVE  /\ MaxRounds \in Nat /\ 4 * MaxRounds > Len(file)
         /\ rounds[0] = Begun
         /\ \A k \in 1 .. MaxRounds : rounds[k] = Continue(rounds[k - 1])
<1> DEFINE n == MaxRounds
           a == Begun
           b(x) == Continue(x)
           Runs(g, m) == g = [k \in 0 .. m |-> IF k = 0 THEN a ELSE b(g[k - 1])]
           w == rounds
           T == {m \in Nat : \E g : Runs(g, m)}
<1>0. n \in Nat /\ 4 * n > Len(file)
  <2>1. Len(file) \in Nat
    BY DEF Bytes
  <2>2. n = Len(file) \div 4 + 1
    BY DEF MaxRounds
  <2> HIDE DEF n
  <2> QED BY <2>1, <2>2
<1>1. w = CHOOSE g : Runs(g, n)
  BY DEF rounds, Begun
<1> HIDE DEF a, b, w, n
<1>2. 0 \in T
  <2> DEFINE g0 == [k \in 0 .. 0 |-> a]
  <2>1. Runs(g0, 0)
    OBVIOUS
  <2> QED BY Zenon, <2>1
<1>3. ASSUME NEW m \in T PROVE m + 1 \in T
  <2>0. m \in Nat /\ m + 1 \in Nat
    OBVIOUS
  <2>1. PICK f : Runs(f, m)
    BY <1>3
  <2> DEFINE c == b(f[m])
             g == [k \in 0 .. m + 1 |-> IF k = m + 1 THEN c ELSE f[k]]
  <2>2. f[0] = a /\ \A k \in 1 .. m : f[k] = b(f[k - 1])
    BY <2>0, <2>1
  <2>3. g[0] = a /\ g[m + 1] = c /\ \A k \in 0 .. m : g[k] = f[k]
    BY <2>0, <2>2
  <2>4. ASSUME NEW k \in 0 .. m + 1 PROVE g[k] = IF k = 0 THEN a ELSE b(g[k - 1])
    <3> HIDE DEF g
    <3>1. CASE k = m + 1
      <4>1. k - 1 = m /\ m \in 0 .. m /\ k # 0
        BY <2>0, <3>1
      <4>2. g[k - 1] = f[m]
        BY <2>3, <4>1
      <4> QED BY <2>3, <3>1, <4>1, <4>2
    <3>2. CASE k \in 1 .. m
      <4>1. k - 1 \in 0 .. m /\ k \in 0 .. m /\ k # 0
        BY <2>0, <3>2
      <4> QED BY <2>2, <2>3, <3>2, <4>1
    <3>3. CASE k = 0
      BY <2>3, <3>3
    <3> QED BY <2>0, <3>1, <3>2, <3>3
  <2>5. Runs(g, m + 1)
    BY <2>4
  <2> HIDE DEF g, Runs
  <2> QED BY <2>0, <2>5
<1>4. n \in T
  <2>1. T \in SUBSET Nat
    OBVIOUS
  <2> HIDE DEF T
  <2> QED BY <1>0, <1>2, <1>3, <2>1, Inductive
<1>5. Runs(w, n)
  <2> HIDE DEF Runs
  <2> QED BY <1>1, <1>4
<1>6. w[0] = a /\ \A k \in 1 .. n : w[k] = b(w[k - 1])
  BY <1>0, <1>5
<1> QED BY <1>0, <1>6 DEF w, a, b, n

\* Replay comes to an end: it has applied the whole records, or met one it refuses.
LEMMA ReplayEnds ==
  ASSUME Replayable
  PROVE  Ended(replay) \/ Refuses(replay)
<1> DEFINE P(k) == Applying(rounds[k], k) \/ Ended(rounds[k]) \/ Refuses(rounds[k])
           T == {k \in Nat : k <= MaxRounds => P(k)}
<1>0. /\ records \in Seq(Commands) /\ Len(records) \in Nat /\ file \in Bytes /\ Len(file) \in Nat
      /\ MaxRounds \in Nat /\ 4 * MaxRounds > Len(file)
  BY RecordsAre, RoundsAre DEF Replayable, Begins, Bytes
<1>1. 0 \in T
  <2>1. rounds[0] = Begun
    BY <1>0, RoundsAre
  <2>2. gone \in Entry
    BY DEF gone, Entry, Deadline
  <2>3. End(0) = 0 /\ 0 \in 0 .. Len(records)
    <3>1. Len(encoded(records)[0]) = 0
      BY Zenon, <1>0, EncodedEnds
    <3> QED BY <1>0, <3>1 DEF End
  <2>4. SubSeq(records, 1, 0) = <<>>
    BY <1>0
  <2>5. rounds[0] = [phase |-> "down", next |-> End(0) + 1, cmds |-> SubSeq(records, 1, 0), bytes |-> End(0),
                     size |-> Len(file), entry |-> gone]
    BY <2>1, <2>3, <2>4 DEF Begun
  <2>6. Applying(rounds[0], 0)
    BY <1>0, <2>2, <2>3, <2>5 DEF Applying
  <2> QED BY <2>6
<1>2. ASSUME NEW k \in T PROVE k + 1 \in T
  <2> SUFFICES ASSUME k + 1 <= MaxRounds PROVE P(k + 1)
    OBVIOUS
  <2>1. k \in Nat /\ k + 1 \in 1 .. MaxRounds /\ (k + 1) - 1 = k /\ k <= MaxRounds
    BY <1>0, <1>2
  <2>2. PICK l : l = rounds[k]
    OBVIOUS
  <2>3. PICK x : x = rounds[k + 1]
    OBVIOUS
  <2>4. x = IF l.phase = "down" THEN Round(l) ELSE l
    <3>1. rounds[k + 1] = Continue(rounds[(k + 1) - 1])
      BY <1>0, <2>1, RoundsAre
    <3> QED BY <2>1, <2>2, <2>3, <3>1 DEF Continue
  <2>5. Applying(l, k) \/ Ended(l) \/ Refuses(l)
    BY <1>2, <2>1, <2>2
  <2>6. CASE Applying(l, k)
    <3>1. l.phase = "down"
      <4>1. PICK a, c, b, z, e : l = [phase |-> "down", next |-> a, cmds |-> c, bytes |-> b, size |-> z,
                                      entry |-> e]
        BY Zenon, <2>6 DEF Applying
      <4> QED BY <4>1
    <3>2. k \in Nat
      BY <2>1
    <3>3. Applying(Round(l), k + 1) \/ Ended(Round(l)) \/ Refuses(Round(l))
      BY Zenon, <2>6, <3>2, RoundKept
    <3> QED BY <2>3, <2>4, <3>1, <3>3
  <2>7. CASE Ended(l) \/ Refuses(l)
    <3>1. l.phase # "down"
      BY <2>7 DEF Ended, Applies, Refuses
    <3> QED BY <2>3, <2>4, <2>7, <3>1
  <2> QED BY <2>5, <2>6, <2>7
<1>3. P(MaxRounds)
  <2>1. T \in SUBSET Nat
    OBVIOUS
  <2>2. MaxRounds \in T
    <3> HIDE DEF T
    <3> QED BY <1>0, <1>1, <1>2, <2>1, Inductive
  <2> QED BY <1>0, <2>2
<1>4. ~Applying(rounds[MaxRounds], MaxRounds)
  <2> SUFFICES ASSUME Applying(rounds[MaxRounds], MaxRounds) PROVE FALSE
    OBVIOUS
  <2>1. MaxRounds \in 0 .. Len(records) /\ End(MaxRounds) <= Len(file)
    BY DEF Applying
  <2>2. PICK m \in Nat : m = MaxRounds
    BY <1>0
  <2>3. End(m) \in Nat /\ End(m) >= 4 * m
    BY Zenon, <1>0, <2>1, <2>2, EncodedEnds DEF End
  <2> QED BY <1>0, <2>1, <2>2, <2>3
<1> QED BY <1>3, <1>4 DEF replay

\* The records that a cut leaves whole, and the bytes they end at.
LEMMA WholeIs ==
  ASSUME Replayable, NEW m \in 0 .. Len(records), End(m) <= Len(file),
         m + 1 \in 1 .. Len(records) => Len(file) < End(m + 1)
  PROVE  /\ Whole(records, Len(file)) = SubSeq(records, 1, m)
         /\ SubSeq(file, 1, End(m)) = EncodeAll(SubSeq(records, 1, m))
<1> DEFINE n == Len(records)
           S == {k \in 0 .. n : Len(EncodeAll(SubSeq(records, 1, k))) <= Len(file)}
<1>0. records \in Seq(Commands) /\ n \in Nat /\ file \in Bytes /\ Len(file) \in Nat
  BY RecordsAre DEF Replayable, Begins, Bytes
<1>1. \A k \in 0 .. n : EncodeAll(SubSeq(records, 1, k)) = encoded(records)[k]
  BY <1>0, EncodedPrefix
<1>2. \A k \in 0 .. n : encoded(records)[k] \in Bytes /\ End(k) \in Nat
  BY Zenon, <1>0, EncodedEnds DEF End
<1>3. \A j, k \in 0 .. n : j <= k => End(j) <= End(k)
  BY Zenon, <1>0, EncodedEnds DEF End
<1>4. S = {k \in 0 .. n : End(k) <= Len(file)}
  BY <1>1 DEF End
<1>5. Whole(records, Len(file)) = SubSeq(records, 1, Max(S))
  BY DEF Whole
<1> HIDE DEF S
<1>6. m \in S /\ \A k \in S : m >= k
  <2>1. m \in S
    BY <1>4
  <2>2. ASSUME NEW k \in S, k > m PROVE FALSE
    <3>1. k \in 0 .. n /\ End(k) <= Len(file)
      BY <1>4
    <3>2. m + 1 \in 1 .. n /\ m + 1 \in 0 .. n /\ m + 1 <= k
      BY <1>0, <2>2, <3>1
    <3>3. Len(file) < End(m + 1) /\ End(m + 1) <= End(k)
      BY <1>3, <3>1, <3>2
    <3> QED BY <1>0, <1>2, <3>1, <3>2, <3>3
  <2>3. \A k \in S : k \in Int
    BY <1>0, <1>4
  <2> QED BY <1>0, <2>1, <2>2, <2>3
<1>7. Max(S) = m
  <2>1. Max(S) = CHOOSE x \in S : \A y \in S : x >= y
    BY DEF Max
  <2>2. Max(S) \in S /\ Max(S) >= m
    BY Zenon, <1>6, <2>1
  <2>3. PICK x \in S : x = Max(S) /\ x >= m /\ m >= x
    BY Zenon, <1>6, <2>2
  <2>4. x \in Int
    BY <1>0, <1>4
  <2> QED BY <1>0, <2>3, <2>4
<1>8. SubSeq(file, 1, End(m)) = EncodeAll(SubSeq(records, 1, m))
  <2>1. PICK t \in Bytes : t = encoded(records)[m] /\ Len(t) = End(m) /\ Len(t) \in Nat
    BY <1>2 DEF End
  <2>2. Carries(file, 1, t)
    BY <1>0, <2>1, Held DEF Replayable
  <2>3. PICK i \in Nat \ {0} : i = 1
    OBVIOUS
  <2>4. i + Len(t) - 1 = End(m)
    BY <2>1, <2>3
  <2>5. SubSeq(file, i, i + Len(t) - 1) = t
    BY <1>0, <2>2, <2>3, <2>4, CarriedWhole
  <2> QED BY <1>1, <2>1, <2>3, <2>4, <2>5
<1> QED BY <1>5, <1>7, <1>8

-----------------------------------------------------------------------------
(***************************************************************************)
(* The invariant.                                                          *)
(***************************************************************************)
\* The file is what the server has put there, all of it while the server is up and a
\* beginning of it after a crash; the records have the shapes replay knows.
Inv ==
    /\ phase \in {"up", "down", "refused"}
    /\ val \in Bytes \cup {Absent} /\ exp \in Deadline
    /\ Replayable
    /\ phase = "up" => file = EncodeAll(records)
    /\ RefusesOnlyUnreadable

\* The clock, and the deadlines that may be set by it.
LEMMA Clock ==
  ASSUME now \in Start .. MaxNow
  PROVE  /\ now \in Nat /\ Ms <= now /\ now <= MaxInt64 /\ MaxInt64 \in Nat
         /\ \A e \in Deadline : e \in Nat /\ e <= now + MaxInt64 /\ (e # Never => e >= Ms)
         /\ \A e \in Int : e > now /\ e <= now + MaxInt64 => e \in Deadline
         /\ Never \in Deadline
<1>1. now \in Nat /\ Ms <= now /\ now <= MaxInt64 /\ MaxInt64 \in Nat /\ Ms \in Nat
  BY Settings
<1> QED BY <1>1 DEF Deadline, Never

\* The number of milliseconds in a deadline is a stamp.
LEMMA Milliseconds ==
  ASSUME now \in Start .. MaxNow, NEW e \in Deadline, e # Never
  PROVE  e \div Ms \in Stamps
<1>1. /\ e \in Nat /\ e >= Ms /\ e <= 2 * MaxInt64
      /\ Ms \in Nat /\ Ms >= 2 /\ MaxInt64 \in Nat
  BY Clock, Settings
<1>2. PICK q \in Nat : q = e \div Ms
  <2>1. Ms >= 1
    BY <1>1
  <2>2. e \div Ms \in Nat
    BY Zenon, <1>1, <2>1, Quotient
  <2> QED BY Zenon, <2>2
<1>3. 1 <= q
  <2>1. 1 <= e \div Ms <=> 1 * Ms <= e
    BY <1>1, GoesInto
  <2> QED BY <1>1, <1>2, <2>1
<1>4. q <= MaxInt64
  <2> SUFFICES ASSUME q >= MaxInt64 + 1 PROVE FALSE
    BY <1>1
  <2>1. q * Ms <= e
    <3>1. q <= q
      OBVIOUS
    <3>2. q <= e \div Ms <=> q * Ms <= e
      BY <1>1, GoesInto
    <3> QED BY <1>2, <3>1, <3>2
  <2>2. q * Ms >= q * 2
    BY <1>1
  <2>3. q * 2 >= 2 * MaxInt64 + 2 /\ q * Ms \in Int
    BY <1>1
  <2> QED BY <1>1, <2>1, <2>2, <2>3
<1> QED BY <1>1, <1>2, <1>3, <1>4 DEF Stamps

\* What the handlers append has the shapes replay knows.
LEMMA RecordsWritten ==
  ASSUME now \in Start .. MaxNow
  PROVE  /\ DelRecord \in Record
         /\ \A v \in Bytes, e \in Deadline : SetRecord(v, e) \in Record
         /\ \A e \in Deadline : e # Never => <<cmdPEXPIREAT, Key, unixMillis(e)>> \in Record
<1>1. DelRecord \in Record
  <2>1. Del(DelRecord)
    BY DEF Del, DelRecord
  <2> QED BY <2>1, DelIs
<1>2. ASSUME NEW v \in Bytes, NEW e \in Deadline PROVE SetRecord(v, e) \in Record
  <2>1. CASE e = Never
    <3>1. SetFor(SetRecord(v, e), v)
      BY <2>1 DEF SetFor, SetRecord
    <3> QED BY <3>1, SetForIs
  <2>2. CASE e # Never
    <3>1. PICK n \in Stamps : n = e \div Ms
      BY <2>2, Milliseconds
    <3>2. SetTo(SetRecord(v, e), v, n)
      BY <2>2, <3>1 DEF SetTo, SetRecord, unixMillis
    <3> QED BY <3>2, SetToIs
  <2> QED BY <2>1, <2>2
<1>3. ASSUME NEW e \in Deadline, e # Never PROVE <<cmdPEXPIREAT, Key, unixMillis(e)>> \in Record
  <2>1. PICK n \in Stamps : n = e \div Ms
    BY <1>3, Milliseconds
  <2>2. Expires(<<cmdPEXPIREAT, Key, unixMillis(e)>>, n)
    BY <2>1 DEF Expires, unixMillis
  <2> QED BY <2>2, ExpiresIs
<1> QED BY <1>1, <1>2, <1>3

\* A text begins with itself.
LEMMA BeginsItself ==
  ASSUME NEW t \in Bytes
  PROVE  Begins(t, t)
BY DEF Begins, Bytes

\* A mutation appends its record to the file.
LEMMA Committed ==
  ASSUME Inv, NEW v \in Bytes \cup {Absent}, NEW e \in Deadline, NEW r \in Record, Commit(v, e, <<r>>)
  PROVE  Inv'
<1>1. /\ phase = "up" /\ phase' = "up" /\ now' = now /\ val' = v /\ exp' = e
      /\ file' = file \o EncodeAll(<<r>>) /\ records' = records \o <<r>>
  BY DEF Commit
<1>2. records \in Seq(Record) /\ file = EncodeAll(records) /\ now \in Start .. MaxNow
  BY <1>1 DEF Inv, Replayable
<1>3. records \in Seq(Commands) /\ r \in Commands
  BY <1>2, RecordsAre, RecordIs
<1>4. records' = Append(records, r) /\ records' \in Seq(Record)
  <2>1. records \o <<r>> = Append(records, r) /\ Append(records, r) \in Seq(Record)
    BY <1>2
  <2> QED BY <1>1, <2>1
<1>5. file' = EncodeAll(Append(records, r)) /\ EncodeAll(Append(records, r)) \in Bytes
  <2>1. /\ Append(records, r) \in Seq(Commands)
        /\ EncodeAll(Append(records, r)) = EncodeAll(records) \o writeCommand(r)
        /\ EncodeAll(<<r>>) = writeCommand(r)
    BY Zenon, <1>3, EncodedAppend
  <2>2. EncodeAll(Append(records, r)) \in Bytes
    <3>1. PICK q \in Seq(Commands) : q = Append(records, r)
      BY Zenon, <2>1
    <3>2. EncodeAll(q) \in Bytes
      BY Zenon, <1>3, EncodedAppend
    <3> QED BY <3>1, <3>2
  <2> QED BY Zenon, <1>1, <1>2, <2>1, <2>2
<1>6. file' = EncodeAll(records)' /\ Begins(file, EncodeAll(records))'
  <2>1. EncodeAll(records)' = EncodeAll(Append(records, r))
    BY <1>4
  <2> QED BY <1>5, <2>1, BeginsItself
<1>7. Replayable'
  BY <1>1, <1>2, <1>4, <1>6 DEF Replayable
<1>8. val' \in Bytes \cup {Absent} /\ exp' \in Deadline'
  BY <1>1 DEF Deadline
<1> QED BY <1>1, <1>6, <1>7, <1>8 DEF Inv, RefusesOnlyUnreadable

\* Set keeps the invariant.
LEMMA SetKept ==
  ASSUME Inv, NEW v \in Bytes, NEW e \in Deadline, Set(v, e)
  PROVE  Inv'
<1>1. SetRecord(v, e) \in Record
  BY RecordsWritten DEF Inv, Replayable
<1>2. PICK r \in Record : r = SetRecord(v, e)
  BY <1>1
<1>3. Commit(v, e, <<r>>)
  BY <1>2 DEF Set
<1>4. v \in Bytes \cup {Absent}
  OBVIOUS
<1> QED BY <1>3, <1>4, Committed

\* So does a deletion.
LEMMA DropKept ==
  ASSUME Inv, Drop
  PROVE  Inv' /\ val' = Absent
<1>1. DelRecord \in Record /\ Never \in Deadline
  BY RecordsWritten, Clock DEF Inv, Replayable
<1>2. PICK r \in Record : r = DelRecord
  BY <1>1
<1>3. Commit(Absent, Never, <<r>>)
  BY <1>2 DEF Drop
<1>4. Absent \in Bytes \cup {Absent}
  OBVIOUS
<1>5. Inv'
  BY <1>1, <1>3, <1>4, Committed
<1>6. val' = Absent
  BY <1>3 DEF Commit
<1> QED BY <1>5, <1>6

\* So does ExpireAt, with a deadline or with a deletion.
LEMMA ExpireAtKept ==
  ASSUME Inv, NEW at \in Int, at <= now + MaxInt64, ExpireAt(at)
  PROVE  Inv'
<1>1. CASE Expired \/ at <= now
  <2>1. Drop
    BY <1>1 DEF ExpireAt
  <2> QED BY <2>1, DropKept
<1>2. CASE ~(Expired \/ at <= now)
  <2>1. now \in Start .. MaxNow /\ now \in Nat
    BY Clock DEF Inv, Replayable
  <2>2. at \in Deadline /\ at # Never
    <3>1. at > now
      BY <1>2, <2>1
    <3> QED BY <2>1, <3>1, Clock DEF Never
  <2>3. PICK r \in Record : r = <<cmdPEXPIREAT, Key, unixMillis(at)>>
    BY Zenon, <2>1, <2>2, RecordsWritten
  <2>4. Commit(val, at, <<r>>)
    BY <1>2, <2>3 DEF ExpireAt
  <2>5. val \in Bytes \cup {Absent}
    BY DEF Inv
  <2> QED BY <2>2, <2>4, <2>5, Committed
<1> QED BY <1>1, <1>2

\* The entry a read-modify-write starts from.
LEMMA LiveEntry ==
  ASSUME Inv
  PROVE  /\ Live => val \in Bytes
         /\ LiveExp \in Deadline
<1>1. Live => val \in Bytes
  BY DEF Inv, Live, Present
<1>2. Never \in Deadline /\ exp \in Deadline
  BY Clock DEF Inv, Replayable
<1> QED BY <1>1, <1>2 DEF LiveExp

\* What parseInt reads is a number of the machine's.
LEMMA ParsedNumber ==
  ASSUME NEW b, OK(parseInt(b))
  PROVE  parseInt(b).got \in Int64
<1> DEFINE signed == b # <<>> /\ b[1] \in {"+", "-"}
           digits == IF signed THEN Tail(b) ELSE b
           n == IF signed /\ b[1] = "-" THEN -Value(digits) ELSE Value(digits)
           p == parseInt(b)
<1>1. p = IF digits = <<>> \/ ~(Range(digits) \subseteq Range(Digits)) THEN ProtocolError
          ELSE IF n \in Int64 THEN Got(n, 0) ELSE ProtocolError
  BY DEF parseInt
<1> HIDE DEF p, n, digits
<1>2. p # ProtocolError
  BY Errors DEF p
<1>3. n \in Int64 /\ p = Got(n, 0)
  BY <1>1, <1>2
<1>4. p.got = n
  BY <1>3, Errors
<1> QED BY <1>3, <1>4 DEF p

\* INCR and DECR compute within the machine word.
LEMMA IncrementIs ==
  ASSUME Inv, NEW delta \in {1, -1}, Increment(delta)
  PROVE  \E n \in Int64 : /\ n = (IF Live THEN parseInt(val).got ELSE 0) /\ n + delta \in Int64
                          /\ Replace(Itoa(n + delta))
<1> DEFINE m == IF Live THEN parseInt(val) ELSE Got(0, 0)
<1>1. OK(m) /\ Fits(m.got, delta) /\ Replace(Itoa(Wrap(m.got + delta)))
  BY DEF Increment
<1>2. MaxInt64 \in Nat /\ 0 \in Int64
  BY Settings DEF Int64, MinInt64
<1>3. m.got \in Int64 /\ m.got = (IF Live THEN parseInt(val).got ELSE 0)
  <2>1. CASE Live
    <3>1. OK(parseInt(val))
      BY <1>1, <2>1
    <3> QED BY <2>1, <3>1, ParsedNumber
  <2>2. CASE ~Live
    BY <1>2, <2>2, Errors
  <2> QED BY <2>1, <2>2
<1> HIDE DEF m
<1>4. PICK n \in Int64 : n = m.got
  BY <1>3
<1>5. n \in Int /\ n <= MaxInt64 /\ n >= MinInt64 /\ MinInt64 \in Int /\ MinInt64 < 0
  BY <1>2 DEF Int64, MinInt64
<1>6. n + delta \in Int64
  <2>1. Fits(n, delta)
    BY <1>1, <1>4
  <2>2. CASE delta = 1
    BY <1>2, <1>5, <2>1, <2>2 DEF Fits, Int64
  <2>3. CASE delta = -1
    BY <1>2, <1>5, <2>1, <2>3 DEF Fits, Int64
  <2> QED BY <2>2, <2>3
<1>7. Wrap(n + delta) = n + delta
  BY <1>6, Wrapped
<1>8. Replace(Itoa(n + delta))
  BY Zenon, <1>1, <1>4, <1>7
<1> QED BY <1>3, <1>4, <1>6, <1>8

\* The duration a client's number becomes.
LEMMA Asked ==
  ASSUME NEW n \in Counts, NEW unit \in Units, NEW d \in parseTTL(n, unit)
  PROVE  /\ d = n * unit /\ d \in Int /\ d <= MaxInt64 /\ MaxInt64 \in Nat
         /\ n > 0 => d > 0
         /\ ~(n > 0) => d <= 0
<1>1. n \in Int /\ unit \in Nat /\ unit >= 1 /\ MaxInt64 \in Nat
  BY Settings DEF Units
<1>2. n * unit \in Int64 /\ d = n * unit
  BY <1>1, Duration
<1>3. (n > 0 => n * unit > 0) /\ (n <= 0 => n * unit <= 0)
  BY <1>1, Duration
<1>4. d \in Int /\ d <= MaxInt64
  BY <1>1, <1>2 DEF Int64, MinInt64
<1>5. ~(n > 0) => n <= 0
  BY <1>1
<1> QED BY <1>1, <1>2, <1>3, <1>4, <1>5

\* A crash leaves a beginning of the file.
LEMMA CrashKept ==
  ASSUME Inv, Crash
  PROVE  Inv'
<1>1. PICK n \in 0 .. Len(file) : file' = SubSeq(file, 1, n)
  BY DEF Crash
<1>2. phase = "up" /\ phase' = "down" /\ val' = Absent /\ exp' = Never /\ now' = now /\ records' = records
  BY DEF Crash
<1>3. file \in Bytes /\ Len(file) \in Nat /\ Begins(file, EncodeAll(records))
  BY DEF Inv, Replayable, Begins, Bytes
<1>4. file' \in Bytes /\ Len(file') = n /\ \A j \in 1 .. n : file'[j] = file[j]
  <2>1. SubSeq(file, 1, n) \in Bytes /\ Len(SubSeq(file, 1, n)) = n /\ \A j \in 1 .. n : SubSeq(file, 1, n)[j] = file[j]
    BY <1>3 DEF Bytes
  <2> QED BY <1>1, <2>1
<1>5. Begins(file', EncodeAll(records))
  <2>1. PICK t : t = EncodeAll(records)
    OBVIOUS
  <2>2. phase = "up" => t = file
    BY <2>1 DEF Inv
  <2> QED BY <1>2, <1>3, <1>4, <2>1, <2>2 DEF Begins
<1>6. Replayable'
  <2>1. EncodeAll(records)' = EncodeAll(records)
    BY <1>2
  <2>2. Begins(file, EncodeAll(records))'
    BY <1>5, <2>1
  <2> QED BY <1>2, <2>2 DEF Inv, Replayable
<1>7. val' \in Bytes \cup {Absent} /\ exp' \in Deadline'
  BY <1>2 DEF Deadline
<1> QED BY <1>2, <1>6, <1>7 DEF Inv, RefusesOnlyUnreadable

\* Replay leaves the records that are whole, and the file at the end of the last of them.
LEMMA ReplayKept ==
  ASSUME Inv, Replay
  PROVE  /\ Inv'
         /\ phase' = "up" => records' = Whole(records, Len(file)) /\ file' = EncodeAll(records')
<1> DEFINE l == replay
<1>1. /\ phase = "down" /\ phase' = l.phase /\ file' = SubSeq(file, 1, l.size) /\ now' = now
      /\ l.phase = "up" => records' = l.cmds /\ val' = l.entry.val /\ exp' = l.entry.exp
      /\ l.phase # "up" => records' = records /\ val' = val /\ exp' = exp
  BY DEF Replay, Restart
<1>2. Replayable /\ file \in Bytes /\ Len(file) \in Nat /\ records \in Seq(Record)
  BY DEF Inv, Replayable, Begins, Bytes
<1>3. Ended(l) \/ Refuses(l)
  BY <1>2, ReplayEnds
<1> HIDE DEF l
<1>4. CASE Ended(l)
  <2>1. PICK m \in 0 .. Len(records) : Applies(l, m)
    BY <1>4 DEF Ended
  <2>2. /\ l.phase = "up" /\ l.cmds = SubSeq(records, 1, m) /\ l.size = End(m) /\ l.entry \in Entry
        /\ End(m) <= Len(file) /\ (m + 1 \in 1 .. Len(records) => Len(file) < End(m + 1))
    BY <2>1 DEF Applies
  <2>3. /\ Whole(records, Len(file)) = SubSeq(records, 1, m)
        /\ SubSeq(file, 1, End(m)) = EncodeAll(SubSeq(records, 1, m))
    BY <1>2, <2>2, WholeIs
  <2>4. records' = SubSeq(records, 1, m) /\ file' = EncodeAll(SubSeq(records, 1, m)) /\ phase' = "up"
    BY <1>1, <2>2, <2>3
  <2>5. SubSeq(records, 1, m) \in Seq(Record)
    BY <1>2
  <2>6. EncodeAll(SubSeq(records, 1, m)) \in Bytes
    <3>1. m \in 0 .. Len(records) /\ records \in Seq(Commands)
      BY <1>2, RecordsAre
    <3>2. EncodeAll(SubSeq(records, 1, m)) = encoded(records)[m]
      BY <3>1, EncodedPrefix
    <3>3. encoded(records)[m] \in Bytes
      BY Zenon, <3>1, EncodedEnds
    <3> QED BY <3>2, <3>3
  <2>7. file' = EncodeAll(records)' /\ Begins(file, EncodeAll(records))'
    <3>1. EncodeAll(records)' = EncodeAll(SubSeq(records, 1, m))
      BY <2>4
    <3> QED BY <2>4, <2>6, <3>1, BeginsItself
  <2>8. Replayable'
    BY <1>1, <1>2, <2>4, <2>5, <2>7 DEF Replayable
  <2>9. val' \in Bytes \cup {Absent} /\ exp' \in Deadline'
    <3>1. val' \in Bytes \cup {Absent} /\ exp' \in Deadline
      BY <1>1, <2>2 DEF Entry
    <3> QED BY <1>1, <3>1 DEF Deadline
  <2>10. Inv'
    BY <2>4, <2>7, <2>8, <2>9 DEF Inv, RefusesOnlyUnreadable
  <2> QED BY <2>3, <2>4, <2>10
<1>5. CASE Refuses(l)
  <2>1. /\ l.phase = "refused" /\ l.size = Len(file)
        /\ \E i \in DOMAIN records : Unreadable(records[i])
    BY <1>5 DEF Refuses
  <2>2. SubSeq(file, 1, Len(file)) = file
    BY <1>2 DEF Bytes
  <2>3. file' = file /\ records' = records /\ val' = val /\ exp' = exp /\ phase' = "refused" /\ now' = now
    BY <1>1, <2>1, <2>2
  <2>4. Replayable'
    <3>1. EncodeAll(records)' = EncodeAll(records)
      BY <2>3
    <3>2. Begins(file, EncodeAll(records))'
      BY <1>2, <2>3, <3>1 DEF Replayable
    <3> QED BY <1>2, <2>3, <3>2 DEF Replayable
  <2>5. val' \in Bytes \cup {Absent} /\ exp' \in Deadline'
    BY <2>3 DEF Inv, Deadline
  <2>6. RefusesOnlyUnreadable'
    BY <2>1, <2>3 DEF RefusesOnlyUnreadable
  <2> QED BY <2>3, <2>4, <2>5, <2>6 DEF Inv
<1> QED BY <1>3, <1>4, <1>5

\* The clock moves, and a deadline it allowed before it still allows.
LEMMA TickKept ==
  ASSUME Inv, Tick
  PROVE  Inv'
<1>1. /\ phase' = phase /\ val' = val /\ exp' = exp /\ file' = file /\ records' = records
      /\ phase = "up" /\ now' = now + 1 /\ now < MaxNow
  BY DEF Tick
<1>2. now \in Start .. MaxNow /\ now \in Nat /\ MaxInt64 \in Nat /\ MaxNow \in Nat /\ Ms \in Nat
  BY Clock, Settings DEF Inv, Replayable
<1>3. exp' \in Deadline'
  <2>1. exp \in Deadline
    BY DEF Inv
  <2> QED BY <1>1, <1>2, <2>1 DEF Deadline
<1>4. now' \in Start .. MaxNow
  BY <1>1, <1>2, Settings
<1>5. EncodeAll(records)' = EncodeAll(records)
  BY <1>1
<1>6. Replayable'
  <2>1. Begins(file, EncodeAll(records))'
    BY <1>1, <1>5 DEF Inv, Replayable
  <2> QED BY <1>1, <1>4, <2>1 DEF Inv, Replayable
<1> QED BY <1>1, <1>3, <1>5, <1>6 DEF Inv, RefusesOnlyUnreadable

\* The invariant holds at the first start.
LEMMA InvInit == Init => Inv
<1> SUFFICES ASSUME Init PROVE Inv
  OBVIOUS
<1>1. phase = "up" /\ now = Start /\ val = Absent /\ exp = Never /\ file = <<>> /\ records = <<>>
  BY DEF Init
<1>2. <<>> \in Seq(Commands) /\ <<>> \in Seq(Record) /\ Len(<<>>) = 0 /\ <<>> \in Bytes
  BY DEF Bytes
<1>3. EncodeAll(<<>>) = <<>>
  <2>1. encoded(<<>>)[0] = <<>>
    BY Zenon, <1>2, EncodedIs
  <2> QED BY <1>2, <2>1 DEF EncodeAll
<1>4. now \in Start .. MaxNow /\ exp \in Deadline
  BY <1>1, Settings DEF Deadline
<1>5. Replayable
  BY <1>1, <1>2, <1>3, <1>4, BeginsItself DEF Replayable
<1> QED BY <1>1, <1>3, <1>4, <1>5 DEF Inv, RefusesOnlyUnreadable

\* Every handler, crash and restart keeps it.
LEMMA InvStep == Inv /\ [Next]_vars => Inv'
<1> SUFFICES ASSUME Inv, [Next]_vars PROVE Inv'
  OBVIOUS
<1>0. /\ now \in Start .. MaxNow /\ now \in Nat /\ MaxInt64 \in Nat /\ now <= MaxInt64 /\ Never \in Deadline
      /\ \A e \in Int : e > now /\ e <= now + MaxInt64 => e \in Deadline
  BY Clock DEF Inv, Replayable
<1>1. CASE set
  <2>1. PICK v \in Bytes : Set(v, Never)
    BY <1>1, Settings DEF set
  <2> QED BY <1>0, <2>1, SetKept
<1>2. CASE del
  BY <1>2, DropKept DEF del
<1>3. CASE append
  <2>1. PICK v \in Bytes : v = IF Live THEN val ELSE <<>>
    <3>1. <<>> \in Bytes
      BY DEF Bytes
    <3> QED BY <3>1, LiveEntry
  <2>2. PICK w \in Bytes : w = v \o Suffix
    BY Zenon, Concat, Settings
  <2>3. Set(w, LiveExp)
    BY <1>3, <2>1, <2>2 DEF append, Replace
  <2> QED BY <2>3, LiveEntry, SetKept
<1>4. ASSUME NEW delta \in {1, -1}, Increment(delta) PROVE Inv'
  <2>1. PICK n \in Int64 : n + delta \in Int64 /\ Replace(Itoa(n + delta))
    BY <1>4, IncrementIs
  <2>2. PICK m \in Int : m = n + delta
    BY <2>1, Wrapped
  <2>3. Itoa(m) \in Bytes
    BY Parsed
  <2>4. Set(Itoa(m), LiveExp)
    BY <2>1, <2>2 DEF Replace
  <2> QED BY <2>3, <2>4, LiveEntry, SetKept
<1>5. ASSUME NEW n \in Counts, NEW unit \in Units,
             setIn(n, unit) \/ setAt(n, unit) \/ expireIn(n, unit) \/ expireAtIn(n, unit)
      PROVE  Inv'
  <2>1. CASE setIn(n, unit)
    <3>1. PICK d \in parseTTL(n, unit) : d > 0 /\ Set(TimedValue, now + d)
      BY <2>1 DEF setIn
    <3>2. now + d \in Deadline
      BY <1>0, <3>1, Asked
    <3> QED BY <3>1, <3>2, SetKept, Settings
  <2>2. CASE setAt(n, unit)
    <3>1. PICK d \in parseTTL(n, unit) : d > 0 /\ SetWithDeadline(TimedValue, d)
      BY <2>2 DEF setAt
    <3>2. d > now => d \in Deadline
      BY <1>0, Asked
    <3>3. CASE d > now
      BY <3>1, <3>2, <3>3, SetKept, Settings DEF SetWithDeadline
    <3>4. CASE ~(d > now)
      BY <3>1, <3>4, DropKept DEF SetWithDeadline
    <3> QED BY <3>3, <3>4
  <2>3. CASE expireIn(n, unit)
    <3>1. PICK d \in parseTTL(n, unit) : ExpireAt(now + d)
      BY <2>3 DEF expireIn
    <3>2. now + d \in Int /\ now + d <= now + MaxInt64
      BY <1>0, Asked
    <3> QED BY <3>1, <3>2, ExpireAtKept
  <2>4. CASE expireAtIn(n, unit)
    <3>1. PICK d \in parseTTL(n, unit) : ExpireAt(d)
      BY <2>4 DEF expireAtIn
    <3>2. d \in Int /\ d <= now + MaxInt64
      BY <1>0, Asked
    <3> QED BY <3>1, <3>2, ExpireAtKept
  <2> QED BY <1>5, <2>1, <2>2, <2>3, <2>4
<1>6. CASE UNCHANGED vars
  <2>1. /\ phase' = phase /\ now' = now /\ val' = val /\ exp' = exp /\ file' = file /\ records' = records
    BY <1>6 DEF vars
  <2>2. EncodeAll(records)' = EncodeAll(records) /\ Deadline' = Deadline
    BY <2>1 DEF Deadline
  <2>3. Replayable'
    <3>1. Begins(file, EncodeAll(records))'
      BY <2>1, <2>2 DEF Inv, Replayable
    <3> QED BY <2>1, <3>1 DEF Inv, Replayable
  <2> QED BY <2>1, <2>2, <2>3 DEF Inv, RefusesOnlyUnreadable
<1> QED BY <1>1, <1>2, <1>3, <1>4, <1>5, <1>6, CrashKept, ReplayKept, TickKept DEF Next

\* The file holds what the server has put there: all of it while the server is up, a
\* beginning of it after a crash, and records replay knows; a deadline is never further
\* away than a Duration is long.
THEOREM LogFileInvariant == Spec => []Inv
BY InvInit, InvStep, PTL DEF Spec

\* A crash alone never makes the log one that replay refuses.
THEOREM CrashesAreRepaired == Spec => []RefusesOnlyUnreadable
<1>1. Inv => RefusesOnlyUnreadable
  BY DEF Inv
<1> QED BY <1>1, LogFileInvariant, PTL

\* Replay applies the records that are whole, and cuts the file after the last of them.
THEOREM RestartsAreExact == Spec => RestartExact
<1> DEFINE Exact == phase = "down" /\ phase' = "up" =>
                       /\ records' = Whole(records, Len(file))
                       /\ file' = EncodeAll(records')
<1>1. Inv /\ [Next]_vars => [Exact]_vars
  <2> SUFFICES ASSUME Inv, [Next]_vars, phase = "down", phase' = "up"
               PROVE  records' = Whole(records, Len(file)) /\ file' = EncodeAll(records')
    OBVIOUS
  <2>1. phase # phase'
    OBVIOUS
  <2>2. Replay
    BY <2>1 DEF Next, vars, set, del, append, Increment, Replace, setIn, setAt, expireIn, expireAtIn, SetWithDeadline,
                ExpireAt, Set, Drop, Commit, Crash, Tick
  <2> QED BY <2>2, ReplayKept
<1>2. Spec => [][Exact]_vars
  <2> HIDE DEF Exact
  <2> QED BY <1>1, LogFileInvariant, PTL DEF Spec
<1> QED BY <1>2 DEF RestartExact

\* A deadline is the one asked for.
THEOREM DeadlinesAreAsAsked == Spec => DeadlineAsAsked
<1> DEFINE AsAsked ==
      \A n \in Counts, unit \in Units :
          /\ setIn(n, unit)    => val' = TimedValue /\ exp' = now + n * unit
          /\ expireIn(n, unit) => IF n > 0 /\ ~Expired THEN exp' = now + n * unit
                                                       ELSE val' = Absent
<1>1. Inv => AsAsked
  <2> SUFFICES ASSUME Inv, NEW n \in Counts, NEW unit \in Units
               PROVE  /\ setIn(n, unit) => val' = TimedValue /\ exp' = now + n * unit
                      /\ expireIn(n, unit) => IF n > 0 /\ ~Expired THEN exp' = now + n * unit
                                                                   ELSE val' = Absent
    OBVIOUS
  <2>1. ASSUME setIn(n, unit) PROVE val' = TimedValue /\ exp' = now + n * unit
    <3>1. PICK d \in parseTTL(n, unit) : d > 0 /\ Set(TimedValue, now + d)
      BY <2>1 DEF setIn
    <3>2. d = n * unit
      BY Asked
    <3> QED BY <3>1, <3>2 DEF Set, Commit
  <2>2. ASSUME expireIn(n, unit), n > 0 /\ ~Expired PROVE exp' = now + n * unit
    <3>1. PICK d \in parseTTL(n, unit) : ExpireAt(now + d)
      BY <2>2 DEF expireIn
    <3>2. d = n * unit /\ d > 0 /\ d \in Int
      BY <2>2, Asked
    <3>3. ~(now + d <= now)
      <4>1. now \in Nat
        BY Clock DEF Inv, Replayable
      <4> QED BY <3>2, <4>1
    <3>4. exp' = now + d
      BY <2>2, <3>1, <3>3 DEF ExpireAt, Commit
    <3> QED BY <3>2, <3>4
  <2>3. ASSUME expireIn(n, unit), ~(n > 0 /\ ~Expired) PROVE val' = Absent
    <3>1. PICK d \in parseTTL(n, unit) : ExpireAt(now + d)
      BY <2>3 DEF expireIn
    <3>2. Expired \/ now + d <= now
      <4>1. now \in Nat
        BY Clock DEF Inv, Replayable
      <4>2. CASE ~(n > 0)
        <5>1. d \in Int /\ d <= 0
          BY <4>2, Asked
        <5> QED BY <4>1, <5>1
      <4> QED BY <2>3, <4>2
    <3>3. Drop
      BY <3>1, <3>2 DEF ExpireAt
    <3> QED BY <3>3, DropKept
  <2> QED BY <2>1, <2>2, <2>3
<1>2. Inv /\ [Next]_vars => [AsAsked]_vars
  <2> HIDE DEF AsAsked
  <2> QED BY <1>1
<1>3. Spec => [][AsAsked]_vars
  <2> HIDE DEF AsAsked
  <2> QED BY <1>2, LogFileInvariant, PTL DEF Spec
<1> QED BY <1>3 DEF DeadlineAsAsked

\* INCR and DECR move the counter by one.
THEOREM CountersMove == Spec => CounterMoves
<1> DEFINE Moves ==
      \A delta \in {1, -1} :
          Increment(delta) =>
             parseInt(val').got = (IF Live THEN parseInt(val).got ELSE 0) + delta
<1>1. Inv => Moves
  <2> SUFFICES ASSUME Inv, NEW delta \in {1, -1}, Increment(delta)
               PROVE  parseInt(val').got = (IF Live THEN parseInt(val).got ELSE 0) + delta
    OBVIOUS
  <2>1. PICK n \in Int64 : /\ n = (IF Live THEN parseInt(val).got ELSE 0) /\ n + delta \in Int64
                           /\ Replace(Itoa(n + delta))
    BY IncrementIs
  <2>2. PICK m \in Int64 : m = n + delta /\ m \in Int
    BY <2>1, Wrapped
  <2>3. val' = Itoa(m)
    BY <2>1, <2>2 DEF Replace, Set, Commit
  <2>4. parseInt(Itoa(m)) = Got(m, 0)
    BY Zenon, <2>2, Parsed
  <2>5. parseInt(val').got = m
    BY <2>3, <2>4, Errors
  <2> QED BY <2>1, <2>2, <2>5
<1>2. Inv /\ [Next]_vars => [Moves]_vars
  <2> HIDE DEF Moves
  <2> QED BY <1>1
<1>3. Spec => [][Moves]_vars
  <2> HIDE DEF Moves
  <2> QED BY <1>2, LogFileInvariant, PTL DEF Spec
<1> QED BY <1>3 DEF CounterMoves

\* A sum just past the machine's integers wraps to the other end.
LEMMA WrapsOnce ==
  ASSUME NEW x \in Int, x > MaxInt64, x <= 2 * MaxInt64
  PROVE  Wrap(x) \in Int /\ Wrap(x) < 0
<1>1. MaxInt64 \in Nat
  BY RESPAssumption
<1>2. PICK b \in Nat : b = 2 * (MaxInt64 + 1) /\ b >= 1
  BY <1>1
<1>3. PICK a \in Nat : a = x - MinInt64 /\ b <= a /\ a < 2 * b
  BY <1>1, <1>2 DEF MinInt64
<1>4. PICK q \in Nat : q = a \div b
  <2>1. a \div b \in Nat
    BY <1>2, Quotient
  <2> QED BY Zenon, <2>1
<1>5. PICK m \in 0 .. b - 1 : m = a % b /\ a = b * q + m
  <2>1. a % b \in 0 .. b - 1 /\ a = b * (a \div b) + (a % b)
    BY Zenon, <1>2, Quotient
  <2> QED BY Zenon, <1>4, <2>1
<1>6. q = 1
  <2>1. ASSUME q = 0 PROVE FALSE
    <3>1. b * q = 0
      BY <2>1
    <3> QED BY <1>3, <1>5, <3>1
  <2>2. ASSUME q >= 2 PROVE FALSE
    <3>1. b * q >= b * 2
      BY <2>2
    <3> QED BY <1>3, <1>5, <3>1
  <2> QED BY <2>1, <2>2
<1>7. m = a - b
  <2>1. b * q = b
    BY <1>6
  <2> QED BY <1>5, <2>1
<1>8. Wrap(x) = m + MinInt64
  BY <1>2, <1>3, <1>5 DEF Wrap
<1> QED BY <1>1, <1>2, <1>3, <1>7, <1>8 DEF MinInt64

\* The reply to TTL: nearest, but for the last half unit.
LEMMA Nearest ==
  ASSUME NEW d \in Int, d > 0, d <= MaxInt64, NEW unit \in Nat, unit >= 2, unit <= MaxInt64
  PROVE  IF d > MaxInt64 - unit \div 2
           THEN ttlIn(d, unit) = 1
           ELSE /\ ttlIn(d, unit) >= 1
                /\ (ttlIn(d, unit) * unit - d) * 2 <= (IF d < unit THEN 2 * unit ELSE unit)
                /\ (d - ttlIn(d, unit) * unit) * 2 < unit
<1>1. MaxInt64 \in Nat
  BY RESPAssumption
<1>2. PICK h \in Nat : h = unit \div 2 /\ 2 * h <= unit /\ unit <= 2 * h + 1 /\ h >= 1
  <2>1. unit \div 2 \in Nat /\ 2 * (unit \div 2) <= unit /\ unit <= 2 * (unit \div 2) + 1 /\ unit \div 2 >= 1
    OBVIOUS
  <2> QED BY Zenon, <2>1
<1>3. PICK x \in Int : x = d + h
  OBVIOUS
<1>4. PICK n : n = Quo(Wrap(x), unit)
  OBVIOUS
<1>5. ttlIn(d, unit) = IF n < 1 THEN 1 ELSE n
  BY Zenon, <1>2, <1>3, <1>4 DEF ttlIn
<1>6. ASSUME d > MaxInt64 - h PROVE ttlIn(d, unit) = 1
  <2>1. x > MaxInt64 /\ x <= 2 * MaxInt64
    BY <1>1, <1>2, <1>3, <1>6
  <2>2. PICK y \in Nat : Wrap(x) = -y /\ y > 0
    <3>1. Wrap(x) \in Int /\ Wrap(x) < 0
      BY <2>1, WrapsOnce
    <3>2. PICK w \in Int : w = Wrap(x) /\ w < 0
      BY <3>1
    <3>3. -w \in Nat /\ -w > 0 /\ w = -(-w)
      BY <3>2
    <3> QED BY <3>2, <3>3
  <2>3. y \div unit \in Nat
    <3>1. unit >= 1
      OBVIOUS
    <3> QED BY Zenon, <3>1, Quotient
  <2>4. n = -(y \div unit)
    <3>1. -y < 0 /\ -(-y) = y
      BY <2>2
    <3> QED BY <1>4, <2>2, <3>1 DEF Quo
  <2>5. n < 1
    BY <2>3, <2>4
  <2> QED BY <1>5, <2>5
<1>7. ASSUME ~(d > MaxInt64 - h)
      PROVE  /\ ttlIn(d, unit) >= 1
             /\ (ttlIn(d, unit) * unit - d) * 2 <= (IF d < unit THEN 2 * unit ELSE unit)
             /\ (d - ttlIn(d, unit) * unit) * 2 < unit
  <2>1. x \in Nat /\ x \in Int64
    BY <1>1, <1>2, <1>3, <1>7 DEF Int64, MinInt64
  <2>2. Wrap(x) = x
    BY <2>1, Wrapped
  <2>3. n = x \div unit
    <3>1. ~(x < 0)
      BY <2>1
    <3> QED BY <1>4, <2>2, <3>1 DEF Quo
  <2>4. PICK q \in Nat : q = x \div unit
    <3>1. unit >= 1
      OBVIOUS
    <3>2. x \div unit \in Nat
      BY <2>1, <3>1, Quotient
    <3> QED BY Zenon, <3>2
  <2>5. PICK m \in 0 .. unit - 1 : x = unit * q + m
    <3>1. unit >= 1
      OBVIOUS
    <3>2. x % unit \in 0 .. unit - 1 /\ x = unit * (x \div unit) + (x % unit)
      BY <2>1, <3>1, Quotient
    <3> QED BY Zenon, <2>4, <3>2
  <2>6. CASE q = 0
    <3>1. unit * q = 0
      BY <2>6
    <3>2. d + h < unit
      BY <1>3, <2>5, <3>1
    <3>3. ttlIn(d, unit) = 1
      BY <1>5, <2>3, <2>4, <2>6
    <3>4. 1 * unit = unit
      OBVIOUS
    <3>5. d < unit /\ (unit - d) * 2 <= 2 * unit /\ (d - unit) * 2 < unit
      BY <1>2, <3>2
    <3> QED BY <3>3, <3>4, <3>5
  <2>7. CASE q >= 1
    <3>1. ttlIn(d, unit) = q
      BY <1>5, <2>3, <2>4, <2>7
    <3>2. PICK t \in Int : t = q * unit /\ t = unit * q
      OBVIOUS
    <3>3. d + h = t + m
      BY <1>3, <2>5, <3>2
    <3>4. (t - d) * 2 <= unit /\ (d - t) * 2 < unit /\ unit <= 2 * unit
      BY <1>2, <3>3
    <3>5. (q * unit - d) * 2 <= unit /\ (d - q * unit) * 2 < unit
      BY Zenon, <3>2, <3>4
    <3>6. (t - d) * 2 <= (IF d < unit THEN 2 * unit ELSE unit)
      BY <3>4
    <3> QED BY Zenon, <2>7, <3>1, <3>2, <3>5, <3>6
  <2> QED BY <2>6, <2>7
<1>8. MaxInt64 - h = MaxInt64 - unit \div 2
  BY Zenon, <1>2
<1> QED BY Zenon, <1>6, <1>7, <1>8

\* TTL replies with the nearest number of units.
THEOREM TtlIsNearest == Spec => []TtlNearest
<1>1. Inv => TtlNearest
  <2> SUFFICES ASSUME Inv, phase = "up" /\ Live /\ exp # Never, NEW unit \in Units
               PROVE  IF exp - now > MaxInt64 - unit \div 2
                        THEN ttlIn(exp - now, unit) = 1
                        ELSE /\ ttlIn(exp - now, unit) >= 1
                             /\ (ttlIn(exp - now, unit) * unit - (exp - now)) * 2 <=
                                     (IF exp - now < unit THEN 2 * unit ELSE unit)
                             /\ ((exp - now) - ttlIn(exp - now, unit) * unit) * 2 < unit
    BY Zenon DEF TtlNearest
  <2>1. now \in Nat /\ MaxInt64 \in Nat /\ exp \in Nat /\ exp <= now + MaxInt64
    BY Clock DEF Inv, Replayable
  <2>2. exp > now
    BY <2>1 DEF Live, Expired
  <2>3. PICK d \in Int : d = exp - now /\ d > 0 /\ d <= MaxInt64
    BY <2>1, <2>2
  <2>4. unit \in Nat /\ unit >= 2 /\ unit <= MaxInt64
    BY Settings DEF Units
  <2>5. IF d > MaxInt64 - unit \div 2
          THEN ttlIn(d, unit) = 1
          ELSE /\ ttlIn(d, unit) >= 1
               /\ (ttlIn(d, unit) * unit - d) * 2 <= (IF d < unit THEN 2 * unit ELSE unit)
               /\ (d - ttlIn(d, unit) * unit) * 2 < unit
    BY <2>3, <2>4, Nearest
  <2> QED BY Zenon, <2>3, <2>5
<1> QED BY <1>1, LogFileInvariant, PTL
=============================================================================
