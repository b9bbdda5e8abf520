----------------------------- MODULE MCLogFile -----------------------------
(***************************************************************************)
(* The instance of LogFile for model checking: a six-bit machine word,     *)
(* numbers in base four, two ticks to the millisecond and four to the      *)
(* second.  The payloads hold line ends and header bytes; the counts sit   *)
(* on both sides of what parseTTL lets through for either unit.            *)
(***************************************************************************)
EXTENDS LogFile

AllBytes  == {"0", "1", "2", "3", "*", "$", "+", "-", "CR", "LF", "S", "D", "X", "P", "k"}
BaseFour  == <<"0", "1", "2", "3">>
Payload   == <<"CR", "LF", "*">>
AllValues == {Payload, Itoa(MaxInt64), Itoa(MinInt64)}
NearEdges == {-1, 1, 7, 8, 15, 16}
=============================================================================
