------------------------------ MODULE MCExpiry ------------------------------
(***************************************************************************)
(* Four keys in three shards, with a sample of two: the first two shards   *)
(* are always reached, the third only if they hold fewer than two volatile *)
(* keys.                                                                   *)
(***************************************************************************)
EXTENDS Expiry

CONSTANTS k1, k2, k3, k4

FourKeys == {k1, k2, k3, k4}
Spread   == [k \in Keys |-> IF k = k1 THEN 0 ELSE IF k = k4 THEN 2 ELSE 1]
=============================================================================
