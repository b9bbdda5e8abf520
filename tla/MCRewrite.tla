----------------------------- MODULE MCRewrite ------------------------------
(***************************************************************************)
(* Instances of Rewrite: batches over two shards racing with a SET and an  *)
(* EXPIREAT, whose deadlines pass within the model's time; and one key     *)
(* under SET, EXPIREAT and DEL.                                            *)
(***************************************************************************)
EXTENDS Rewrite, MCStore

SmallRequests == MSetAll("2") \cup DelAll
                   \cup {Cmd("SET", k1, {}, "1", 2), Cmd("EXPIREAT", k1, {}, "1", 3)}
OneRequests   == Set("1", {Never, MaxTime}) \cup Set("2", {Never}) \cup ExpireAt \cup DelOne

\* No request names a client.
Swap == Permutations(Clients)
=============================================================================
