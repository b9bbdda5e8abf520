------------------------------ MODULE MCServer ------------------------------
(***************************************************************************)
(* The instance of Server for model checking: one client that pipelines    *)
(* two commands in four halves, one that is connected and says nothing, a  *)
(* write buffer for one reply, one shard.                                  *)
(***************************************************************************)
EXTENDS Server, TLC

CONSTANTS w1, w2

TwoWriters == {w1, w2}
OneShard   == [r \in Recs |-> {0}]
Pipelines  == (w1 :> 4) @@ (w2 :> 0)
=============================================================================
