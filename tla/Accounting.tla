----------------------------- MODULE Accounting -----------------------------
(***************************************************************************)
(* What the memory counters of Store count.                                *)
(***************************************************************************)
EXTENDS Store, FiniteSets, Functions

\* What a shard's map holds.
Entries(s) == {k \in Keys : data[k] # Absent /\ ShardOf[k] = s}

\* A shard's memory counter is the sum of the sizes of the entries it holds, although it
\* is only ever adjusted by differences: what EnforceMemoryLimit adds up is the truth.
UsedExact == \A s \in Shards : used[s] = SumFunctionOnSet([k \in Keys |-> SizeAt(k)], Entries(s))
=============================================================================
