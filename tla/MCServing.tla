----------------------------- MODULE MCServing -----------------------------
(* A small instance of Serving.tla, and of Scheduler.tla under it, for TLC. *)
EXTENDS Serving

\* Callers that give every request a seq_id of its own.
DistinctIds == [r \in Requests |-> r]

\* For a pool of 6 pages of 2 tokens: a request that outgrows its prefetched
\* pages and fits in an empty pool (two of them do not), one without quota
\* that takes the whole pool, and one that needs more than the pool has.
SomeSizes == {<<1, 10>>, <<9, 0>>, <<11, 1>>}

\* The driver submits the first one, or one that outgrows an empty pool.
AllSizes == SomeSizes \cup {<<4, 10>>}
=============================================================================
