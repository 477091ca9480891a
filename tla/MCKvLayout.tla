------------------------------ MODULE MCKvLayout ------------------------------
(* Small instances of KvLayout.tla, and of KvCache.tla under it, for TLC. *)
EXTENDS KvLayout, TLC

DistinctIds == [r \in Requests |-> r]

\* Requests that outgrow their first pages and are preempted for each other.
GrowingSizes == {<<1, 5>>, <<2, 3>>}

\* One KV head per query head, in pages that fill whole lines and in padded ones.
MultiHead == {<<2, 2, 2>>, <<1, 1, 3>>}

\* One such shape alone.
OneShape == {<<1, 1, 4>>}

\* Four query heads on two KV heads.
GroupedQuery == {<<4, 2, 2>>}

AnyShape == MultiHead \cup GroupedQuery

Symmetry == Permutations(Requests)
=============================================================================
