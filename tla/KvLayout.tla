------------------------------- MODULE KvLayout -------------------------------
(***************************************************************************)
(* The bytes under KvCache.tla: the page stride (kv_cache/page_pool.rs),   *)
(* where step_batch stores the K and V vectors of a token                  *)
(* (engine/mod.rs), and where flash_attn_paged looks for them              *)
(* (attention/flash_cpu.rs).  The writer computes with n_heads_kv and half *)
(* the page stride, the reader with n_heads.                               *)
(*                                                                         *)
(* Every step is a step of KvCache.tla; the write of a task also stores    *)
(* its elements.  A byte holds a tag that says which element of which      *)
(* vector pair (a tag of KvCache's slab) was stored there.                 *)
(***************************************************************************)
EXTENDS KvCache

CONSTANTS Shapes,       \* the triples <<n_heads, n_heads_kv, head_dim>> of models
          CacheLine     \* what a page is padded to (64 bytes)

ASSUME ShapesAssumption ==
  /\ Shapes \subseteq (Nat \ {0}) \X (Nat \ {0}) \X (Nat \ {0})
  \* grouped-query attention: each KV head serves as many query heads
  /\ \A sh \in Shapes : sh[1] % sh[2] = 0
ASSUME CacheLineAssumption == CacheLine \in Nat \ {0}

VARIABLES shape,    \* the shape of the model that was loaded
          bytes     \* [addresses -> tag]

lvars == <<kvars, shape, bytes>>

NHeads == shape[1]
NHeadsKv == shape[2]
HeadDim == shape[3]

\* (raw + 63) & !63
RoundUp_Down(n) == (n \div CacheLine) * CacheLine     \* fault: the + 63 is left out
RoundUp(n) == ((n + CacheLine - 1) \div CacheLine) * CacheLine

\* AegisEngine::new builds the pool for n_heads_kv heads.
PageStride == RoundUp(2 * PageTokens * NHeadsKv * HeadDim)
SlabLen == PageStride * TotalPages

-----------------------------------------------------------------------------
\* step_batch: element d of head h of the token in a slot of a page.
WriteK(page, slot, h, d) ==
  page * PageStride + slot * NHeadsKv * HeadDim + h * HeadDim + d
WriteV_Interleaved(page, slot, h, d) ==   \* fault: V directly after the K of the slot
  WriteK(page, slot, h, d) + NHeadsKv * HeadDim
WriteV(page, slot, h, d) == (PageStride \div 2) + WriteK(page, slot, h, d)

\* flash_attn_paged: the same element as query head h looks for it.
ReadK_NoPage(page, slot, h, d) ==         \* fault: the page is not added
  slot * NHeads * HeadDim + h * HeadDim + d
ReadK(page, slot, h, d) ==
  page * PageStride + slot * NHeads * HeadDim + h * HeadDim + d
ReadV(page, slot, h, d) == PageTokens * NHeads * HeadDim + ReadK(page, slot, h, d)

-----------------------------------------------------------------------------
KvHeads == 0 .. (NHeadsKv - 1)
QueryHeads == 0 .. (NHeads - 1)
Dims == 0 .. (HeadDim - 1)

\* The KV head that serves query head h.
KvHeadOf(h) == h \div (NHeads \div NHeadsKv)

Element(part, entry, h, d) == <<part, entry, h, d>>
Unset == <<>>

\* The addresses and tags of a vector pair, entry, in a slot of a page.
Stores(page, slot, entry) ==
  {<<WriteK(page, slot, h, d), Element("K", entry, h, d)>> : h \in KvHeads, d \in Dims}
    \cup
  {<<WriteV(page, slot, h, d), Element("V", entry, h, d)>> : h \in KvHeads, d \in Dims}

LayoutInit ==
  /\ KvInit
  /\ shape \in Shapes
  /\ bytes = [a \in 0 .. (SlabLen - 1) |-> Unset]

\* The loop over heads and dimensions that stores the vectors of task r.
StoreVectors(r) ==
  LET new == Stores(PhysicalPage(r, WritePos(r)), SlotInPage(WritePos(r)),
                    <<r, WritePos(r), layer>>)
      at == {st[1] : st \in new}
  IN  /\ WriteKV(r)
      /\ bytes' = [a \in DOMAIN bytes |->
                     IF a \in at THEN (CHOOSE st \in new : st[1] = a)[2] ELSE bytes[a]]
      /\ UNCHANGED shape

StoreNothing ==
  /\ (\E r \in Requests : Attend(r) \/ KvAddRequest(r)) \/ NextLayer \/ Control
  /\ UNCHANGED <<shape, bytes>>

LayoutNext == (\E r \in Requests : StoreVectors(r)) \/ StoreNothing

LayoutSpec == LayoutInit /\ [][LayoutNext]_lvars

-----------------------------------------------------------------------------
\* No store lands outside the slab, and no two slots share a byte, of padded
\* pages and partly filled ones, whichever sequences reuse them: every vector
\* pair that a slot holds is whole, at the addresses it was stored to.
StoresKept ==
  \A page \in Pages, slot \in Slots :
    slab[page][slot] # Zeroed =>
      \A st \in Stores(page, slot, slab[page][slot]) :
        st[1] \in DOMAIN bytes /\ bytes[st[1]] = st[2]

Found(a, e) == a \in DOMAIN bytes /\ bytes[a] = e

\* Attention finds, for every query head and every position that should be
\* intact (RecentKvIntact), K and V elements of one vector pair of the
\* sequence and position, of the KV head that serves it, at "[K data for
\* PAGE_TOKENS tokens][V data for PAGE_TOKENS tokens]" (page_pool.rs:11) of the
\* page.
ReadsFindStores ==
  \A r \in Requests : InTask(r, "attend") =>
    \A pos \in RecentPositions(r) : \E entry \in OwnEntries(r, pos) :
      \A h \in QueryHeads, d \in Dims :
        LET page == PhysicalPage(r, pos)
            slot == SlotInPage(pos)
        IN  /\ Found(ReadK(page, slot, h, d), Element("K", entry, KvHeadOf(h), d))
            /\ Found(ReadV(page, slot, h, d), Element("V", entry, KvHeadOf(h), d))

\* Reader and writer agree, down to the byte and through preemption and the
\* reuse of pages, when every query head has a KV head of its own and the page
\* needs no padding, so that half its stride is all the K data.
MultiHeadReads ==
  NHeads = NHeadsKv /\ PageStride = 2 * PageTokens * NHeadsKv * HeadDim
    => ReadsFindStores
=============================================================================
