------------------------------ MODULE PagePool ------------------------------
(***************************************************************************)
(* The physical page pool, src/src/kv_cache/page_pool.rs: a free list kept *)
(* as an array of atomic words, one bit per page, shared by any number of  *)
(* threads without a lock ("AtomicU64 allows lock-free alloc/free from     *)
(* concurrent request handlers").                                          *)
(*                                                                         *)
(* Every atomic access of alloc_page and free_page is one action: the      *)
(* relaxed load of a word, the weak compare-and-swap that clears its       *)
(* lowest set bit, the fetch_or that sets a bit again.  The accesses to    *)
(* one word have one order; the loads are relaxed, so those to different   *)
(* words need not.  The words are modelled as sequentially consistent      *)
(* memory all the same.  Who owns a page is decided at one word, but a     *)
(* None answer combines what was read from all of them: what is said of    *)
(* one instant of its call (NoneMeansExhausted in PagePoolCalls.tla) holds *)
(* under that assumption, what is said of each page alone needs the order  *)
(* of one word only.                                                       *)
(*                                                                         *)
(* Bit i of word w is named by its global index w * WordBits + i, and a    *)
(* word is the set of its bits that are 1 (page free).  The code has       *)
(* WordBits = 64.                                                          *)
(***************************************************************************)
EXTENDS Naturals

CONSTANTS Threads,      \* the concurrent request handlers
          TotalPages,   \* PagePool::total_pages
          WordBits      \* bits in one AtomicU64 of the bitmap

ASSUME TotalPagesAssumption == TotalPages \in Nat \ {0}
ASSUME WordBitsAssumption   == WordBits \in Nat \ {0}

Pages    == 0 .. (TotalPages - 1)
NumWords == (TotalPages + WordBits - 1) \div WordBits
Words    == 0 .. (NumWords - 1)
WordOf(p)  == p \div WordBits
BitsOf(w)  == (w * WordBits) .. (w * WordBits + WordBits - 1)

\* trailing_zeros: b is the lowest set bit of the word.
IsLowestBit(b, bits) == b \in bits /\ \A c \in bits : b <= c

VARIABLES bitmap,  \* free_bitmap: the set bits of each word
          pc,      \* where each thread is in alloc_page
          w,       \* word_idx of the scan
          word,    \* the thread's local copy of the word
          held     \* the pages each thread was given and has not freed

vars == <<bitmap, pc, w, word, held>>

\* "idle": outside the pool; "load": about to load word w, or past the last
\* one; "cas": inside the inner loop; "some"/"none": about to return.
InCall == {"load", "cas"}
Locations == InCall \cup {"idle", "some", "none"}

FreePages == UNION {bitmap[x] : x \in Words}

-----------------------------------------------------------------------------
\* PagePool::new: bit = 1 for every page, and no bit beyond total_pages.
InitialBits_Unmasked(x) == BitsOf(x)   \* fault: every word starts as u64::MAX
InitialBits(x) == BitsOf(x) \cap Pages

Init == /\ bitmap = [x \in Words |-> InitialBits(x)]
        /\ pc = [t \in Threads |-> "idle"]
        /\ w = [t \in Threads |-> 0]
        /\ word = [t \in Threads |-> {}]
        /\ held = [t \in Threads |-> {}]

CallAlloc(t) ==
  /\ pc[t] = "idle"
  /\ pc' = [pc EXCEPT ![t] = "load"]
  /\ w' = [w EXCEPT ![t] = 0]
  /\ UNCHANGED <<bitmap, word, held>>

LoadWord(t) ==
  /\ pc[t] = "load"
  /\ w[t] \in Words
  /\ word' = [word EXCEPT ![t] = bitmap[w[t]]]
  /\ pc' = [pc EXCEPT ![t] = "cas"]
  /\ UNCHANGED <<bitmap, w, held>>

\* The scan ran past the last word: None, "pool exhausted".
PastLastWord_Early(t) == w[t] + 1 >= NumWords   \* fault: off by one
PastLastWord(t) == w[t] >= NumWords

ScanEnds(t) ==
  /\ pc[t] = "load"
  /\ PastLastWord(t)
  /\ pc' = [pc EXCEPT ![t] = "none"]
  /\ UNCHANGED <<bitmap, w, word, held>>

\* "no free pages in this word": on to the next one.
SkipWord(t) ==
  /\ pc[t] = "cas"
  /\ word[t] = {}
  /\ w' = [w EXCEPT ![t] = @ + 1]
  /\ pc' = [pc EXCEPT ![t] = "load"]
  /\ UNCHANGED <<bitmap, word, held>>

\* The comparison of the exchange: the word is still the one that was read.
Unchanged_NoCompare(t) == TRUE     \* fault: a plain store instead of the CAS
WordUnchanged(t) == bitmap[w[t]] = word[t]

\* The exchange succeeds.  A bit beyond total_pages would be consumed and
\* answered with None.
CasSucceeds(t) ==
  \E p \in word[t] :
    /\ pc[t] = "cas"
    /\ IsLowestBit(p, word[t])
    /\ WordUnchanged(t)
    /\ bitmap' = [bitmap EXCEPT ![w[t]] = word[t] \ {p}]
    /\ IF p < TotalPages
         THEN /\ held' = [held EXCEPT ![t] = @ \cup {p}]
              /\ pc' = [pc EXCEPT ![t] = "some"]
         ELSE /\ pc' = [pc EXCEPT ![t] = "none"]
              /\ UNCHANGED held
    /\ UNCHANGED <<w, word>>

\* The exchange fails and hands back the actual word.  The weak exchange may
\* also fail although the word matches; then nothing changes, a stuttering
\* step.
WordRead_Stale(t) == word[t]       \* fault: retry with the word already read
WordRead(t) == bitmap[w[t]]

CasFails(t) ==
  /\ pc[t] = "cas"
  /\ word[t] # {}
  /\ ~ WordUnchanged(t)
  /\ word' = [word EXCEPT ![t] = WordRead(t)]
  /\ UNCHANGED <<bitmap, pc, w, held>>

Return(t) ==
  /\ pc[t] \in {"some", "none"}
  /\ pc' = [pc EXCEPT ![t] = "idle"]
  /\ UNCHANGED <<bitmap, w, word, held>>

\* free_page: one fetch_or.  A thread frees a page it was given; that the
\* scheduler keeps to this is checked in Scheduler.tla.
FreePage(t, p) ==
  /\ pc[t] = "idle"
  /\ p \in held[t]
  /\ bitmap' = [bitmap EXCEPT ![WordOf(p)] = @ \cup {p}]
  /\ held' = [held EXCEPT ![t] = @ \ {p}]
  /\ UNCHANGED <<pc, w, word>>

\* The steps a thread takes on its own once it has called alloc_page.
AllocStep(t) == \/ LoadWord(t)
                \/ ScanEnds(t)
                \/ SkipWord(t)
                \/ CasSucceeds(t)
                \/ CasFails(t)
                \/ Return(t)

Next == \E t \in Threads :
          \/ CallAlloc(t)
          \/ AllocStep(t)
          \/ \E p \in Pages : FreePage(t, p)

Spec == Init /\ [][Next]_vars

\* A running thread is not suspended for ever inside a call, and a weak
\* exchange whose word matches does not fail for ever.
FairSpec == Spec /\ \A t \in Threads : WF_vars(AllocStep(t))

-----------------------------------------------------------------------------
TypeOK ==
  /\ bitmap \in [Words -> SUBSET Pages]
  /\ pc \in [Threads -> Locations]
  /\ w \in [Threads -> 0 .. NumWords]
  /\ word \in [Threads -> SUBSET Pages]
  /\ held \in [Threads -> SUBSET Pages]

\* No page is handed to two request handlers, none is both free and in use,
\* and none is lost: however the loads and exchanges of alloc_page and the
\* fetch_or of free_page interleave, the pages are partitioned between the
\* bitmap and the threads.
ExclusivePages ==
  /\ FreePages \cup UNION {held[t] : t \in Threads} = Pages
  /\ \A t \in Threads : held[t] \cap FreePages = {}
  /\ \A t, u \in Threads : t # u => held[t] \cap held[u] = {}

\* While some thread is inside alloc_page, some allocation completes: a thread
\* can only be made to retry by a step with which another one gained or
\* returned a page.  With every thread scheduled (FairSpec) this excludes that
\* they keep each other retrying for ever; that one could stop for good within
\* its call and the others still go on is not part of it.
LockFree == (\E t \in Threads : pc[t] \in InCall)
              ~> (\E t \in Threads : pc[t] \in {"some", "none"})

\* The pool implements the atomic allocator: an allocation takes effect at
\* its successful exchange, a release at its fetch_or, and every other step
\* is invisible to the clients.
Allocator == INSTANCE PageAllocator
               WITH Clients <- Threads, free <- FreePages, owned <- held
AllocatorSpec == Allocator!Spec
=============================================================================
