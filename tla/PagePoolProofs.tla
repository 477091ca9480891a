--------------------------- MODULE PagePoolProofs ---------------------------
(***************************************************************************)
(* Proofs about PagePool.tla and PagePoolCalls.tla for any number of       *)
(* threads, any pool size and any word width: the type invariant, the      *)
(* exclusive ownership of pages, that the bitmap implements the atomic     *)
(* PageAllocator, and what a None answer of alloc_page tells its caller.   *)
(***************************************************************************)
EXTENDS PagePoolCalls, TLAPS

\* Dividing by the word width gives the word whose bits include the page.
LEMMA DivisionFacts ==
  ASSUME NEW n \in Nat, NEW d \in Nat \ {0}
  PROVE  /\ n \div d \in Nat
         /\ d * (n \div d) <= n
         /\ n < d * (n \div d) + d
  BY Z3

\* Bit p of the flat bit array is a bit of exactly one word, WordOf(p).
LEMMA WordOfPage ==
  ASSUME NEW p \in Pages
  PROVE  /\ WordOf(p) \in Words
         /\ p \in BitsOf(WordOf(p))
         /\ \A x \in Words : p \in BitsOf(x) => x = WordOf(p)
  <1> DEFINE q == WordOf(p)
             n == TotalPages + WordBits - 1
  <1>1. /\ p \in Nat /\ p <= TotalPages - 1
        /\ TotalPages \in Nat \ {0} /\ WordBits \in Nat \ {0} /\ n \in Nat
    BY TotalPagesAssumption, WordBitsAssumption DEF Pages
  <1>2. q \in Nat /\ WordBits * q <= p /\ p < WordBits * q + WordBits
    BY <1>1, DivisionFacts DEF WordOf
  <1>3. NumWords \in Nat /\ n < WordBits * NumWords + WordBits
    BY <1>1, DivisionFacts DEF NumWords
  <1>4. q <= NumWords - 1
    <2> SUFFICES ASSUME q >= NumWords PROVE FALSE
      BY <1>2, <1>3
    <2>1. WordBits * q >= WordBits * NumWords
      BY <1>1, <1>2, <1>3, Z3
    <2> QED
      BY <2>1, <1>1, <1>2, <1>3, Z3
  <1>5. p \in BitsOf(q)
    BY <1>1, <1>2, Z3 DEF BitsOf
  <1>6. ASSUME NEW x \in Words, p \in BitsOf(x) PROVE x = q
    <2>1. x \in Nat /\ x * WordBits <= p /\ p <= x * WordBits + WordBits - 1
      BY <1>3, <1>6, <1>1, Z3 DEF Words, BitsOf
    <2>2. ~ (x < q)
      <3> SUFFICES ASSUME x < q PROVE FALSE
        OBVIOUS
      <3>1. WordBits * q >= WordBits * (x + 1)
        BY <1>1, <1>2, <2>1, Z3
      <3> QED BY <3>1, <1>1, <1>2, <2>1, Z3
    <2>3. ~ (q < x)
      <3> SUFFICES ASSUME q < x PROVE FALSE
        OBVIOUS
      <3>1. WordBits * x >= WordBits * (q + 1)
        BY <1>1, <1>2, <2>1, Z3
      <3> QED BY <3>1, <1>1, <1>2, <2>1, Z3
    <2> QED BY <2>1, <2>2, <2>3, <1>2
  <1> QED BY <1>2, <1>3, <1>4, <1>5, <1>6 DEF Words

-----------------------------------------------------------------------------
(***************************************************************************)
(* Neither TypeOK nor ExclusivePages is inductive alone.  A bit that sat   *)
(* in a word other than its own could be cleared by one exchange and stay  *)
(* set for another, so PoolInv also says that every bit is in its place    *)
(* and that a thread inside the inner loop points at a word.               *)
(***************************************************************************)
BitsInPlace  == \A x \in Words : \A p \in bitmap[x] : WordOf(p) = x
ScanInBounds == \A t \in Threads : pc[t] = "cas" => w[t] \in Words

PoolInv == TypeOK /\ BitsInPlace /\ ScanInBounds /\ ExclusivePages

\* The value of FreePages, page by page: p is free exactly if its bit is set.
LEMMA FreePagesByBit ==
  ASSUME TypeOK, BitsInPlace
  PROVE  /\ FreePages \subseteq Pages
         /\ \A p \in Pages : p \in FreePages <=> p \in bitmap[WordOf(p)]
  BY WordOfPage DEF TypeOK, BitsInPlace, FreePages

LEMMA InitPoolInv == Init => PoolInv
  <1> SUFFICES ASSUME Init PROVE PoolInv
    OBVIOUS
  <1>1. 0 \in 0 .. NumWords
    BY DivisionFacts, TotalPagesAssumption, WordBitsAssumption DEF NumWords
  <1>2. TypeOK
    BY <1>1 DEF Init, InitialBits, TypeOK, Locations, InCall
  <1>3. BitsInPlace
    BY WordOfPage DEF Init, InitialBits, BitsInPlace
  <1>4. ScanInBounds
    BY DEF Init, ScanInBounds
  <1>5. FreePages = Pages
    BY WordOfPage DEF Init, InitialBits, FreePages
  <1>6. ExclusivePages
    BY <1>5 DEF Init, ExclusivePages
  <1> QED BY <1>2, <1>3, <1>4, <1>6 DEF PoolInv

\* What the two steps that write the bitmap do to the set of free pages.
LEMMA CasTakesFreePage ==
  ASSUME PoolInv, NEW t \in Threads, CasSucceeds(t)
  PROVE  \E p \in FreePages :
           /\ FreePages' = FreePages \ {p}
           /\ held' = [held EXCEPT ![t] = @ \cup {p}]
           /\ bitmap' = [bitmap EXCEPT ![w[t]] = @ \ {p}]
           /\ pc' = [pc EXCEPT ![t] = "some"]
  <1> USE DEF PoolInv
  <1>1. PICK p \in word[t] :
          /\ pc[t] = "cas" /\ bitmap[w[t]] = word[t]
          /\ bitmap' = [bitmap EXCEPT ![w[t]] = word[t] \ {p}]
          /\ p < TotalPages =>
                /\ held' = [held EXCEPT ![t] = @ \cup {p}]
                /\ pc' = [pc EXCEPT ![t] = "some"]
    BY DEF CasSucceeds, WordUnchanged
  <1>2. w[t] \in Words /\ p \in bitmap[w[t]] /\ p \in Pages /\ WordOf(p) = w[t]
    BY <1>1 DEF ScanInBounds, TypeOK, BitsInPlace
  <1>3. p \in FreePages
    BY <1>2 DEF FreePages
  <1>4. p < TotalPages
    BY <1>2, TotalPagesAssumption DEF Pages
  <1>5. FreePages' = FreePages \ {p}
    <2>1. ASSUME NEW x \in Words
          PROVE  bitmap'[x] = bitmap[x] \ {p}
      BY <1>1, <1>2 DEF TypeOK, BitsInPlace
    <2> QED BY <2>1 DEF FreePages
  <1> QED BY <1>1, <1>3, <1>4, <1>5

LEMMA FreeReturnsPage ==
  ASSUME PoolInv, NEW t \in Threads, NEW p \in Pages, FreePage(t, p)
  PROVE  /\ FreePages' = FreePages \cup {p}
         /\ p \in held[t]
         /\ held' = [held EXCEPT ![t] = @ \ {p}]
  <1> USE DEF PoolInv
  <1>1. WordOf(p) \in Words
    BY WordOfPage
  <1>2. ASSUME NEW x \in Words
        PROVE  bitmap'[x] = IF x = WordOf(p) THEN bitmap[x] \cup {p} ELSE bitmap[x]
    BY <1>1 DEF FreePage, TypeOK
  <1>3. FreePages' = FreePages \cup {p}
    BY <1>1, <1>2 DEF FreePages
  <1> QED BY <1>3 DEF FreePage

\* Every other step leaves the bitmap and the held pages alone.
Invisible == UNCHANGED <<bitmap, held>>

LEMMA StepKinds ==
  ASSUME [Next]_vars
  PROVE  \/ Invisible
         \/ \E t \in Threads : CasSucceeds(t)
         \/ \E t \in Threads, p \in Pages : FreePage(t, p)
  BY DEF Next, AllocStep, vars, CallAlloc, LoadWord, ScanEnds, SkipWord,
         CasFails, Return, Invisible

-----------------------------------------------------------------------------
LEMMA NextTypeOK == PoolInv /\ [Next]_vars => TypeOK'
  <1> SUFFICES ASSUME PoolInv, [Next]_vars PROVE TypeOK'
    OBVIOUS
  <1> USE DEF PoolInv, TypeOK, Locations, InCall
  <1>0. NumWords \in Nat /\ \A x \in Words : x \in Nat /\ x + 1 \in 0 .. NumWords
    BY DivisionFacts, TotalPagesAssumption, WordBitsAssumption DEF NumWords, Words
  <1>1. ASSUME NEW t \in Threads, CallAlloc(t) PROVE TypeOK'
    BY <1>1, <1>0 DEF CallAlloc
  <1>2. ASSUME NEW t \in Threads, LoadWord(t) PROVE TypeOK'
    BY <1>2 DEF LoadWord
  <1>3. ASSUME NEW t \in Threads, ScanEnds(t) PROVE TypeOK'
    BY <1>3 DEF ScanEnds
  <1>4. ASSUME NEW t \in Threads, SkipWord(t) PROVE TypeOK'
    BY <1>4, <1>0 DEF SkipWord, ScanInBounds
  <1>5. ASSUME NEW t \in Threads, CasSucceeds(t) PROVE TypeOK'
    <2>1. PICK p \in FreePages :
            /\ held' = [held EXCEPT ![t] = @ \cup {p}]
            /\ bitmap' = [bitmap EXCEPT ![w[t]] = @ \ {p}]
            /\ pc' = [pc EXCEPT ![t] = "some"]
      BY <1>5, CasTakesFreePage
    <2>2. p \in Pages
      BY FreePagesByBit
    <2>3. UNCHANGED <<w, word>>
      BY <1>5 DEF CasSucceeds
    <2>4. bitmap' \in [Words -> SUBSET Pages]
      BY <2>1
    <2>5. held' \in [Threads -> SUBSET Pages]
      BY <2>1, <2>2
    <2> QED BY <2>1, <2>3, <2>4, <2>5
  <1>6. ASSUME NEW t \in Threads, CasFails(t) PROVE TypeOK'
    BY <1>6 DEF CasFails, WordRead, ScanInBounds
  <1>7. ASSUME NEW t \in Threads, Return(t) PROVE TypeOK'
    BY <1>7 DEF Return
  <1>8. ASSUME NEW t \in Threads, NEW p \in Pages, FreePage(t, p) PROVE TypeOK'
    BY <1>8 DEF FreePage
  <1>9. CASE UNCHANGED vars
    BY <1>9 DEF vars
  <1> QED
    BY <1>1, <1>2, <1>3, <1>4, <1>5, <1>6, <1>7, <1>8, <1>9 DEF Next, AllocStep

LEMMA NextBitsInPlace == PoolInv /\ [Next]_vars => BitsInPlace'
  <1> SUFFICES ASSUME PoolInv, [Next]_vars PROVE BitsInPlace'
    OBVIOUS
  <1> USE DEF PoolInv, BitsInPlace
  <1>1. CASE Invisible
    BY <1>1 DEF Invisible
  <1>2. ASSUME NEW t \in Threads, CasSucceeds(t) PROVE BitsInPlace'
    <2>1. \E p \in FreePages : bitmap' = [bitmap EXCEPT ![w[t]] = @ \ {p}]
      BY <1>2, CasTakesFreePage
    <2> QED BY <2>1 DEF TypeOK
  <1>3. ASSUME NEW t \in Threads, NEW p \in Pages, FreePage(t, p) PROVE BitsInPlace'
    BY <1>3 DEF FreePage, TypeOK
  <1> QED BY <1>1, <1>2, <1>3, StepKinds

LEMMA NextScanInBounds == PoolInv /\ [Next]_vars => ScanInBounds'
  <1> SUFFICES ASSUME PoolInv, [Next]_vars PROVE ScanInBounds'
    OBVIOUS
  <1> USE DEF PoolInv, ScanInBounds, TypeOK
  <1>1. ASSUME NEW t \in Threads, LoadWord(t) PROVE ScanInBounds'
    BY <1>1 DEF LoadWord
  <1>2. ASSUME NEW t \in Threads, CallAlloc(t) \/ SkipWord(t) PROVE ScanInBounds'
    BY <1>2 DEF CallAlloc, SkipWord
  <1>3. ASSUME NEW t \in Threads, ScanEnds(t) \/ CasFails(t) \/ Return(t)
        PROVE  ScanInBounds'
    BY <1>3 DEF ScanEnds, CasFails, Return
  <1>4. ASSUME NEW t \in Threads, CasSucceeds(t) PROVE ScanInBounds'
    <2>1. UNCHANGED w /\ pc' = [pc EXCEPT ![t] = "some"]
      BY <1>4, CasTakesFreePage DEF CasSucceeds
    <2> QED BY <2>1
  <1>5. ASSUME NEW t \in Threads, NEW p \in Pages, FreePage(t, p) PROVE ScanInBounds'
    BY <1>5 DEF FreePage
  <1>6. CASE UNCHANGED vars
    BY <1>6 DEF vars
  <1> QED BY <1>1, <1>2, <1>3, <1>4, <1>5, <1>6 DEF Next, AllocStep

LEMMA NextExclusivePages == PoolInv /\ [Next]_vars => ExclusivePages'
  <1> SUFFICES ASSUME PoolInv, [Next]_vars PROVE ExclusivePages'
    OBVIOUS
  <1> USE DEF PoolInv, ExclusivePages
  <1>1. CASE Invisible
    BY <1>1 DEF Invisible, FreePages
  <1>2. ASSUME NEW t \in Threads, CasSucceeds(t) PROVE ExclusivePages'
    <2>1. PICK p \in FreePages : /\ FreePages' = FreePages \ {p}
                                 /\ held' = [held EXCEPT ![t] = @ \cup {p}]
      BY <1>2, CasTakesFreePage
    <2> QED BY <2>1 DEF TypeOK
  <1>3. ASSUME NEW t \in Threads, NEW p \in Pages, FreePage(t, p) PROVE ExclusivePages'
    <2>1. /\ FreePages' = FreePages \cup {p} /\ p \in held[t]
          /\ held' = [held EXCEPT ![t] = @ \ {p}]
      BY <1>3, FreeReturnsPage
    <2> QED BY <2>1 DEF TypeOK
  <1> QED BY <1>1, <1>2, <1>3, StepKinds

\* PoolInv is an inductive invariant of the pool.
THEOREM PoolInvariant == Spec => []PoolInv
  <1>1. Init => PoolInv
    BY InitPoolInv
  <1>2. PoolInv /\ [Next]_vars => PoolInv'
    BY NextTypeOK, NextBitsInPlace, NextScanInBounds, NextExclusivePages DEF PoolInv
  <1> QED BY <1>1, <1>2, PTL DEF Spec

\* Every variable of the pool keeps its type; in particular no bit beyond
\* total_pages is ever set, so the test of page_pool.rs:102 never fails.
THEOREM TypeCorrect == Spec => []TypeOK
  <1>1. PoolInv => TypeOK
    BY DEF PoolInv
  <1> QED BY <1>1, PoolInvariant, PTL

\* However alloc_page and free_page interleave, a page has at most one owner
\* and none is lost.
THEOREM Exclusive == Spec => []ExclusivePages
  <1>1. PoolInv => ExclusivePages
    BY DEF PoolInv
  <1> QED BY <1>1, PoolInvariant, PTL

\* The lock-free bitmap implements the atomic allocator.
THEOREM Implements == Spec => AllocatorSpec
  <1>1. Init => Allocator!Init
    <2>1. Init => FreePages = Pages
      BY WordOfPage DEF Init, InitialBits, FreePages
    <2> QED BY <2>1 DEF Allocator!Init, Init
  <1>2. PoolInv /\ [Next]_vars => [Allocator!Next]_(Allocator!vars)
    <2> SUFFICES ASSUME PoolInv, [Next]_vars
                 PROVE  [Allocator!Next]_(Allocator!vars)
      OBVIOUS
    <2>1. CASE Invisible
      BY <2>1 DEF Invisible, FreePages, Allocator!vars
    <2>2. ASSUME NEW t \in Threads, CasSucceeds(t) PROVE Allocator!Next
      <3>1. Allocator!Alloc(t)
        BY <2>2, CasTakesFreePage DEF Allocator!Alloc
      <3> QED BY <3>1 DEF Allocator!Next
    <2>3. ASSUME NEW t \in Threads, NEW p \in Pages, FreePage(t, p)
          PROVE  Allocator!Next
      <3>1. Allocator!Release(t)
        BY <2>3, FreeReturnsPage DEF Allocator!Release
      <3> QED BY <3>1 DEF Allocator!Next
    <2> QED BY <2>1, <2>2, <2>3, StepKinds
  <1> QED BY <1>1, <1>2, PoolInvariant, PTL DEF Spec, AllocatorSpec, Allocator!Spec
-----------------------------------------------------------------------------
(***************************************************************************)
(* What None guarantees with any number of threads.  The invariant follows *)
(* the scan: the pages of the words it has passed, and those of the        *)
(* current word that its copy shows as used, have all been seen in use.    *)
(***************************************************************************)
Scanned(t) == {p \in Pages : \/ WordOf(p) < w[t]
                             \/ /\ pc[t] = "cas"
                                /\ WordOf(p) = w[t]
                                /\ p \notin word[t]}

ScanInv ==
  /\ taken \in [Threads -> SUBSET Pages]
  /\ \A t \in Threads : pc[t] \in InCall => Scanned(t) \subseteq taken[t]
  /\ NoneMeansEachTaken

\* The histories do not disturb the pool.
LEMMA CallsKeepPool == PoolInv /\ [CNext]_<<vars, callVars>> => PoolInv'
  <1>1. [CNext]_<<vars, callVars>> => [Next]_vars
    BY DEF CNext
  <1> QED BY <1>1, NextTypeOK, NextBitsInPlace, NextScanInBounds,
             NextExclusivePages DEF PoolInv

\* A step observes, for every thread inside a call, the pages then in use.
LEMMA ObservedStep ==
  ASSUME Observe, NEW t \in Threads
  PROVE  /\ pc[t] \in InCall => taken'[t] = taken[t] \cup (Pages \ FreePages')
         /\ pc[t] \notin InCall /\ pc'[t] # "load" => taken'[t] = taken[t]
  BY DEF Observe, Begins, Inside, InCall

LEMMA WordFacts ==
  /\ NumWords \in Nat
  /\ \A p \in Pages : WordOf(p) \in Nat /\ WordOf(p) < NumWords
  BY WordOfPage, DivisionFacts, TotalPagesAssumption, WordBitsAssumption
     DEF NumWords, Words

\* The steps of the thread itself.
LEMMA OwnStep ==
  ASSUME PoolInv, PoolInv', ScanInv, Observe, NEW t \in Threads,
         CallAlloc(t) \/ AllocStep(t) \/ \E p \in Pages : FreePage(t, p)
  PROVE  /\ pc'[t] \in InCall => Scanned(t)' \subseteq taken'[t]
         /\ pc'[t] = "none" => taken'[t] = Pages
  <1> USE DEF PoolInv, TypeOK, ScanInv, InCall, Locations, Scanned,
              NoneMeansEachTaken
  <1>0. /\ pc[t] \in InCall => taken'[t] = taken[t] \cup (Pages \ FreePages')
        /\ pc[t] \notin InCall /\ pc'[t] # "load" => taken'[t] = taken[t]
    BY ObservedStep
  <1>1. CASE CallAlloc(t)
    BY <1>1, WordFacts DEF CallAlloc
  <1>2. CASE LoadWord(t)
    <2>1. /\ pc[t] = "load" /\ w' = w /\ bitmap' = bitmap /\ w[t] \in Words
          /\ word'[t] = bitmap[w[t]] /\ pc'[t] = "cas"
      BY <1>2 DEF LoadWord
    <2>2. ASSUME NEW p \in Pages, WordOf(p) = w[t], p \notin word'[t]
          PROVE  p \notin FreePages'
      BY <2>1, <2>2 DEF FreePages, BitsInPlace
    <2> QED BY <1>0, <2>1, <2>2
  <1>3. CASE ScanEnds(t)
    <2>1. /\ pc[t] = "load" /\ pc'[t] = "none" /\ w[t] >= NumWords
      BY <1>3 DEF ScanEnds, PastLastWord
    <2>2. Pages \subseteq taken[t]
      BY <2>1, WordFacts
    <2> QED BY <1>0, <2>1, <2>2, WordFacts
  <1>4. CASE SkipWord(t)
    BY <1>0, <1>4, WordFacts DEF SkipWord
  <1>5. CASE CasSucceeds(t)
    <2>1. pc'[t] = "some"
      BY <1>5, CasTakesFreePage
    <2> QED BY <2>1
  <1>6. CASE CasFails(t)
    <2>1. /\ pc[t] = "cas" /\ pc' = pc /\ w' = w /\ bitmap' = bitmap
          /\ word'[t] = bitmap[w[t]] /\ w[t] \in Words
      BY <1>6 DEF CasFails, WordRead, ScanInBounds
    <2>2. ASSUME NEW p \in Pages, WordOf(p) = w[t], p \notin word'[t]
          PROVE  p \notin FreePages'
      BY <2>1, <2>2 DEF FreePages, BitsInPlace
    <2> QED BY <1>0, <2>1, <2>2
  <1>7. CASE Return(t)
    BY <1>7 DEF Return
  <1>8. CASE \E p \in Pages : FreePage(t, p)
    BY <1>8 DEF FreePage
  <1> QED BY <1>1, <1>2, <1>3, <1>4, <1>5, <1>6, <1>7, <1>8 DEF AllocStep

\* The steps of other threads only add to what was observed.
LEMMA OthersStep ==
  ASSUME PoolInv, PoolInv', ScanInv, [CNext]_<<vars, callVars>>,
         NEW t \in Threads, pc'[t] = pc[t], w'[t] = w[t], word'[t] = word[t]
  PROVE  /\ pc'[t] \in InCall => Scanned(t)' \subseteq taken'[t]
         /\ pc'[t] = "none" => taken'[t] = Pages
  <1>1. Scanned(t)' = Scanned(t)
    BY DEF Scanned
  <1>2. /\ pc[t] \in InCall => taken[t] \subseteq taken'[t]
        /\ pc[t] = "none" => taken'[t] = taken[t]
    BY ObservedStep DEF CNext, callVars, InCall
  <1> QED BY <1>1, <1>2 DEF ScanInv, NoneMeansEachTaken

LEMMA NextScanInv ==
  PoolInv /\ PoolInv' /\ ScanInv /\ [CNext]_<<vars, callVars>> => ScanInv'
  <1> SUFFICES ASSUME PoolInv, PoolInv', ScanInv, [CNext]_<<vars, callVars>>
               PROVE  ScanInv'
    OBVIOUS
  <1>1. taken' \in [Threads -> SUBSET Pages]
    BY DEF CNext, Observe, callVars, ScanInv
  <1>2. ASSUME NEW t \in Threads
        PROVE  /\ pc'[t] \in InCall => Scanned(t)' \subseteq taken'[t]
               /\ pc'[t] = "none" => taken'[t] = Pages
    <2>1. CASE UNCHANGED <<vars, callVars>>
      BY <2>1, OthersStep DEF vars
    <2>2. CASE CNext
      <3>1. PICK u \in Threads :
              CallAlloc(u) \/ AllocStep(u) \/ \E p \in Pages : FreePage(u, p)
        BY <2>2 DEF CNext, Next
      <3>2. CASE u = t
        BY <2>2, <3>1, <3>2, OwnStep DEF CNext
      <3>3. CASE u # t
        <4>1. pc'[t] = pc[t] /\ w'[t] = w[t] /\ word'[t] = word[t]
          BY <3>1, <3>3 DEF PoolInv, TypeOK, AllocStep, CallAlloc, LoadWord,
             ScanEnds, SkipWord, CasSucceeds, CasFails, Return, FreePage
        <4> QED BY <4>1, OthersStep
      <3> QED BY <3>2, <3>3
    <2> QED BY <2>1, <2>2
  <1> QED BY <1>1, <1>2 DEF ScanInv, NoneMeansEachTaken

\* When alloc_page answers None, each page of the pool was in use at some
\* instant of the call, whatever the other handlers did meanwhile.
THEOREM NoneIsJustified == CSpec => []NoneMeansEachTaken
  <1>1. CInit => PoolInv /\ ScanInv
    BY InitPoolInv DEF CInit, Init, ScanInv, InCall, NoneMeansEachTaken
  <1>2. PoolInv /\ [CNext]_<<vars, callVars>> => PoolInv'
    BY CallsKeepPool
  <1>3. ScanInv => NoneMeansEachTaken
    BY DEF ScanInv
  <1> QED BY <1>1, <1>2, <1>3, NextScanInv, PTL DEF CSpec
-----------------------------------------------------------------------------
(***************************************************************************)
(* What None guarantees with at most two threads: the pool was exhausted.  *)
(* While one of them scans, only the other one can free a page behind the  *)
(* scan, and it takes that page again before it takes one ahead.  So a     *)
(* scan has seen the pool exhausted or has a free page ahead of it.  A     *)
(* third thread refutes this: it can free a page behind both scans.        *)
(***************************************************************************)
AtMostTwo == \A t, u, v \in Threads : t = u \/ t = v \/ u = v

\* The pages of the words that the scan of t has found empty.
Passed(t) == {p \in Pages : \/ WordOf(p) < w[t]
                            \/ /\ pc[t] = "cas"
                               /\ WordOf(p) = w[t]
                               /\ word[t] = {}}

NothingBehindBoth ==
  \A t, u \in Threads :
    t # u /\ pc[t] \in InCall /\ pc[u] \in InCall
      => Passed(t) \cap Passed(u) \cap FreePages = {}

PairInv ==
  /\ exhausted \in [Threads -> BOOLEAN]
  /\ \A t \in Threads : pc[t] \in InCall => exhausted[t] \/ FreePages \ Passed(t) # {}
  /\ NothingBehindBoth
  /\ NoneMeansExhausted

\* A step records, for every thread inside a call, that the pool is exhausted.
LEMMA ExhaustionObserved ==
  ASSUME Observe, NEW t \in Threads
  PROVE  /\ pc[t] \in InCall => (exhausted'[t] <=> exhausted[t] \/ FreePages' = {})
         /\ pc[t] = "idle" /\ pc'[t] = "load" => (exhausted'[t] <=> FreePages' = {})
         /\ pc[t] \notin InCall /\ pc'[t] # "load" => (exhausted'[t] <=> exhausted[t])
  BY DEF Observe, Begins, Inside, InCall

\* A free page has its bit set, and only free pages have.
LEMMA FreeBits ==
  ASSUME TypeOK, BitsInPlace, NEW x \in Words
  PROVE  \A p \in Pages : WordOf(p) = x => (p \in FreePages <=> p \in bitmap[x])
  BY FreePagesByBit

\* The scan of t goes on: no free page gets behind it.
ScanOn(t) == LoadWord(t) \/ SkipWord(t) \/ CasFails(t)

LEMMA ScanPasses ==
  ASSUME PoolInv, NEW t \in Threads, ScanOn(t)
  PROVE  /\ pc[t] \in InCall /\ pc'[t] \in InCall
         /\ FreePages' = FreePages
         /\ Passed(t)' \cap FreePages \subseteq Passed(t)
         /\ \A u \in Threads \ {t} : Passed(u)' = Passed(u) /\ pc'[u] = pc[u]
  <1> USE DEF PoolInv, TypeOK, InCall, Locations
  <1>1. FreePages' = FreePages
    BY DEF ScanOn, LoadWord, SkipWord, CasFails, FreePages
  <1>2. \A u \in Threads \ {t} : pc'[u] = pc[u] /\ w'[u] = w[u] /\ word'[u] = word[u]
    BY DEF ScanOn, LoadWord, SkipWord, CasFails
  <1>3. \A u \in Threads \ {t} : Passed(u)' = Passed(u) /\ pc'[u] = pc[u]
    BY <1>2 DEF Passed
  <1>4. CASE LoadWord(t) \/ CasFails(t)
    <2>1. /\ pc[t] \in InCall /\ pc'[t] = "cas" /\ w'[t] = w[t] /\ w[t] \in Words
          /\ word'[t] = bitmap[w[t]]
      BY <1>4 DEF LoadWord, CasFails, WordRead, ScanInBounds
    <2>2. ASSUME NEW p \in FreePages, p \in Passed(t)' PROVE p \in Passed(t)
      <3>1. p \in Pages /\ (WordOf(p) = w[t] => word'[t] # {})
        BY <2>1, FreePagesByBit, FreeBits
      <3> QED BY <2>1, <2>2, <3>1 DEF Passed
    <2> QED BY <1>1, <1>3, <2>1, <2>2
  <1>5. CASE SkipWord(t)
    <2>1. /\ pc[t] = "cas" /\ word[t] = {} /\ w'[t] = w[t] + 1 /\ pc'[t] = "load"
      BY <1>5 DEF SkipWord
    <2>2. w[t] \in Nat
      BY <2>1, WordFacts
    <2>3. Passed(t)' \subseteq Passed(t)
      BY <2>1, <2>2, WordFacts DEF Passed
    <2> QED BY <1>1, <1>3, <2>1, <2>3
  <1> QED BY <1>4, <1>5 DEF ScanOn

\* u takes a page.  If it was the last one ahead of t, all others are behind
\* t, hence ahead of u; but u took from the first word with a free page ahead
\* of it, so there are no others.
LEMMA TakeLeavesAhead ==
  ASSUME PoolInv, PairInv, NEW t \in Threads, NEW u \in Threads, t # u,
         pc[t] \in InCall, CasSucceeds(u), FreePages' # {}
  PROVE  exhausted[t] \/ FreePages' \ Passed(t) # {}
  <1> USE DEF PoolInv, TypeOK
  <1>1. PICK p \in FreePages : /\ FreePages' = FreePages \ {p}
                               /\ bitmap' = [bitmap EXCEPT ![w[u]] = @ \ {p}]
    BY CasTakesFreePage
  <1>2. /\ pc[u] = "cas" /\ word[u] # {} /\ w[u] \in Words
    BY DEF CasSucceeds, ScanInBounds
  <1>3. w[u] \in Nat /\ w[t] \in Nat
    BY WordFacts
  <1>4. FreePages \subseteq Pages /\ p \in bitmap[WordOf(p)] /\ WordOf(p) \in Words
    BY FreePagesByBit, WordOfPage
  <1>5. WordOf(p) = w[u]
    <2> SUFFICES ASSUME WordOf(p) # w[u] PROVE p \in FreePages'
      BY <1>1
    <2>1. p \in bitmap'[WordOf(p)]
      BY <1>1, <1>4
    <2> QED BY <1>4, <2>1 DEF FreePages
  <1>6. PICK q \in FreePages' : TRUE
    OBVIOUS
  <1>7. q \in FreePages /\ q \in Pages /\ p \in Pages /\ WordOf(q) \in Nat
    BY <1>1, <1>4, WordFacts
  <1>8. CASE p \in Passed(t)
    BY <1>1, <1>8 DEF PairInv
  <1>9. CASE p \notin Passed(t)
    <2>1. SUFFICES ASSUME q \in Passed(t) PROVE FALSE
      BY <1>6
    <2>2. q \notin Passed(u)
      BY <1>2, <1>7, <2>1 DEF PairInv, NothingBehindBoth, InCall
    <2>3. WordOf(q) >= w[u]
      BY <1>3, <1>7, <2>2 DEF Passed
    <2>4. w[u] >= w[t] /\ (w[u] = w[t] => ~ (pc[t] = "cas" /\ word[t] = {}))
      BY <1>3, <1>5, <1>7, <1>9 DEF Passed
    <2> QED BY <1>3, <1>7, <2>1, <2>3, <2>4 DEF Passed
  <1> QED BY <1>8, <1>9

LEMMA CallStart ==
  ASSUME PoolInv, NEW t \in Threads, CallAlloc(t)
  PROVE  /\ pc[t] = "idle" /\ pc'[t] = "load" /\ FreePages' = FreePages
         /\ Passed(t)' = {}
         /\ \A u \in Threads \ {t} : Passed(u)' = Passed(u) /\ pc'[u] = pc[u]
  <1> USE DEF PoolInv, TypeOK
  <1>1. pc[t] = "idle" /\ pc'[t] = "load" /\ FreePages' = FreePages /\ w'[t] = 0
    BY DEF CallAlloc, FreePages
  <1>2. \A u \in Threads \ {t} : pc'[u] = pc[u] /\ w'[u] = w[u] /\ word'[u] = word[u]
    BY DEF CallAlloc
  <1> QED BY <1>1, <1>2, WordFacts DEF Passed

\* The steps after which t itself is in no call.
Leaves(t) == \/ ScanEnds(t) \/ CasSucceeds(t) \/ Return(t)
             \/ \E p \in Pages : FreePage(t, p)

LEMMA LeavesFacts ==
  ASSUME PoolInv, NEW t \in Threads, Leaves(t)
  PROVE  /\ pc'[t] \notin InCall
         /\ \A u \in Threads \ {t} : Passed(u)' = Passed(u) /\ pc'[u] = pc[u]
         /\ FreePages' \subseteq FreePages \/ (pc[t] = "idle" /\ FreePages \subseteq FreePages')
         /\ CasSucceeds(t) \/ FreePages \subseteq FreePages'
  <1> USE DEF PoolInv, TypeOK, InCall
  <1>1. \A u \in Threads \ {t} : pc'[u] = pc[u] /\ w'[u] = w[u] /\ word'[u] = word[u]
    BY DEF Leaves, ScanEnds, CasSucceeds, Return, FreePage
  <1>2. \A u \in Threads \ {t} : Passed(u)' = Passed(u)
    BY <1>1 DEF Passed
  <1>3. CASE ScanEnds(t) \/ Return(t)
    BY <1>1, <1>2, <1>3 DEF ScanEnds, Return, FreePages
  <1>4. CASE CasSucceeds(t)
    BY <1>1, <1>2, <1>4, CasTakesFreePage
  <1>5. ASSUME NEW p \in Pages, FreePage(t, p)
        PROVE  pc[t] = "idle" /\ pc' = pc /\ FreePages' = FreePages \cup {p}
    BY <1>5, FreeReturnsPage DEF FreePage
  <1> QED BY <1>1, <1>2, <1>3, <1>4, <1>5 DEF Leaves

LEMMA PairStep ==
  ASSUME AtMostTwo, PoolInv, PoolInv', PairInv, Observe, NEW t \in Threads,
         CallAlloc(t) \/ ScanOn(t) \/ Leaves(t)
  PROVE  PairInv'
  <1> USE DEF PairInv
  <1>1. exhausted' \in [Threads -> BOOLEAN]
    BY DEF Observe
  <1>2. ASSUME NEW u \in Threads, pc'[u] \in InCall
        PROVE  exhausted'[u] \/ FreePages' \ Passed(u)' # {}
    <2>1. CASE CallAlloc(t) /\ u = t
      BY <2>1, CallStart, ExhaustionObserved
    <2>2. CASE ScanOn(t) /\ u = t
      BY <2>2, ScanPasses, ExhaustionObserved
    <2>3. CASE u # t
      <3>1. pc[u] \in InCall /\ Passed(u)' = Passed(u)
        BY <1>2, <2>3, CallStart, ScanPasses, LeavesFacts
      <3>2. exhausted'[u] <=> exhausted[u] \/ FreePages' = {}
        BY <3>1, ExhaustionObserved
      <3>3. CASE CasSucceeds(t)
        BY <2>3, <3>1, <3>2, <3>3, TakeLeavesAhead
      <3>4. CASE ~ CasSucceeds(t)
        <4>1. FreePages \subseteq FreePages'
          BY <3>4, CallStart, ScanPasses, LeavesFacts
        <4> QED BY <3>1, <3>2, <4>1
      <3> QED BY <3>3, <3>4
    <2> QED BY <1>2, <2>1, <2>2, <2>3, LeavesFacts
  <1>3. ASSUME NEW u \in Threads, NEW v \in Threads, u # v,
               pc'[u] \in InCall, pc'[v] \in InCall
        PROVE  Passed(u)' \cap Passed(v)' \cap FreePages' = {}
    <2>1. t \in {u, v}
      BY <1>3 DEF AtMostTwo
    <2>2. ~ Leaves(t)
      BY <1>3, <2>1, LeavesFacts
    <2>3. CASE CallAlloc(t)
      BY <1>3, <2>1, <2>3, CallStart
    <2>4. CASE ScanOn(t)
      BY <1>3, <2>1, <2>4, ScanPasses DEF NothingBehindBoth
    <2> QED BY <2>2, <2>3, <2>4
  <1>4. ASSUME NEW u \in Threads, pc'[u] = "none" PROVE exhausted'[u]
    <2>1. CASE u # t
      BY <1>4, <2>1, CallStart, ScanPasses, LeavesFacts, ExhaustionObserved
         DEF NoneMeansExhausted, InCall
    <2>2. CASE u = t
      <3>1. ScanEnds(t)
        <4>1. ~ CallAlloc(t) /\ ~ ScanOn(t)
          BY <1>4, <2>2, CallStart, ScanPasses DEF InCall
        <4>2. ~ CasSucceeds(t)
          BY <1>4, <2>2, CasTakesFreePage DEF PoolInv, TypeOK
        <4>3. ~ Return(t) /\ ~ \E p \in Pages : FreePage(t, p)
          BY <1>4, <2>2 DEF Return, FreePage, PoolInv, TypeOK
        <4> QED BY <4>1, <4>2, <4>3 DEF Leaves
      <3>2. pc[t] = "load" /\ w[t] >= NumWords /\ w[t] \in Nat
        BY <3>1, WordFacts DEF ScanEnds, PastLastWord, PoolInv, TypeOK
      <3>3. Pages \subseteq Passed(t)
        BY <3>2, WordFacts DEF Passed
      <3>4. FreePages \subseteq Pages
        BY FreePagesByBit DEF PoolInv
      <3> QED BY <2>2, <3>2, <3>3, <3>4, ExhaustionObserved DEF InCall
    <2> QED BY <2>1, <2>2
  <1> QED BY <1>1, <1>2, <1>3, <1>4 DEF NothingBehindBoth, NoneMeansExhausted

\* With at most two request handlers alloc_page keeps its comment's promise,
\* "None if pool exhausted" (page_pool.rs:82): there was an instant of the
\* call at which no page was free (with the words as one memory, PagePool.tla).
THEOREM NoneIsExhaustion ==
  ASSUME AtMostTwo
  PROVE  CSpec => []NoneMeansExhausted
  <1>1. CInit => PoolInv /\ PairInv
    BY InitPoolInv DEF CInit, Init, PairInv, InCall, NothingBehindBoth, NoneMeansExhausted
  <1>2. PoolInv /\ [CNext]_<<vars, callVars>> => PoolInv'
    BY CallsKeepPool
  <1>3. PoolInv /\ PoolInv' /\ PairInv /\ [CNext]_<<vars, callVars>> => PairInv'
    <2> SUFFICES ASSUME PoolInv, PoolInv', PairInv, [CNext]_<<vars, callVars>>
                 PROVE  PairInv'
      OBVIOUS
    <2>1. CASE UNCHANGED <<vars, callVars>>
      BY <2>1 DEF vars, callVars, PairInv, NothingBehindBoth, NoneMeansExhausted,
                  Passed, FreePages
    <2>2. CASE CNext
      BY <2>2, PairStep DEF CNext, Next, AllocStep, ScanOn, Leaves
    <2> QED BY <2>1, <2>2
  <1>4. PairInv => NoneMeansExhausted
    BY DEF PairInv
  <1> QED BY <1>1, <1>2, <1>3, <1>4, PTL DEF CSpec
=============================================================================
