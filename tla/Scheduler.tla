------------------------------ MODULE Scheduler ------------------------------
(***************************************************************************)
(* Continuous batching: the Scheduler of src/src/scheduler/batching.rs and *)
(* the token accounting of AegisEngine::step_forward in                    *)
(* src/src/engine/mod.rs that drives it.                                   *)
(*                                                                         *)
(* One call of step_forward is the walk                                    *)
(*   idle -> promote -> batch -> apply -> cleanup -> idle                  *)
(* with one action per page taken from the pool, per request moved, per    *)
(* output applied and per turn of the cleanup loop.  add_request needs     *)
(* the engine exclusively (&mut self), so it happens only between calls.   *)
(*                                                                         *)
(* The scheduler is the only client of its pool, so alloc_page is the      *)
(* atomic step of PageAllocator.tla and answers None exactly if no page is *)
(* free; a scan by one thread yields the lowest free page.  The fields     *)
(* physical_pages and block_table always hold the same list and are one    *)
(* variable, table.  Token values play no part in any decision made here:  *)
(* of prompt_tokens only the length is kept.  What the batch computes is   *)
(* the subject of KvCache.tla.                                             *)
(***************************************************************************)
EXTENDS Integers, Sequences

CONSTANTS Requests,     \* the SequenceRequests that may be submitted
          SeqIdOf,      \* the seq_id the caller gives each of them
          Sizes,        \* the pairs <<prompt_tokens.len(), max_new_tokens>>
          TotalPages,   \* pages in the pool
          PageTokens,   \* PAGE_TOKENS (16)
          MaxBatch      \* max_batch_size (16)

ASSUME SizesAssumption == Sizes \subseteq (Nat \ {0}) \X Nat
ASSUME TotalPagesAssumption == TotalPages \in Nat
ASSUME PageTokensAssumption == PageTokens \in Nat \ {0}
ASSUME MaxBatchAssumption == MaxBatch \in Nat \ {0}

Pages == 0 .. (TotalPages - 1)

\* div_ceil(PAGE_TOKENS): the pages that n tokens fill.
PagesFor(n) == (n + PageTokens - 1) \div PageTokens

VARIABLES
  free,       \* the pages of the pool whose bit is set
  waiting,    \* waiting_seqs
  active,     \* active_seqs
  status,     \* per request: "New" (not submitted), Waiting, Running, Finished
  maxNew,     \* per request: max_new_tokens
  promptLen,  \* per request: prompt_tokens.len(), which grows
  numTokens,  \* per request: num_tokens
  generated,  \* per request: generated_tokens
  table,      \* per request: block_table
  phase,      \* where step_forward is
  mapped,     \* mapped_pages of promote_waiting
  i,          \* loop index over the outputs, then over active_seqs
  delivered   \* per request: how many of its tokens step_forward has returned

queues == <<waiting, active, status>>
tokens == <<maxNew, promptLen, numTokens, generated>>
vars == <<free, queues, tokens, table, phase, mapped, i, delivered>>

SetOf(s) == {s[k] : k \in 1 .. Len(s)}
InsertFirst(s, r) == <<r>> \o s
RemoveIndex(s, k) == SubSeq(s, 1, k - 1) \o SubSeq(s, k + 1, Len(s))

Init ==
  /\ free = Pages
  /\ waiting = <<>>
  /\ active = <<>>
  /\ status = [r \in Requests |-> "New"]
  /\ maxNew = [r \in Requests |-> 0]
  /\ promptLen = [r \in Requests |-> 0]
  /\ numTokens = [r \in Requests |-> 0]
  /\ generated = [r \in Requests |-> 0]
  /\ table = [r \in Requests |-> <<>>]
  /\ phase = "idle"
  /\ mapped = <<>>
  /\ i = 1
  /\ delivered = [r \in Requests |-> 0]

-----------------------------------------------------------------------------
\* add_request: num_tokens starts at the length of the prompt.
StartTokens_Prefill(n) == 0           \* fault: at 0, as a prefill would need
StartTokens(n) == n

AddRequest(r) ==
  \E sz \in Sizes :
    /\ phase = "idle"
    /\ status[r] = "New"
    /\ waiting' = Append(waiting, r)
    /\ status' = [status EXCEPT ![r] = "Waiting"]
    /\ maxNew' = [maxNew EXCEPT ![r] = sz[2]]
    /\ promptLen' = [promptLen EXCEPT ![r] = sz[1]]
    /\ numTokens' = [numTokens EXCEPT ![r] = StartTokens(sz[1])]
    /\ UNCHANGED <<free, active, generated, table, phase, mapped, i, delivered>>

\* The driver calls step_forward, which calls promote_waiting.
CallStep ==
  /\ phase = "idle"
  /\ phase' = "promote"
  /\ UNCHANGED <<free, queues, tokens, table, mapped, i, delivered>>

-----------------------------------------------------------------------------
\* promote_waiting: the head of the queue needs the pages of its tokens and
\* one more, taken one at a time.
CanPromote == Len(active) < MaxBatch /\ waiting # <<>>
PrefetchPages_Greedy(r) == PagesFor(numTokens[r]) + 2   \* fault: one page too many
PrefetchPages(r) == PagesFor(numTokens[r]) + 1

\* alloc_page with no concurrent caller.
AllocPage_Keep(p) == p \in free /\ UNCHANGED free   \* fault: the bit stays set
AllocPage(p) ==
  /\ p \in free
  /\ \A q \in free : p <= q
  /\ free' = free \ {p}

MapPage ==
  /\ phase = "promote"
  /\ CanPromote
  /\ Len(mapped) < PrefetchPages(Head(waiting))
  /\ \E p \in Pages : AllocPage(p) /\ mapped' = Append(mapped, p)
  /\ UNCHANGED <<queues, tokens, table, phase, i, delivered>>

\* The pool is out of pages: give back what was mapped and stop promoting.
RolledBack_Nothing == free            \* fault: the mapped pages are dropped
RolledBack == free \cup SetOf(mapped)

AfterOom_Retry == "promote"           \* fault: the break is left out
AfterOom == "batch"

PromoteOom ==
  /\ phase = "promote"
  /\ CanPromote
  /\ Len(mapped) < PrefetchPages(Head(waiting))
  /\ free = {}
  /\ free' = RolledBack
  /\ mapped' = <<>>
  /\ phase' = AfterOom
  /\ UNCHANGED <<queues, tokens, table, i, delivered>>

Promote ==
  /\ phase = "promote"
  /\ CanPromote
  /\ Len(mapped) = PrefetchPages(Head(waiting))
  /\ waiting' = Tail(waiting)
  /\ active' = Append(active, Head(waiting))
  /\ status' = [status EXCEPT ![Head(waiting)] = "Running"]
  /\ table' = [table EXCEPT ![Head(waiting)] = mapped]
  /\ mapped' = <<>>
  /\ UNCHANGED <<free, tokens, phase, i, delivered>>

PromoteDone ==
  /\ phase = "promote"
  /\ ~ CanPromote
  /\ phase' = "batch"
  /\ UNCHANGED <<free, queues, tokens, table, mapped, i, delivered>>

-----------------------------------------------------------------------------
\* step_forward returns at once when nothing is running.
NothingRunning ==
  /\ phase = "batch"
  /\ active = <<>>
  /\ phase' = "idle"
  /\ UNCHANGED <<free, queues, tokens, table, mapped, i, delivered>>

\* step_batch: one output per running sequence, in the order of active_seqs,
\* so output k is <<SeqIdOf[active[k]], a token>>.
StepBatch ==
  /\ phase = "batch"
  /\ active # <<>>
  /\ phase' = "apply"
  /\ i' = 1
  /\ UNCHANGED <<free, queues, tokens, table, mapped, delivered>>

\* iter().find(|s| s.seq_id == id): r is the first running request with the id.
IsFirstWithId(r, id) ==
  \E k \in 1 .. Len(active) :
    /\ active[k] = r
    /\ SeqIdOf[r] = id
    /\ \A j \in 1 .. (k - 1) : SeqIdOf[active[j]] # id

\* The token of output i is applied to the request found under its id: the
\* prefill branch only advances the position, the other one appends.
ApplyOutput ==
  /\ phase = "apply"
  /\ i <= Len(active)
  /\ \E r \in Requests :
       /\ IsFirstWithId(r, SeqIdOf[active[i]])
       /\ numTokens' = [numTokens EXCEPT ![r] = @ + 1]
       /\ IF numTokens[r] < promptLen[r] - 1
            THEN UNCHANGED <<promptLen, generated>>
            ELSE /\ promptLen' = [promptLen EXCEPT ![r] = @ + 1]
                 /\ generated' = [generated EXCEPT ![r] = @ + 1]
  /\ i' = i + 1
  /\ UNCHANGED <<free, queues, maxNew, table, phase, mapped, delivered>>

\* The outputs whose request has generated anything are what step_forward
\* will return.
Returned_Late(r) ==                   \* fault: filtered after the cleanup
  r \in SetOf(active) /\ generated[r] > 0 /\ generated[r] < maxNew[r]
Returned(r) ==
  /\ r \in SetOf(active)
  /\ \E q \in Requests : IsFirstWithId(q, SeqIdOf[r]) /\ generated[q] > 0

FilterOutputs ==
  /\ phase = "apply"
  /\ i > Len(active)
  /\ delivered' = [r \in Requests |->
                    IF Returned(r) THEN delivered[r] + 1 ELSE delivered[r]]
  /\ phase' = "cleanup"
  /\ i' = 1
  /\ UNCHANGED <<free, queues, tokens, table, mapped>>

-----------------------------------------------------------------------------
\* post_step_cleanup, one turn of its loop per action.
Current == active[i]
IsDone_Over(r) == generated[r] > maxNew[r]              \* fault: > for >=
IsDone(r) == generated[r] >= maxNew[r]
NeedsPage_Late(r) == PagesFor(numTokens[r]) > Len(table[r])   \* fault: no + 1
NeedsPage(r) == PagesFor(numTokens[r] + 1) > Len(table[r])

InCleanup == phase = "cleanup" /\ i <= Len(active)

\* The loop looks at the same index again after it has removed an element.
IndexAfterRemoval_Next == i + 1       \* fault: the next element is skipped
IndexAfterRemoval == i

\* The pages of the request go back to the pool.
ReleasePages_KeepTable(r) ==          \* fault: block_table is not cleared
  /\ free' = free \cup SetOf(table[r])
  /\ UNCHANGED table
ReleasePages(r) ==
  /\ free' = free \cup SetOf(table[r])
  /\ table' = [table EXCEPT ![r] = <<>>]

Finish ==
  /\ InCleanup
  /\ IsDone(Current)
  /\ status' = [status EXCEPT ![Current] = "Finished"]
  /\ active' = RemoveIndex(active, i)
  /\ ReleasePages(Current)
  /\ i' = IndexAfterRemoval
  /\ UNCHANGED <<waiting, tokens, phase, mapped, delivered>>

Keep ==
  /\ InCleanup
  /\ ~ IsDone(Current)
  /\ ~ NeedsPage(Current)
  /\ i' = i + 1
  /\ UNCHANGED <<free, queues, tokens, table, phase, mapped, delivered>>

Grow ==
  /\ InCleanup
  /\ ~ IsDone(Current)
  /\ NeedsPage(Current)
  /\ \E p \in Pages :
       /\ AllocPage(p)
       /\ table' = [table EXCEPT ![Current] = Append(@, p)]
  /\ i' = i + 1
  /\ UNCHANGED <<queues, tokens, phase, mapped, delivered>>

\* No page left: the sequence is preempted.  It keeps its token counts and
\* goes to the front of the queue.
Preempt ==
  /\ InCleanup
  /\ ~ IsDone(Current)
  /\ NeedsPage(Current)
  /\ free = {}
  /\ ReleasePages(Current)
  /\ active' = RemoveIndex(active, i)
  /\ waiting' = InsertFirst(waiting, Current)
  /\ status' = [status EXCEPT ![Current] = "Waiting"]
  /\ i' = IndexAfterRemoval
  /\ UNCHANGED <<tokens, phase, mapped, delivered>>

CleanupDone ==
  /\ phase = "cleanup"
  /\ i > Len(active)
  /\ phase' = "idle"
  /\ UNCHANGED <<free, queues, tokens, table, mapped, i, delivered>>

-----------------------------------------------------------------------------
\* The steps of step_forward outside the batch itself.
PromoteStep == MapPage \/ PromoteOom \/ Promote \/ PromoteDone
CleanupStep == Finish \/ Keep \/ Grow \/ Preempt \/ CleanupDone
ControlStep == CallStep \/ PromoteStep \/ NothingRunning \/ ApplyOutput
                 \/ FilterOutputs \/ CleanupStep
Step == ControlStep \/ StepBatch

Next == Step \/ \E r \in Requests : AddRequest(r)

Spec == Init /\ [][Next]_vars

-----------------------------------------------------------------------------
Phases == {"idle", "promote", "batch", "apply", "cleanup"}
Statuses == {"New", "Waiting", "Running", "Finished"}

TypeOK ==
  /\ free \subseteq Pages
  /\ waiting \in Seq(Requests)
  /\ active \in Seq(Requests)
  /\ status \in [Requests -> Statuses]
  /\ maxNew \in [Requests -> Nat]
  /\ promptLen \in [Requests -> Nat]
  /\ numTokens \in [Requests -> Nat]
  /\ generated \in [Requests -> Nat]
  /\ table \in [Requests -> Seq(Pages)]
  /\ phase \in Phases
  /\ mapped \in Seq(Pages)
  /\ i \in 1 .. (Len(active) + 1)
  /\ delivered \in [Requests -> Nat]

NoRepeats(s) == \A j, k \in 1 .. Len(s) : s[j] = s[k] => j = k

\* Through every promotion that runs out of pages half way, every growth,
\* finish and preemption: each page is free, or in mapped_pages, or in the
\* block table of one sequence at one index, and in only one of these.  A
\* page in two tables mixes the caches of two requests; a page in none is
\* lost for good.
PagesAccounted ==
  /\ free \cup SetOf(mapped) \cup UNION {SetOf(table[r]) : r \in Requests} = Pages
  /\ \A r \in Requests : free \cap SetOf(table[r]) = {}
  /\ free \cap SetOf(mapped) = {}
  /\ \A r \in Requests : SetOf(mapped) \cap SetOf(table[r]) = {}
  /\ \A r, q \in Requests : r # q => SetOf(table[r]) \cap SetOf(table[q]) = {}
  /\ NoRepeats(mapped)
  /\ \A r \in Requests : NoRepeats(table[r])

\* A request that is neither new nor finished is in one of the two queues,
\* once, the one its status names; one that is not running holds no page.
\* remove and insert inside the two loops must leave none in both, or in none.
QueuesConsistent ==
  /\ NoRepeats(waiting) /\ NoRepeats(active)
  /\ \A r \in Requests : r \in SetOf(waiting) <=> status[r] = "Waiting"
  /\ \A r \in Requests : r \in SetOf(active) <=> status[r] = "Running"
  /\ \A r \in Requests : status[r] # "Running" => table[r] = <<>>

\* When the batch starts, block_table has an entry for the token each running
\* sequence is about to write: physical_page (batching.rs:28) cannot index
\* past its end, even for a sequence that shares its seq_id with others and
\* so was advanced several times in one step.
NextSlotMapped ==
  phase = "batch" =>
    \A r \in SetOf(active) : numTokens[r] \div PageTokens < Len(table[r])

\* With distinct ids the caller has received, between calls, exactly the
\* tokens every request has generated: preemption and resumption lose and
\* repeat none, and filtering drops none.
TokensDelivered == phase = "idle" => delivered = generated

\* Nothing runs although requests wait: step_forward returns without output,
\* and run_model.rs:63-65 takes that for the end of the work.
Wedged == phase = "batch" /\ active = <<>> /\ waiting # <<>>

\* The tokens a request can have when it last waits for pages, and whether
\* an otherwise empty pool has too few for them and the one page more.
FullLength(r) ==
  promptLen[r] - generated[r] + (IF maxNew[r] = 0 THEN 0 ELSE maxNew[r] - 1)
Oversized(r) == PagesFor(FullLength(r)) + 1 > TotalPages

\* A call leaves nothing running while requests wait only if the one at the
\* head of the queue is oversized: before its end it needs more pages at once
\* than the pool has, if it has to wait for its last token.  Partial promotions,
\* growth and preemption lose no page that a smaller one would need.
StuckOnlyOversized == Wedged => Oversized(Head(waiting))

\* Every call of step_forward returns: neither the promotion loop nor the
\* cleanup loop, which removes from the list it walks, runs for ever.
StepReturns == phase # "idle" ~> phase = "idle"

\* The requests as their callers see them.
Service == INSTANCE GenerationService WITH Quotas <- {sz[2] : sz \in Sizes}
ServiceSpec == Service!Spec
=============================================================================
