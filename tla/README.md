# A TLA+ verification of aegis-inference

This directory holds TLA+ models of aegis-inference, the TLC configurations
that check them on small instances, and proofs checked by TLAPS. Source
paths are relative to `src/`, the copy of the repository; `src/...` below means
`src/src/...` unless it starts with `mesh/`.

Run a model with `tlc -workers 2 -config X.cfg M`, a proof with `tlapm M.tla`.

## 1. The system

Aegis is a CPU inference server for ternary (1.58-bit) language models, and a
separate program that links several machines into a task mesh.

| part | state it keeps | operations | talks to |
|---|---|---|---|
| page pool, `kv_cache/page_pool.rs` | bitmap of free pages in atomic words, a byte slab | `new`, `alloc_page`, `free_page` | called by the scheduler; shared by `Arc` with the engine |
| scheduler, `scheduler/batching.rs` | waiting and active sequences with token counts and block tables | `add_request`, `promote_waiting`, `post_step_cleanup` | takes and frees pages; called by the engine |
| engine, `engine/mod.rs` | model, pool, scheduler | `add_sequence`, `step_forward` (with `step_batch`) | writes K and V to the slab, calls attention and the kernels, applies outputs to sequences by `seq_id` |
| paged attention, `attention/flash_cpu.rs` | none | `flash_attn_paged` | reads the slab through a block table |
| loader, `gguf/parser.rs`, `gguf/weight_loader.rs` | file position, scratch buffer, tensors | `open`, `read_tensor_into`, `load_gguf`, packing of blocks to bit masks | run once by `AegisEngine::new` |
| kernels, `simd/` | the table chosen once, by `dispatch.rs` | `ternary_dot` | called by `ternary_proj_i8` and by the validator |
| validator, `bin/validate_weights.rs` | counters | counts mask bits, compares one row | reads a loaded tensor |
| mesh node, `mesh/src/main.rs` | ledger of pending tasks; gossip state in libp2p | one `select!` loop: terminal, bridge, network | other nodes by gossipsub, found by mDNS; TCP clients |
| driver, `bin/run_model.rs` | turn counter, what it printed | submits one request, calls and prints in a loop | the engine |
| C interface, `ffi.rs` | an engine handle; result arrays and texts, which the host owns | init, add, step, free a batch, free the engine | the engine |
| tokenizer, `tokenizer/mod.rs` | vocabulary, scores, merges | `from_gguf`, `reconstruct_merges_from_scores`, encode, decode | loader, drivers; merging is done by the crate `tokenizers` |

What is hard in it:

* **Concurrency.** `alloc_page` and `free_page` are lock-free and documented
  for concurrent handlers. `step_batch` runs one Rayon task per sequence, and all
  tasks write one slab through a raw pointer. Mesh nodes run asynchronously.
* **Page pressure.** Promotion may run out of pages half way and roll back;
  growth may preempt, inside a loop over the list from which the sequence is
  removed. Preempted sequences keep their counts and lose their pages.
* **Layout.** Three places compute slab addresses independently; blocks, rows
  and pages have different granularities (32 elements, 64 columns, 16 tokens). The
  GGUF header is a walk over values of thirteen widths, where one wrong step
  displaces everything after it.
* **Ending.** A client learns only from an empty batch, or from an empty queue, that
  the work is over; outputs are filtered and sequences removed before it can look.
* **Staleness.** One scratch buffer for all tensors, pages reused with old
  contents, no layer in the address of a slot.
* **Delivery.** Gossip loses what is on its way over a closing connection,
  delivers copies over several peers, and drops messages whose hash it has seen.

What makes each part correct: the pool never gives a page twice nor loses one;
the scheduler accounts for every page and every request, maps the slot a
sequence is about to write, delivers each token once, and gets stuck only behind a
request that can never fit; tasks of a batch do not touch each other's slots and
the cache holds what was written; reader and writer agree on addresses; a loaded
tensor consists of its own bytes; a word is cut as the model was trained to; masks
and products are exact; a caller loses no token and is told when the work is over; a mesh
node runs a task once and its dispatcher hears of it.

`PROJECT.json` lists all components with their status, and the hazards line by
line with the properties aimed at each.

## 2. Modules

| module | models | checked by | proved in |
|---|---|---|---|
| `PageAllocator` | abstract: free and owned pages, atomic | `AllocatorSpec` below | |
| `PagePool` | `page_pool.rs`, one action per atomic access | `PagePoolCalls` | `PagePoolProofs` |
| `PagePoolCalls` | `PagePool` with history of a call, for what `None` means | `MCPagePoolCalls` | `PagePoolProofs` |
| `GenerationService` | abstract: life of a request as its caller sees it | `ServiceSpec` below | |
| `Scheduler` | `batching.rs` and `step_forward` | `MCServing` | `SchedulerProofs` |
| `Serving` | `run_model.rs` and `ffi.rs` with the engine, extends `Scheduler` | `MCServing` | `ServingProofs` |
| `KvCache` | `step_batch`'s parallel tasks and the slab, extends `Scheduler` | `MCKvLayout` | `KvCacheProofs` |
| `KvLayout` | byte addresses of writer and reader, extends `KvCache` | `MCKvLayout` | `KvCacheProofs` |
| `GgufHeader` | the header walk and the metadata look-ups of `parser.rs` | `MCGgufLoad` | `LoadProofs` |
| `Tokenizer` | `tokenizer/mod.rs`: vocabulary, merges, merging of a word | `MCGgufLoad` | `LoadProofs` |
| `GgufLoad` | `load_gguf`, extends `GgufHeader` and `Tokenizer` | `MCGgufLoad` | `LoadProofs` |
| `TernaryWeights` | packing, `dispatch.rs`, `ternary_dot`, `ternary_proj_i8` | `MCTernaryWeights` | `WeightProofs` |
| `WeightValidation` | `validate_weights.rs`, extends `TernaryWeights` | `MCTernaryWeights` | `WeightProofs` |
| `Mesh` | `mesh/src/main.rs` | `MCMesh` | `MeshProofs` |

`CommonLemmas` holds what the proofs share: induction over the naturals and over the
subsets of a finite set, quotients and remainders, sums, greatest and least elements.

Composition: the pool is refined to the allocator; `Scheduler` uses the
allocator's atomic step, because the engine calls the pool from one thread
(`&mut self`) and a single-threaded scan answers `None` exactly when no page is
free and otherwise yields the lowest free page. `KvCache` extends `Scheduler` and
replaces its single `StepBatch` by writes and reads of tasks, layer by layer; it is
proved to implement it. `KvLayout` lets the same tasks store every element at its
byte, so page traffic, tasks and addresses run together and `KvCache`'s
identification of a slot by page and offset is checked rather than assumed.
`Serving` composes the scheduler with the two programs that drive it.
`WeightValidation` reads the masks that `TernaryWeights` packs.

### Pool

`bitmap[w]` is the set of 1-bits of word `w`, named by global index. Actions:
`LoadWord` (the relaxed load), `SkipWord`, `CasSucceeds` and `CasFails` (the weak
exchange), `ScanEnds`, `Return`, `FreePage` (the `fetch_or`). Relaxed and acquire/
release accesses are modelled as sequentially consistent memory. Each word has a single
modification order, which decides who owns a page, but relaxed loads of different words
need not agree on one order, and a `None` answer combines what was read from all of
them. So `NoneMeansExhausted`, which speaks of one instant, is shown for words that act
as one sequentially consistent memory; `NoneMeansEachTaken`, which speaks of each page
for itself, needs the order of one word only. A spurious failure of the weak exchange
leaves everything as it was: a stuttering step, which fairness of the thread's step rules
out for ever.

### Scheduler and service

The variables are the fields of `Scheduler` and `SequenceState`; `phase` and `i` are
the program counter of `step_forward`. `physical_pages` and `block_table` always hold
the same list and are one variable. Of a prompt only its length matters. A batch is one
step here. `delivered` counts what `step_forward` has returned. `GenerationService` sees
only `status`, `maxNew` and `generated`: a request runs, may be suspended and resumed,
and completes exactly when its quota is used; `max_new_tokens = 0` yields one token.

### Serving

`client` chooses who drives the engine: `run_model` or a host behind the C interface.
`pc` is the client's program counter; while it is `called` the engine takes its own
steps. The driver's loop has three exits, all modelled: nothing running (before it
prints), EOS (which sets the counter to the limit), the turn limit. The host adds, steps
and frees the engine when it likes and keeps to the interface's contract. What a client
learns from a call is the set of requests with an output in it (`Outputs`), which
`EmptyBatchMeansDone` relates to what is left in the engine. The arrays and texts a host is
given are its own to free; no state of the engine depends on them, and they are left out.

### Cache and layout

In `KvCache` a slot holds a tag `<<request, position, layer>>`. `task` is the program
counter of each sequence's closure in the parallel iterator, `resumed` a history
variable. A vector pair is written in one step; `TasksDisjoint` is what makes this
sound. In `KvLayout` the write of a task also stores every element of its vectors; a
byte holds the tag of the element stored there. `shape` is chosen once: heads, KV heads,
head dimension.

### Loader and tokenizer

A file is a record of what its writer put into it: key-value pairs with types and
widths, tensor descriptions, a vocabulary, a length. `GgufHeader` moves the position over
it pair by pair and fails where `read_exact` would. A metadata value has a `depth`, the number
of arrays nested in it, and `Values` is the set of values a file may contain: the recursive
functions that size and read a value are functions on that set, which is what lets them be
proved about. In `GgufLoad` an element of a loaded
tensor is the set of file addresses of the bytes it was made from, so stale and stray
bytes are visible. `Elems` multiplies all dimensions, as `tensor_byte_size` does; `Plane`
is what the loop keeps of them, at most two. `embed` is the embedding table, to which every
embedding tensor is appended and which is cut after blocks. Every error exit is an action:
`?` on a short file or an unknown value type, an unknown tensor type, an alignment of 0,
the division by a head count of 0, the assertion on a weight's length, and the exits of
the tokenizer. `Tokenizer` builds the rules (one per token, the first split into two
tokens, none for tokens in angle brackets, ranked by score); the merging of a word by the
crate is external.

### Weights

`TernaryWeights` computes with small integers in place of f16 scales and i8 activations. `tier`
is the kernel table that `dispatch.rs` chose: AVX-512 or the stub, whose product is 0. The rows
of a product are the tensor's own, as at every call of `ternary_proj_i8` with a well-formed
model. `WeightValidation` runs instead of the engine and records a report.

### Mesh

Each arm of `select!` is one action, since an arm runs to its end. gossipsub and mDNS
are external: `publish` fails without peers or for a known id; a new message is
forwarded and queued; `Disconnect` drops what is in flight; gossip's IHAVE/IWANT repair
is left out. Ids stay in the duplicate cache, whose lifetime in libp2p is a
minute. Only one process on a machine can bind the bridge's port, hence `Bridges`.
A terminal may repeat its directive (`MaxTyped` is per node); the ids are then known and
nothing is published. A task's id stands for its data too: the code hashes all of them, so a
bridge that injects a known id with another payload, which it does not do here, would have
it run again. Message variants that are only printed are one `Notice`.

## 3. What TLC checks

| run | instance | states | shows |
|---|---|---|---|
| `pool` | 2 threads, 3 pages, words of 2 bits | 21,686 | types, `ExclusivePages`, refinement to the allocator, lock freedom, meaning of `None` |
| `pool_doc` | 3 threads, 2 pages, words of 1 bit | violation | `None` without an exhausted pool |
| `scheduler` | `MCServing`: 3 requests, sizes (1,10), (9,0), (11,1), the driver's also (4,10), 6 pages of 2 tokens, batch 2, turn limit 10 | 38,939 | page and queue accounting, slots mapped, tokens delivered, refinement to the service, termination of a step, no starvation; an empty batch is the end; the driver's exits |
| `kv_cache` | `MCKvLayout`: 3 requests, 5 pages of 2 tokens, 2 layers, shapes (2,2,2), (1,1,3), (4,2,2), lines of 16 bytes | 33,834 up to symmetry | disjoint tasks, recent positions hold their own vectors, stores whole to the byte, multi-head reads |
| `kv_prompt` | 2 requests, 4 pages, 1 layer, one shape | violation | prompt positions never written |
| `kv_layers` | 2 requests, 4 pages, 2 layers, one shape | violation | earlier positions hold the last layer's vectors |
| `kv_grouped` | as `kv_cache`, 4 heads on 2 KV heads | violation | reader and writer disagree |
| `gguf` | 2,824 files: headers, pairs of tensors of 16 kinds with one to four dimensions, vocabularies with words, whole and cut short | 32,634 | header read to its last byte, complete Q8_0 tensors, words cut right where rules suffice |
| `gguf_f32` | files that differ in header and tensors | violation | F32 tensors are short |
| `weights` | 2 rows of 3 weights, blocks of 2, words of 2, all ternary contents, both tables | 81,648 | masks and products exact, the validator's counts and verdict |
| `mesh` | 3 nodes in a line: one types its directive twice, one signals, one's bridge injects the same task; 1 lost connection | 512,369 | tasks run once, resolved after they ran, come back, stay only if unpublished |
| `mesh_lost` | 2 nodes | violation | a lost task is never retried |

Why the bounds suffice. Pool: the second word and the third page make threads meet in one word,
be in different words, and leave the last word partial. Scheduler: sizes are chosen so that
promotion runs out half way, growth both succeeds and preempts, the batch limit binds, one
request fits an empty pool exactly and two never (one is too large from the start, one outgrows
the pool); three requests give every order of preemption around a third. Page size 2 makes every
other token a boundary. Serving: the turn limit equals the driver's quota, as in the code; calls
that return nothing happen with nothing submitted, with everything finished and with a wedged
queue. Cache: two layers tell "this layer" from "the last one"; shapes with and without padding,
with and without grouped heads; only the shape (2,2,2) is one `MultiHeadReads` speaks of, the
theorem covers the others. Requests are symmetric there: they get distinct ids and the run has no
temporal property. Loader: every metadata type occurs, also nested in arrays; a pair of tensors
is enough for the second to see the first's bytes; shapes with whole blocks, with partial ones
and with a real third dimension; alignments of 0, 16 and 24, head counts of 0 and below; files
end within pairs, within tensors and after them; compounds in every order of scores, also
bracketed ones, words of up to four characters. Weights: a block straddles the two rows, rows are
padded, a column lies in a second word, and the contents are exhaustive. Mesh: in a line the
middle node forwards, so a copy can come back to its author, and dispatcher and bridge send the
same ids from both ends.

`CHECK_DEADLOCK FALSE` stands where the modelled work ends (a file is loaded, a report is
made, all bounded inputs are used up).

### Fairness

* Pool: weak fairness of each thread's step inside `alloc_page`; threads are scheduled by
  the operating system, and a weak exchange does not fail spuriously for ever. As every
  thread goes on, `LockFree` says that they never keep each other retrying; that a thread
  stopped within its call does not hold up the others is not part of it.
* Scheduler: weak fairness of `Serve`. `step_forward` is sequential, `run_model` calls it in
  a loop to the end; a host is assumed to keep stepping its engine until it frees it. Nothing
  makes a host add a sequence or free its engine.
* Mesh: weak fairness of handling a queued event, forwarding a bridge message and of
  arrival; `select!` picks ready arms at random. None of typing, discovery or faults.

### What does not hold

Six documented claims are refuted; the findings in `PROJECT.json` quote them.

1. `alloc_page` may answer `None` with pages free throughout (three threads). Two
   threads cannot provoke it in any pool, and whatever their number each page was in use at
   some instant of the call: both are proved.
2. The prompt is never prefetched into the cache: `add_request` sets `num_tokens` to the
   prompt's length, so the prefill branch of `step_forward` is dead.
3. A layer's keys and values do not survive the step: the address of a slot has no layer
   (`engine/mod.rs:191`), so every layer but the last attends, at all earlier positions, over
   the last layer's vectors. `RecentKvIntact` holds beside it because it asks for vectors of
   the right sequence and position, of any layer.
4. Grouped-query models are read at other addresses than they are written.
5. F32 tensors are read at a quarter of their size.
6. The mesh never reassigns a lost task.

Other statements of the repository are contradicted by the code in ways no run shows:

* `README.md:5` and `README.md:69` speak of AVX2 and NEON; without AVX-512 `simd/dispatch.rs:73`
  installs a stub, every product is 0, and only the validator notices (`ValidatorTellsStub`
  says when).
* "Advances all running sequences by one token" (`engine/mod.rs:91`) is false when two
  sequences share a `seq_id`: outputs go to the first sequence with it.
* "Per-block scales preserved" (`gguf/weight_loader.rs:64`): they are kept, but
  `engine/mod.rs:368` scales a row by its first block's only.
* "Reconstructs SentencePiece BPE merges purely from the bitstream" (`README.md:67`): a token
  has one rule, for its first split (`tokenizer/mod.rs:167`), and one in angle brackets none
  (`tokenizer/mod.rs:155`), so words that SentencePiece derives otherwise fall apart.
  `AsSentencePieceIfRuled` is about the others.

The rest contradicts no document we know of; most of it is listed as a hazard: a preempted sequence
attends over pages it never wrote; `run_model` drops the outputs of its last call and takes a
wedged queue for completion (`DriverStopsRight` says exactly what is lost); an alignment that
is no power of two misplaces the data section; the partial last block of an embedding is
completed from stale bytes, and a third dimension is dropped; a quota of 0 yields one token;
sub-tasks marked `WAITING_ON` are run at once; a directive repeated within the cache's
lifetime, or typed without peers, stays pending for ever.

## 4. What is proved

Every safety property that a passing run checks is a theorem, and so are both refinements. The
proofs are for arbitrary values of the constants, from the named assumptions of the modules
(numbers are naturals, bounds positive, prompts not empty, files well-typed records). A theorem
that needs more says so in its `ASSUME`:

* `MaxBatch <= PageTokens` (16 and 16 in the code): slots, tasks and the cache;
* `DistinctIds`, no two requests share a `seq_id`: who gets which token, who wedges the queue,
  the cache's contents, the empty batch, the driver's exits. With shared ids an output may
  advance another sequence (section 3);
* `AtMostTwo` threads: `NoneIsExhaustion`;
* `NoBridgedResults`, bridges inject no results, as in the run: `ResolvedOnlyAfterRun`;
* `Ternary`, weights in the file are -1, 0 or 1 before scaling, since a mask keeps only the
  sign: `RowsAlwaysExact`.

### Pool: `PagePoolProofs`

* `TypeCorrect`, `Exclusive`, `Implements`. The inductive invariant adds to the types that each
  thread's word copy is a subset of the bits of its word and that the scan index is in range
  while it is used. A successful exchange moves exactly the lowest bit because the word equals
  the copy; `fetch_or` moves one page back. The refinement follows step by step under the
  invariant: the exchange is `Alloc`, the `fetch_or` is `Release`, the rest stutters.
* `NoneIsJustified`, for any number of threads. The invariant says that every page of a word
  already passed, and every page missing from the copy of the current word, is in `taken`.
* `NoneIsExhaustion`, for two threads and words that act as one memory. A page may be freed behind a scan, so
  nothing can be said of one scan alone. `PairInv` says that no free page lies behind both
  scans, and that a scan during which the pool was never exhausted still has a free page ahead.
  A page freed behind one scan is freed by the other thread, whose next scan starts before it.
  If a thread takes the last page ahead of the other, pages free behind the other would be
  behind both: there are none, and the pool is exhausted. A third thread can free a page
  behind both, and the claim fails.

### Scheduler: `SchedulerProofs`

* `TypeCorrect`, `PagesNeverLost`, `QueuesStayConsistent`. The accounting is inductive together
  with the queue invariant: growing or finishing touches a sequence in `active`, which is running
  and the only owner of its table, and a promoted one is waiting and so has an empty table.
* `SlotAlwaysMapped`. `SlotInv` bounds how far a sequence's position may be ahead of its table:
  not at all between calls, by the number of outputs applied so far within one (all of them may
  go to one sequence if ids are shared), and by one page for those the cleanup has still to
  visit. Growing adds one page, so the bound on the batch is exactly what the argument needs.
* `TokensAllDelivered` and `ImplementsService`. `ServiceInv` says that a
  sequence's position always equals the length of its token list, so the prefill branch is dead
  and every output is returned (`PromptConsumed`); that a running sequence has quota left until
  it got its token of this call (`QuotasKept`); and that the tokens counted and not yet returned
  are those of the sequences advanced in this call (`TokensOwed`). Every step then is a step of
  `GenerationService` or a stutter.
* `OnlyOversizedWedges`. If promotion ended with nothing active (`StuckInv`), the attempt failed
  with every page in hand: by the accounting the free pages and those just mapped are all of
  them, and a list of all pages without repetition is as long as the pool (`AllPagesListed`).

### Serving: `ServingProofs`

* `EmptyBatchIsTheEnd`. `BatchInv` follows a call: once its outputs are filtered, a call with
  something running has an output that was not there before, and one that found nothing to run
  has left the queue as `OnlyOversizedWedges` says. That the filter lets the outputs pass rests
  on `PromptConsumed`.
* `DriverAlwaysStopsRight`. `PromotionInv` says what can be under way when a call ends;
  `DriverInv` that the driver's request is alone in the engine and that, until an EOS, each turn
  printed one token. The three exits then leave exactly the losses the property names.

### Cache and layout: `KvCacheProofs`

* `BatchIsOneStep` (layers and tasks implement the scheduler's one step, so all of the above
  holds of `KvCache`), `KvTypeCorrect`, `TasksStayApart` (the slot written lies in the writer's
  own table by `SlotAlwaysMapped`, and no page is in two tables by `PagesNeverLost`), and
  `RecentStaysIntact`: where a sequence wrote since its last promotion, its attention finds
  vectors of that sequence and position, not necessarily of its layer. The invariant follows a
  position through the phases: written by the task of this batch, or written since the last promotion, in a page that stays at
  its index of the table while the sequence runs and that nobody else writes to.
* `StoresAlwaysKept`, for every shape. `LayoutInv` says that each slot's elements are at their
  bytes. It is inductive because an address determines the page, part, slot, head and dimension
  it was computed from: each is a quotient or remainder of a number below its factor.
* `MultiHeadAlwaysReads`. With as many heads as KV heads the reader's address is the writer's,
  and by `RecentStaysIntact` all elements there belong to one vector pair of the sequence and
  position.

### Weights: `WeightProofs`

* `MasksAlwaysExact`. For all rows, columns, blocks and words the masks hold, at the place where
  the kernel looks, exactly the weights packed so far, nothing in the padding, nothing out of
  bounds. It rests on the uniqueness of quotient and remainder, for a row's width in the file and
  in the masks.
* `RowsAlwaysExact`. The kernel's sum over the set bits of a row is the sum over the row's
  weights: the columns are split by sign, and the bits and elements of one sign correspond one to
  one. Sums are compared by induction over the subsets of a finite set.
* `DensityAlwaysExact`, `StubIsTold`, from the same bijection: the validator counts bits where
  the file has weights, and its row equals the reference unless the stub made it zero.

### Loader and tokenizer: `LoadProofs`

* `HeaderAlwaysExact`. The position is 24 plus the running totals of the lengths of pairs and
  tensor descriptions (`HeaderInv`). That a value is read as long as it was written, although the
  reader's widths are not computed from the format's, is proved by well-founded induction on the
  depth of nesting. The mask of the alignment leaves a remainder only for a power of two (proved
  for every exponent), and there is one multiple in reach of the position. A stated head count
  that is a natural number is below the width of the conversion, which so leaves it as it is.
* `Q8AlwaysComplete`. `TensorInv` says that weights already loaded consist of their own bytes,
  and so does the embedding as far as its blocks were read. The assertion on a weight's length
  makes the blocks that are converted the blocks that were read, so bytes of the previous tensor
  do not remain; a weight with a partial block or a real third dimension does not pass it.
* `RuledAsSentencePiece`. `WordInv` says that, if scores are distinct, the pieces are those
  SentencePiece has after as many merges, as long as its derivation uses only merges that have a
  rule (`Follows`): each token from its first split, and none in angle brackets. With distinct scores there is one best merge and both make it.

### Mesh: `MeshProofs`

* `TypeCorrect`, `TaskRunsOnce`, `ResolvedOnlyAfterRun`, for any topology. A message is queued at
  most once because it is in the duplicate cache from then on, and a task that was run is no
  longer queued. A result on its way or queued comes from a node that ran the task; its author
  never receives it back, because it is in the author's own cache.
* `PublishedNeverVanishes`. `QuietInv` says of a node whose connections held: each task it
  published and still awaits is served by a peer linked to it directly, whose copy is on its way
  or queued or whose answer is. It needs no induction over paths: other nodes' copies can come
  first, but a direct peer has always had the task, and its answer goes back over the same link.

### Technique

The library's theorems on sums, well-founded induction and recursive functions take an operator
as a parameter; `CommonLemmas` uses those that can be cited and states the rest about sets and
functions: a set that contains 0 and with `n` also `n + 1` contains every natural number. Each
induction then defines the set of the numbers, or of the subsets, its claim holds of.

### Only model-checked

Everything under fairness, since TLAPS proves no liveness here: `LockFree` of the pool,
`StepReturns` and `AcceptedFinishes` of the scheduler, `DispatchedReturns` of the mesh.

## 5. Not modelled

* Floating point: norms, rotary embedding, softmax, quantisation, logits, argmax.
* Of the tokenizer: cutting a text into words, byte fallback, decoding (an external crate's
  work, or look-ups).
* Ownership at the C interface: result arrays and texts, which a host must free once with the
  count they came with, and the page slab, which `aegis_free` never gives back because
  `PagePool` has no `Drop`. No state of the engine depends on them.
* `architecture.rs`, `lib.rs`: an earlier engine nothing in the current one uses. Its
  `TernaryTensor` computes the stride of a mask by rounding up in one place and down in
  another; only benchmarks use it. `gguf_parser.rs` is not compiled.
* Benchmarks (timing loops over invented masks), the demo (a fixed text), scripts.
* Tensors with a dimension of 0, and products of dimensions beyond 64 bits. Of the five
  hyper-parameters, all but the number of heads, which are looked up alike.
* Overflow of `u32` counters: a sequence would need 2^32 tokens.
* Failures of `aegis_init`, and the assertions on null and UTF-8: they change nothing.

## 6. Plan

Done, in this order: pool and its proofs; scheduler, service and proofs; cache; layout; mesh;
loader; weights; serving (driver and C interface); header, vocabulary and merges; kernel table
and validator; proofs of the service's refinement, of the cache and of the masks; proofs of
every other safety property (two threads' `None`, the wedged queue, serving, addresses, sums
over rows, answers in the mesh, the loader); the empty batch, the layers of the cache, and the
dimensions of tensors.

Left: ids that leave the duplicate cache in `Mesh`, and what then still holds of `RunsOnce`.
