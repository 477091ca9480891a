------------------------------- MODULE KvCache -------------------------------
(***************************************************************************)
(* What step_batch (src/src/engine/mod.rs) and flash_attn_paged            *)
(* (src/src/attention/flash_cpu.rs) do to the slab of the page pool, on    *)
(* top of Scheduler.tla, whose StepBatch is here the last of many steps.   *)
(*                                                                         *)
(* For each layer a parallel iterator runs one task per running sequence:  *)
(* the task writes the K and V vectors of the current position and then    *)
(* attends over all positions up to it.  The next layer starts when every  *)
(* task has ended.  The slab is shared by all tasks through a raw pointer. *)
(*                                                                         *)
(* A slot of the slab is identified by page and offset, and holds a tag    *)
(* that says which vectors are in it: <<request, position, layer>>.  The   *)
(* numbers in them, and the heads, are left out (KvLayout.tla has the      *)
(* bytes).  A vector pair is written in one step, which is sound as long   *)
(* as no other task touches its slot meanwhile: TasksDisjoint.             *)
(***************************************************************************)
EXTENDS Scheduler

CONSTANT NumLayers      \* n_layers

ASSUME NumLayersAssumption == NumLayers \in Nat \ {0}

VARIABLES
  slab,     \* [Pages -> [slots -> tag]]
  layer,    \* layer_idx
  task,     \* per request: what its task of this layer does next
  resumed   \* history, per request: num_tokens when it was last promoted

kvars == <<vars, slab, layer, task, resumed>>

Slots == 0 .. (PageTokens - 1)
Zeroed == <<>>          \* the tag of what alloc_zeroed leaves in a slot

KvInit ==
  /\ Init
  /\ slab = [p \in Pages |-> [s \in Slots |-> Zeroed]]
  /\ layer = 0
  /\ task = [r \in Requests |-> "write"]
  /\ resumed = [r \in Requests |-> 0]

-----------------------------------------------------------------------------
\* physical_page and slot_in_page: where position pos of a sequence lives.
\* The layer is no part of the address.
PhysicalPage(r, pos) == table[r][(pos \div PageTokens) + 1]
SlotInPage(pos) == pos % PageTokens
Place(r, pos) == <<PhysicalPage(r, pos), SlotInPage(pos)>>
Entry(r, pos) == slab[PhysicalPage(r, pos)][SlotInPage(pos)]

\* The position a task writes, and the positions it attends over.
WritePos_Last(r) == numTokens[r] - 1    \* fault: the last token, not the next
WritePos(r) == numTokens[r]
KvPositions(r) == 0 .. numTokens[r]     \* n_kv_tokens = num_tokens + 1

WriteKV(r) ==
  /\ phase = "batch"
  /\ r \in SetOf(active)
  /\ task[r] = "write"
  /\ slab' = [slab EXCEPT ![PhysicalPage(r, WritePos(r))][SlotInPage(WritePos(r))] =
                <<r, WritePos(r), layer>>]
  /\ task' = [task EXCEPT ![r] = "attend"]
  /\ UNCHANGED <<vars, layer, resumed>>

\* Reading changes nothing; what it sees is the subject of the properties.
Attend(r) ==
  /\ phase = "batch"
  /\ r \in SetOf(active)
  /\ task[r] = "attend"
  /\ task' = [task EXCEPT ![r] = "done"]
  /\ UNCHANGED <<vars, slab, layer, resumed>>

\* collect() of the parallel iterator.
AllTasksDone_Any == \E r \in SetOf(active) : task[r] = "done"   \* fault: no barrier
AllTasksDone == \A r \in SetOf(active) : task[r] = "done"

\* The loop over 0 .. n_layers; the next step begins with layer 0.
FollowingLayer_Inclusive == (layer + 1) % (NumLayers + 1)    \* fault: 0 ..= n_layers
FollowingLayer == (layer + 1) % NumLayers

NextLayer ==
  /\ phase = "batch"
  /\ active # <<>>
  /\ AllTasksDone
  /\ layer' = FollowingLayer
  /\ task' = [r \in Requests |-> "write"]
  /\ IF layer = NumLayers - 1 THEN StepBatch ELSE UNCHANGED vars
  /\ UNCHANGED <<slab, resumed>>

\* Freeing and taking pages does not touch their contents.
Control ==
  /\ ControlStep
  /\ resumed' = [r \in Requests |->
                  IF status[r] = "Waiting" /\ status'[r] = "Running"
                    THEN numTokens[r] ELSE resumed[r]]
  /\ UNCHANGED <<slab, layer, task>>

KvAddRequest(r) ==
  /\ AddRequest(r)
  /\ UNCHANGED <<slab, layer, task, resumed>>

KvNext ==
  \/ \E r \in Requests : WriteKV(r) \/ Attend(r) \/ KvAddRequest(r)
  \/ NextLayer
  \/ Control

KvSpec == KvInit /\ [][KvNext]_kvars

-----------------------------------------------------------------------------
Tags == (Requests \X Nat \X (0 .. (NumLayers - 1))) \cup {Zeroed}

KvTypeOK ==
  /\ TypeOK
  /\ slab \in [Pages -> [Slots -> Tags]]
  /\ layer \in 0 .. (NumLayers - 1)
  /\ task \in [Requests -> {"write", "attend", "done"}]
  /\ resumed \in [Requests -> Nat]

InTask(r, what) == phase = "batch" /\ r \in SetOf(active) /\ task[r] = what

\* The length of the prompt as it was submitted.
PromptOf(r) == promptLen[r] - generated[r]

\* The unsafe writes through the raw slab pointer race with nothing: while a
\* task may write its slot, no other task of the batch writes or reads it.
TasksDisjoint ==
  \A r, q \in Requests :
    /\ r # q
    /\ InTask(r, "write")
    /\ InTask(q, "write") \/ InTask(q, "attend")
    => \A pos \in KvPositions(q) : Place(r, WritePos(r)) # Place(q, pos)

\* Every position a sequence has written since it was last promoted still
\* holds vectors of that sequence and position when it attends: no page it
\* holds was reused, whatever other sequences were promoted, grown, preempted
\* or finished in between.  The current position holds those of the current
\* layer.  Of which layer the earlier ones are is the subject of LayerKvValid.
RecentPositions(r) == resumed[r] .. numTokens[r]
OwnEntries(r, pos) ==
  {<<r, pos, l>> : l \in IF pos = numTokens[r] THEN {layer} ELSE 0 .. (NumLayers - 1)}

RecentKvIntact ==
  \A r \in Requests : InTask(r, "attend") =>
    \A pos \in RecentPositions(r) : Entry(r, pos) \in OwnEntries(r, pos)

\* "n_kv_tokens: how many KV tokens are valid for this sequence"
\* (attention/flash_cpu.rs:21): the positions a task attends over that the
\* sequence has written since it was last promoted hold the K and V of the
\* layer that attends.
LayerKvValid ==
  \A r \in Requests : InTask(r, "attend") =>
    \A pos \in RecentPositions(r) : Entry(r, pos) = <<r, pos, layer>>

\* By the same line: the positions of the prompt, which are among those a task
\* attends over, hold the sequence's own vectors.
PromptKvValid ==
  \A r \in Requests : InTask(r, "attend") =>
    \A pos \in 0 .. (PromptOf(r) - 1) : Entry(r, pos) = <<r, pos, layer>>
=============================================================================
