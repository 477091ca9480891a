---------------------------- MODULE KvCacheProofs ----------------------------
(***************************************************************************)
(* Proofs about the slab, for any requests, pool, layers, shapes and page  *)
(* sizes: a batch with its parallel tasks still is a step of the           *)
(* scheduler, the tasks do not touch each other's slots, what a sequence   *)
(* wrote since its last promotion stays; and down to the byte, no store    *)
(* lands outside the slab or on an element of another slot, head,          *)
(* dimension or part, and attention with one KV head per query head finds  *)
(* what was stored.                                                        *)
(***************************************************************************)
EXTENDS KvLayout, SchedulerProofs, CommonLemmas

(***************************************************************************)
(* KvCache implements Scheduler: writing, attending and all layers but the *)
(* last stutter, and the end of the last layer is StepBatch.               *)
(***************************************************************************)
LEMMA KvStepIsStep == [KvNext]_kvars => [Next]_vars
  <1> SUFFICES ASSUME [KvNext]_kvars PROVE [Next]_vars
    OBVIOUS
  <1>1. ASSUME NEW r \in Requests, WriteKV(r) \/ Attend(r) PROVE UNCHANGED vars
    BY <1>1 DEF WriteKV, Attend
  <1>2. ASSUME NEW r \in Requests, KvAddRequest(r) PROVE Next
    BY <1>2 DEF KvAddRequest, Next
  <1>3. CASE NextLayer
    BY <1>3 DEF NextLayer, Next, Step
  <1>4. CASE Control
    BY <1>4 DEF Control, Next, Step
  <1>5. CASE UNCHANGED kvars
    BY <1>5 DEF kvars
  <1> QED BY <1>1, <1>2, <1>3, <1>4, <1>5 DEF KvNext

\* step_batch with its layers and tasks behaves, to the scheduler, as the one
\* step it takes it for.
THEOREM BatchIsOneStep == KvSpec => Spec
  <1>1. KvInit => Init
    BY DEF KvInit
  <1> QED BY <1>1, KvStepIsStep, PTL DEF KvSpec, Spec

\* What the scheduler guarantees the tasks of a batch.
Scheduled == SchedInv /\ NextSlotMapped

LEMMA KvScheduled ==
  ASSUME MaxBatch <= PageTokens
  PROVE  KvSpec => []Scheduled
  BY BatchIsOneStep, SchedulerInvariant, SlotAlwaysMapped, PTL DEF Scheduled

-----------------------------------------------------------------------------
(***************************************************************************)
(* Where positions live.                                                   *)
(***************************************************************************)
HasPage(r, pos) == pos \div PageTokens < Len(table[r])


\* A position with a page lives in one of the pages of its sequence.
LEMMA PlaceFacts ==
  ASSUME TypeOK, NEW r \in Requests, NEW pos \in Nat, HasPage(r, pos)
  PROVE  /\ pos \div PageTokens + 1 \in 1 .. Len(table[r])
         /\ PhysicalPage(r, pos) \in SetOf(table[r])
         /\ PhysicalPage(r, pos) \in Pages
         /\ SlotInPage(pos) \in Slots
  <1>1. table[r] \in Seq(Pages) /\ Len(table[r]) \in Nat
    BY LenProperties DEF TypeOK
  <1>2. pos \div PageTokens \in Nat
    BY DivFacts, PageTokensAssumption
  <1>3. pos \div PageTokens + 1 \in 1 .. Len(table[r])
    BY <1>1, <1>2 DEF HasPage
  <1>4. pos % PageTokens \in 0 .. (PageTokens - 1)
    BY PageTokensAssumption
  <1> QED BY <1>1, <1>3, <1>4, ElementOfSeq DEF PhysicalPage, SlotInPage, Slots, SetOf

\* Positions of different sequences live in different pages.
LEMMA PlacesApart ==
  ASSUME TypeOK, PagesAccounted,
         NEW r \in Requests, NEW q \in Requests, r # q,
         NEW p \in Nat, NEW s \in Nat, HasPage(r, p), HasPage(q, s)
  PROVE  PhysicalPage(r, p) # PhysicalPage(q, s)
  <1>1. PhysicalPage(r, p) \in SetOf(table[r]) /\ PhysicalPage(q, s) \in SetOf(table[q])
    BY PlaceFacts
  <1>2. SetOf(table[r]) \cap SetOf(table[q]) = {}
    BY DEF PagesAccounted
  <1> QED BY <1>1, <1>2

\* Different positions of one sequence live in different slots.
LEMMA SlotsApart ==
  ASSUME TypeOK, PagesAccounted, NEW r \in Requests,
         NEW p \in Nat, NEW s \in Nat, p # s, HasPage(r, p), HasPage(r, s)
  PROVE  PhysicalPage(r, p) # PhysicalPage(r, s) \/ SlotInPage(p) # SlotInPage(s)
  <1>1. CASE p \div PageTokens = s \div PageTokens
    <2>1. p % PageTokens # s % PageTokens
      <3>1. /\ p = PageTokens * (p \div PageTokens) + (p % PageTokens)
            /\ s = PageTokens * (s \div PageTokens) + (s % PageTokens)
        BY PageTokensAssumption
      <3> QED BY <1>1, <3>1
    <2> QED BY <2>1 DEF SlotInPage
  <1>2. CASE p \div PageTokens # s \div PageTokens
    <2>1. /\ p \div PageTokens + 1 \in 1 .. Len(table[r])
          /\ s \div PageTokens + 1 \in 1 .. Len(table[r])
      BY PlaceFacts
    <2>2. p \div PageTokens + 1 # s \div PageTokens + 1
      BY <1>2, DivFacts, PageTokensAssumption
    <2>3. NoRepeats(table[r])
      BY DEF PagesAccounted
    <2> QED BY <2>1, <2>2, <2>3 DEF NoRepeats, PhysicalPage
  <1> QED BY <1>1, <1>2

-----------------------------------------------------------------------------
LEMMA RunningInBatch ==
  ASSUME Scheduled, phase = "batch", NEW r \in SetOf(active)
  PROVE  /\ r \in Requests /\ numTokens[r] \in Nat
         /\ \A pos \in 0 .. numTokens[r] : HasPage(r, pos)
  <1>1. r \in Requests
    BY ElementOfSeq, LenProperties DEF Scheduled, SchedInv, TypeOK, SetOf
  <1>2. numTokens[r] \in Nat /\ Len(table[r]) \in Nat
    BY <1>1, ActiveFacts DEF Scheduled, SchedInv
  <1>3. HasPage(r, numTokens[r])
    BY DEF Scheduled, NextSlotMapped, HasPage
  <1>4. ASSUME NEW pos \in 0 .. numTokens[r] PROVE HasPage(r, pos)
    <2> DEFINE n == numTokens[r]
    <2>1. n \in Nat /\ pos \in Nat /\ pos <= n
      BY <1>2
    <2>2. n \div PageTokens < Len(table[r])
      BY <1>3 DEF HasPage
    <2> HIDE DEF n
    <2>3. n \div PageTokens \in Nat
      BY <2>1, DivFacts, PageTokensAssumption
    <2>4. pos \div PageTokens \in Nat /\ pos \div PageTokens <= n \div PageTokens
      BY <2>1, DivMonotone
    <2> DEFINE d == n \div PageTokens
               e == pos \div PageTokens
    <2>5. d \in Nat /\ e \in Nat /\ e <= d /\ d < Len(table[r])
      BY <2>2, <2>3, <2>4
    <2>6. HasPage(r, pos) <=> e < Len(table[r])
      BY DEF HasPage
    <2> HIDE DEF d, e
    <2> QED BY <1>2, <2>5, <2>6
  <1> QED BY <1>1, <1>2, <1>4

\* The unsafe parallel writes of step_batch race with nothing: no task reads
\* or writes the slot that another one may be writing.
THEOREM TasksStayApart ==
  ASSUME MaxBatch <= PageTokens
  PROVE  KvSpec => []TasksDisjoint
  <1>1. Scheduled => TasksDisjoint
    <2> SUFFICES ASSUME Scheduled, NEW r \in Requests, NEW q \in Requests, r # q,
                        InTask(r, "write"),
                        InTask(q, "write") \/ InTask(q, "attend"),
                        NEW pos \in KvPositions(q)
                 PROVE  Place(r, WritePos(r)) # Place(q, pos)
      BY DEF TasksDisjoint
    <2>1. phase = "batch" /\ r \in SetOf(active) /\ q \in SetOf(active)
      BY DEF InTask
    <2>2. numTokens[r] \in Nat /\ HasPage(r, numTokens[r])
      BY <2>1, RunningInBatch
    <2>3. pos \in Nat /\ HasPage(q, pos)
      BY <2>1, RunningInBatch DEF KvPositions
    <2>4. PhysicalPage(r, numTokens[r]) # PhysicalPage(q, pos)
      BY <2>2, <2>3, PlacesApart DEF Scheduled, SchedInv
    <2> QED BY <2>4 DEF Place, WritePos
  <1> QED BY <1>1, KvScheduled, PTL

-----------------------------------------------------------------------------
(***************************************************************************)
(* Types.                                                                  *)
(***************************************************************************)
LEMMA LayerFacts ==
  ASSUME NEW n \in 0 .. (NumLayers - 1)
  PROVE  /\ (n + 1) % NumLayers \in 0 .. (NumLayers - 1)
         /\ n = NumLayers - 1 => (n + 1) % NumLayers = 0
         /\ n # NumLayers - 1 => (n + 1) % NumLayers = n + 1
  BY NumLayersAssumption

LEMMA LastLayer == NumLayers - 1 \in 0 .. (NumLayers - 1) /\ 0 \in 0 .. (NumLayers - 1)
  BY NumLayersAssumption

LEMMA NextKvTypeOK ==
  ASSUME Scheduled, Scheduled', KvTypeOK, [KvNext]_kvars
  PROVE  KvTypeOK'
  <1>1. TypeOK' /\ TypeOK
    BY DEF Scheduled, SchedInv
  <1>2. /\ slab \in [Pages -> [Slots -> Tags]] /\ layer \in 0 .. (NumLayers - 1)
        /\ task \in [Requests -> {"write", "attend", "done"}]
        /\ resumed \in [Requests -> Nat]
    BY DEF KvTypeOK
  <1>3. ASSUME NEW r \in Requests, WriteKV(r) PROVE KvTypeOK'
    <2> DEFINE n == numTokens[r]
               p == PhysicalPage(r, n)
               s == SlotInPage(n)
    <2>1. n \in Nat /\ HasPage(r, n)
      BY <1>3, RunningInBatch DEF WriteKV
    <2>2. <<r, n, layer>> \in Tags
      BY <1>2, <2>1 DEF Tags
    <2>3. slab' = [slab EXCEPT ![p][s] = <<r, n, layer>>]
      BY <1>3 DEF WriteKV, WritePos
    <2> HIDE DEF n, p, s
    <2>4. slab' \in [Pages -> [Slots -> Tags]]
      BY <1>2, <2>2, <2>3
    <2>5. task' \in [Requests -> {"write", "attend", "done"}]
      BY <1>2, <1>3 DEF WriteKV
    <2> QED BY <1>1, <1>2, <1>3, <2>4, <2>5 DEF WriteKV, KvTypeOK, Tags
  <1>4. ASSUME NEW r \in Requests, Attend(r) PROVE KvTypeOK'
    BY <1>1, <1>2, <1>4 DEF Attend, KvTypeOK, Tags
  <1>5. ASSUME NEW r \in Requests, KvAddRequest(r) PROVE KvTypeOK'
    BY <1>1, <1>2, <1>5 DEF KvAddRequest, KvTypeOK, Tags
  <1>6. CASE NextLayer
    <2>1. layer' \in 0 .. (NumLayers - 1)
      BY <1>2, <1>6, LayerFacts DEF NextLayer, FollowingLayer
    <2> QED BY <1>1, <1>2, <1>6, <2>1 DEF NextLayer, KvTypeOK, Tags
  <1>7. CASE Control
    <2>1. resumed' \in [Requests -> Nat]
      BY <1>1, <1>2, <1>7 DEF Control, TypeOK
    <2> QED BY <1>1, <1>2, <1>7, <2>1 DEF Control, KvTypeOK, Tags
  <1>8. CASE UNCHANGED kvars
    BY <1>1, <1>2, <1>8 DEF kvars, KvTypeOK, Tags
  <1> QED BY <1>3, <1>4, <1>5, <1>6, <1>7, <1>8 DEF KvNext

LEMMA InitKvTypeOK == KvInit => KvTypeOK
  <1> SUFFICES ASSUME KvInit PROVE KvTypeOK
    OBVIOUS
  <1>1. TypeOK
    BY InitSchedInv DEF KvInit, SchedInv
  <1> QED BY <1>1, LastLayer DEF KvInit, KvTypeOK, Tags

\* Every slot of the slab holds nothing or the vectors of some request.
THEOREM KvTypeCorrect ==
  ASSUME MaxBatch <= PageTokens
  PROVE  KvSpec => []KvTypeOK
  <1>1. Scheduled /\ Scheduled' /\ KvTypeOK /\ [KvNext]_kvars => KvTypeOK'
    BY NextKvTypeOK
  <1> QED BY <1>1, InitKvTypeOK, KvScheduled, PTL DEF KvSpec

-----------------------------------------------------------------------------
(***************************************************************************)
(* What was written stays.  The invariant follows the position that a      *)
(* batch writes from layer to layer, through the application of outputs,   *)
(* which makes it one of the recent positions, and every change of tables. *)
(***************************************************************************)
Kept(r, pos) == HasPage(r, pos) /\ Entry(r, pos) = <<r, pos, NumLayers - 1>>

RecentsKept ==
  \A r \in SetOf(active) : \A pos \in Nat :
    resumed[r] <= pos /\ pos < numTokens[r] => Kept(r, pos)

CurrentWritten ==
  phase = "batch" =>
    \A r \in SetOf(active) :
      task[r] # "write" => Entry(r, numTokens[r]) = <<r, numTokens[r], layer>>

\* The positions of the outputs not yet applied.
UnappliedKept ==
  phase = "apply" =>
    \A k \in 1 .. Len(active) : i <= k => Kept(active[k], numTokens[active[k]])

AtRest ==
  phase # "batch" \/ active = <<>> =>
    layer = 0 /\ \A r \in Requests : task[r] = "write"

RecentInv == RecentsKept /\ CurrentWritten /\ UnappliedKept /\ AtRest

\* A position stays where it is while its table is only extended.
LEMMA KeptStays ==
  ASSUME TypeOK, NEW r \in Requests, NEW pos \in Nat, Kept(r, pos), slab' = slab,
         \/ table'[r] = table[r]
         \/ \E p \in Pages : table'[r] = Append(table[r], p)
  PROVE  Kept(r, pos)'
  <1> DEFINE k == pos \div PageTokens + 1
  <1>1. table[r] \in Seq(Pages) /\ Len(table[r]) \in Nat
    BY LenProperties DEF TypeOK
  <1>2. k \in 1 .. Len(table[r])
    BY PlaceFacts DEF Kept
  <1>3. table'[r][k] = table[r][k] /\ Len(table[r]) <= Len(table'[r]) /\ Len(table'[r]) \in Nat
    <2>1. CASE table'[r] = table[r]
      BY <1>1, <2>1
    <2>2. CASE \E p \in Pages : table'[r] = Append(table[r], p)
      BY <1>1, <1>2, <2>2, AppendProperties
    <2> QED BY <2>1, <2>2
  <1>4. HasPage(r, pos)'
    <2>1. pos \div PageTokens \in Nat
      BY DivFacts, PageTokensAssumption
    <2> QED BY <1>1, <1>3, <2>1 DEF Kept, HasPage
  <1>5. Entry(r, pos)' = Entry(r, pos)
    BY <1>3 DEF Entry, PhysicalPage
  <1> QED BY <1>4, <1>5 DEF Kept

\* A task that writes its slot overwrites no other position in use.
LEMMA WriteKeepsOthers ==
  ASSUME Scheduled, KvTypeOK, NEW r \in Requests, WriteKV(r)
  PROVE  /\ Entry(r, numTokens[r])' = <<r, numTokens[r], layer>>
         /\ \A q \in Requests : \A pos \in Nat :
              HasPage(q, pos) /\ (q # r \/ pos # numTokens[r])
                => Entry(q, pos)' = Entry(q, pos)
  <1> DEFINE n == numTokens[r]
             p == PhysicalPage(r, n)
             s == SlotInPage(n)
  <1>1. /\ TypeOK /\ PagesAccounted /\ slab \in [Pages -> [Slots -> Tags]]
        /\ n \in Nat /\ HasPage(r, n)
    BY RunningInBatch DEF WriteKV, Scheduled, SchedInv, KvTypeOK
  <1>2. p \in Pages /\ s \in Slots
    BY <1>1, PlaceFacts
  <1>3. /\ slab' = [slab EXCEPT ![p][s] = <<r, n, layer>>]
        /\ table' = table /\ numTokens' = numTokens
    BY DEF WriteKV, WritePos, vars, tokens
  <1>4. Entry(r, n)' = <<r, n, layer>>
    <2>1. Entry(r, n)' = slab'[p][s]
      BY <1>3 DEF Entry, PhysicalPage, SlotInPage
    <2> HIDE DEF p, s
    <2> QED BY <1>1, <1>2, <1>3, <2>1
  <1>5. ASSUME NEW q \in Requests, NEW pos \in Nat, HasPage(q, pos), q # r \/ pos # n
        PROVE  Entry(q, pos)' = Entry(q, pos)
    <2> DEFINE pp == PhysicalPage(q, pos)
               ss == SlotInPage(pos)
    <2>1. pp # p \/ ss # s
      <3>1. CASE q # r
        BY <1>1, <1>5, <3>1, PlacesApart
      <3>2. CASE q = r
        BY <1>1, <1>5, <3>2, SlotsApart
      <3> QED BY <3>1, <3>2
    <2>2. pp \in Pages /\ ss \in Slots
      BY <1>1, <1>5, PlaceFacts
    <2>3. Entry(q, pos)' = slab'[pp][ss] /\ Entry(q, pos) = slab[pp][ss]
      BY <1>3 DEF Entry, PhysicalPage
    <2> HIDE DEF p, s, pp, ss
    <2> QED BY <1>1, <1>2, <1>3, <2>1, <2>2, <2>3
  <1> QED BY <1>4, <1>5

LEMMA ActiveRequests ==
  ASSUME TypeOK
  PROVE  /\ SetOf(active) \subseteq Requests
         /\ \A k \in 1 .. Len(active) : active[k] \in SetOf(active)
  <1>1. \A k \in 1 .. Len(active) : active[k] \in Requests
    BY ActiveFacts
  <1> QED BY <1>1 DEF SetOf

LEMMA WriteKeepsRecent ==
  ASSUME Scheduled, KvTypeOK, RecentInv, NEW r \in Requests, WriteKV(r)
  PROVE  RecentInv'
  <1>1. /\ UNCHANGED <<vars, layer, resumed>> /\ phase = "batch" /\ r \in SetOf(active)
        /\ task' = [task EXCEPT ![r] = "attend"]
    BY DEF WriteKV
  <1>2. /\ table' = table /\ numTokens' = numTokens /\ active' = active
        /\ phase' = phase /\ layer' = layer /\ resumed' = resumed /\ i' = i
    BY <1>1 DEF vars, tokens, queues
  <1>3. SetOf(active) \subseteq Requests /\ SetOf(active') = SetOf(active)
    BY <1>2, ActiveRequests DEF Scheduled, SchedInv
  <1>4. RecentsKept'
    <2> SUFFICES ASSUME NEW q \in SetOf(active), NEW pos \in Nat,
                        resumed[q] <= pos, pos < numTokens[q]
                 PROVE  Kept(q, pos)'
      BY <1>2, <1>3 DEF RecentsKept
    <2>1. Kept(q, pos)
      BY DEF RecentInv, RecentsKept
    <2>2. numTokens[q] \in Nat
      BY <1>1, RunningInBatch
    <2>3. Entry(q, pos)' = Entry(q, pos)
      BY <1>3, <2>1, <2>2, WriteKeepsOthers DEF Kept
    <2> QED BY <1>2, <2>1, <2>3 DEF Kept, HasPage
  <1>5. CurrentWritten'
    <2> SUFFICES ASSUME NEW q \in SetOf(active), task'[q] # "write"
                 PROVE  Entry(q, numTokens[q])' = <<q, numTokens[q], layer>>
      BY <1>2, <1>3 DEF CurrentWritten
    <2>1. CASE q = r
      BY <2>1, WriteKeepsOthers
    <2>2. CASE q # r
      <3>1. numTokens[q] \in Nat /\ HasPage(q, numTokens[q])
        BY <1>1, RunningInBatch
      <3>2. Entry(q, numTokens[q])' = Entry(q, numTokens[q])
        BY <1>2, <1>3, <2>2, <3>1, WriteKeepsOthers DEF Entry, PhysicalPage
      <3>3. task[q] # "write"
        BY <1>1, <1>3, <2>2 DEF KvTypeOK
      <3> QED BY <1>1, <3>2, <3>3 DEF RecentInv, CurrentWritten
    <2> QED BY <2>1, <2>2
  <1>6. UnappliedKept'
    BY <1>1, <1>2 DEF UnappliedKept
  <1>7. AtRest'
    <2>1. active # <<>>
      BY <1>1 DEF SetOf
    <2> QED BY <1>1, <1>2, <2>1 DEF AtRest
  <1> QED BY <1>4, <1>5, <1>6, <1>7 DEF RecentInv

LEMMA AttendKeepsRecent ==
  ASSUME Scheduled, KvTypeOK, RecentInv, NEW r \in Requests, Attend(r)
  PROVE  RecentInv'
  <1>1. /\ UNCHANGED <<vars, slab, layer, resumed>> /\ phase = "batch"
        /\ r \in SetOf(active) /\ task[r] = "attend"
        /\ task' = [task EXCEPT ![r] = "done"]
    BY DEF Attend
  <1>2. /\ table' = table /\ numTokens' = numTokens /\ active' = active
        /\ phase' = phase /\ layer' = layer /\ resumed' = resumed /\ slab' = slab
    BY <1>1 DEF vars, tokens, queues
  <1>3. active # <<>> /\ \A q \in Requests : task'[q] # "write" => task[q] # "write"
    BY <1>1 DEF SetOf, KvTypeOK
  <1>4. RecentsKept'
    BY <1>2 DEF RecentInv, RecentsKept, Kept, HasPage, Entry, PhysicalPage
  <1>5. CurrentWritten'
    BY <1>1, <1>2, <1>3, ActiveRequests
       DEF RecentInv, CurrentWritten, Entry, PhysicalPage, Scheduled, SchedInv
  <1> QED BY <1>1, <1>2, <1>3, <1>4, <1>5 DEF RecentInv, UnappliedKept, AtRest

\* The end of a layer; that of the last one turns the positions written into
\* those of outputs to be applied.
LEMMA LayerKeepsRecent ==
  ASSUME Scheduled, KvTypeOK, RecentInv, NextLayer
  PROVE  RecentInv'
  <1>1. /\ phase = "batch" /\ active # <<>> /\ \A r \in SetOf(active) : task[r] = "done"
        /\ layer' = (layer + 1) % NumLayers
        /\ task' = [r \in Requests |-> "write"]
        /\ slab' = slab /\ resumed' = resumed
        /\ table' = table /\ numTokens' = numTokens /\ active' = active
    BY DEF NextLayer, FollowingLayer, AllTasksDone, StepBatch, vars, tokens, queues
  <1>2. SetOf(active) \subseteq Requests
    BY ActiveRequests DEF Scheduled, SchedInv
  <1>3. RecentsKept'
    BY <1>1 DEF RecentInv, RecentsKept, Kept, HasPage, Entry, PhysicalPage
  <1>4. CurrentWritten'
    BY <1>1, <1>2 DEF CurrentWritten
  <1>5. CASE layer # NumLayers - 1
    <2>1. phase' = "batch"
      BY <1>1, <1>5 DEF NextLayer, FollowingLayer, vars
    <2> QED BY <1>1, <1>3, <1>4, <2>1 DEF RecentInv, UnappliedKept, AtRest
  <1>6. CASE layer = NumLayers - 1
    <2>1. phase' = "apply" /\ layer' = 0
      BY <1>1, <1>6, LayerFacts DEF NextLayer, FollowingLayer, StepBatch, KvTypeOK
    <2>2. ASSUME NEW k \in 1 .. Len(active)
          PROVE  Kept(active[k], numTokens[active[k]])
      <3> DEFINE r == active[k]
      <3>1. r \in SetOf(active)
        BY ActiveRequests DEF Scheduled, SchedInv
      <3> HIDE DEF r
      <3>2. HasPage(r, numTokens[r])
        BY <1>1, <3>1, RunningInBatch
      <3>3. Entry(r, numTokens[r]) = <<r, numTokens[r], NumLayers - 1>>
        BY <1>1, <1>6, <3>1 DEF RecentInv, CurrentWritten
      <3>4. Kept(r, numTokens[r])
        BY <3>2, <3>3 DEF Kept
      <3> QED BY <3>4 DEF r
    <2>3. UnappliedKept'
      BY <1>1, <2>2 DEF UnappliedKept, Kept, HasPage, Entry, PhysicalPage
    <2> QED BY <1>1, <1>3, <1>4, <2>1, <2>3 DEF RecentInv, AtRest
  <1> QED BY <1>5, <1>6

-----------------------------------------------------------------------------
(***************************************************************************)
(* The scheduler's own steps.                                              *)
(***************************************************************************)

\* In the steps outside the batch only a promoted request gets a new
\* beginning of its recent positions.
LEMMA ResumedOnlyPromoted ==
  ASSUME Scheduled, KvTypeOK, Control, NEW r \in Requests
  PROVE  /\ slab' = slab /\ layer' = layer /\ task' = task
         /\ status[r] = "Running" => resumed'[r] = resumed[r]
         /\ status[r] = "Waiting" /\ status'[r] = "Running" => resumed'[r] = numTokens[r]
         /\ ~ (status[r] = "Waiting" /\ status'[r] = "Running") => resumed'[r] = resumed[r]
  BY DEF Control, KvTypeOK

\* Steps that change neither a table nor a count nor who runs.
LEMMA IdleKeepsRecent ==
  ASSUME Scheduled, KvTypeOK, RecentInv, Control,
         UNCHANGED <<active, table, numTokens>>,
         phase' = "batch" => phase = "promote",
         phase' = "apply" => FALSE,
         phase = "batch" => active = <<>>
  PROVE  RecentInv'
  <1>1. SetOf(active) \subseteq Requests
    BY ActiveRequests DEF Scheduled, SchedInv
  <1>2. \A r \in SetOf(active) : resumed'[r] = resumed[r]
    BY <1>1, ResumedOnlyPromoted DEF Scheduled, SchedInv, QueuesConsistent
  <1>3. slab' = slab /\ layer' = layer /\ task' = task
    BY DEF Control
  <1>4. RecentsKept'
    BY <1>2, <1>3 DEF RecentInv, RecentsKept, Kept, HasPage, Entry, PhysicalPage
  <1>5. layer = 0 /\ \A r \in Requests : task[r] = "write"
    BY DEF RecentInv, AtRest
  <1>6. CurrentWritten' /\ UnappliedKept' /\ AtRest'
    BY <1>1, <1>3, <1>5 DEF CurrentWritten, UnappliedKept, AtRest
  <1> QED BY <1>4, <1>6 DEF RecentInv

LEMMA PromoteKeepsRecent ==
  ASSUME Scheduled, KvTypeOK, RecentInv, Control, Promote
  PROVE  RecentInv'
  <1> DEFINE r == Head(waiting)
  <1>1. /\ waiting # <<>> /\ phase = "promote" /\ phase' = "promote"
        /\ active' = Append(active, r) /\ numTokens' = numTokens
        /\ status' = [status EXCEPT ![r] = "Running"]
        /\ table' = [table EXCEPT ![r] = mapped]
    BY DEF Promote, CanPromote, tokens
  <1>2. /\ TypeOK /\ QueuesConsistent /\ SetOf(active) \subseteq Requests
        /\ slab' = slab /\ layer' = layer /\ task' = task
    BY ActiveRequests DEF Scheduled, SchedInv, Control
  <1>3. r \in Requests /\ status[r] = "Waiting"
    BY <1>1, <1>2, HeadFacts
  <1> HIDE DEF r
  <1>4. SetOf(active') = SetOf(active) \cup {r}
    <2>1. active \in Seq(Requests)
      BY <1>2 DEF TypeOK
    <2> QED BY <1>1, <1>3, <2>1, AppendSet
  <1>5. RecentsKept'
    <2> SUFFICES ASSUME NEW q \in SetOf(active'), NEW pos \in Nat,
                        resumed'[q] <= pos, pos < numTokens[q]
                 PROVE  Kept(q, pos)'
      BY <1>1 DEF RecentsKept
    <2>1. q # r
      <3>1. status'[r] = "Running"
        BY <1>1, <1>2, <1>3 DEF TypeOK
      <3>2. resumed'[r] = numTokens[r]
        BY <1>3, <3>1, ResumedOnlyPromoted
      <3>3. numTokens[r] \in Nat
        BY <1>2, <1>3 DEF TypeOK
      <3> QED BY <3>2, <3>3
    <2>2. q \in SetOf(active) /\ q \in Requests /\ status[q] = "Running"
      BY <1>2, <1>4, <2>1 DEF QueuesConsistent
    <2>3. resumed'[q] = resumed[q]
      BY <2>2, ResumedOnlyPromoted
    <2>4. Kept(q, pos)
      BY <2>2, <2>3 DEF RecentInv, RecentsKept
    <2>5. table'[q] = table[q]
      BY <1>1, <1>2, <2>1, <2>2 DEF TypeOK
    <2> QED BY <1>2, <2>2, <2>4, <2>5, KeptStays
  <1>6. CurrentWritten' /\ UnappliedKept' /\ AtRest'
    BY <1>1, <1>2 DEF RecentInv, CurrentWritten, UnappliedKept, AtRest
  <1> QED BY <1>5, <1>6 DEF RecentInv

\* Finishing, growing and preempting leave the other sequences alone.
LEMMA CleanupKeepsRecent ==
  ASSUME Scheduled, KvTypeOK, RecentInv, Control, Finish \/ Grow \/ Preempt
  PROVE  RecentInv'
  <1>1. /\ InCleanup /\ phase = "cleanup" /\ phase' = "cleanup"
        /\ numTokens' = numTokens
    BY DEF Finish, Grow, Preempt, InCleanup, tokens
  <1>2. /\ TypeOK /\ QueuesConsistent /\ SetOf(active) \subseteq Requests
        /\ slab' = slab /\ layer' = layer /\ task' = task
    BY ActiveRequests DEF Scheduled, SchedInv, Control
  <1>3. Current \in Requests
    BY <1>1, <1>2, CurrentFacts
  <1>4. \A q \in SetOf(active') :
          /\ q \in SetOf(active)
          /\ \/ table'[q] = table[q]
             \/ \E p \in Pages : table'[q] = Append(table[q], p)
    <2>1. CASE Finish \/ Preempt
      <3>1. /\ active' = RemoveIndex(active, i)
            /\ table' = [table EXCEPT ![Current] = <<>>]
        BY <2>1 DEF Finish, Preempt, ReleasePages
      <3>2. SetOf(active') = SetOf(active) \ {Current}
        BY <1>1, <1>2, <3>1, RemovalFacts
      <3> QED BY <1>2, <3>1, <3>2 DEF TypeOK
    <2>2. CASE Grow
      <3>1. PICK p \in Pages : table' = [table EXCEPT ![Current] = Append(@, p)]
        BY <2>2 DEF Grow
      <3>2. active' = active
        BY <2>2 DEF Grow, queues
      <3>3. \A q \in Requests : table'[q] = IF q = Current THEN Append(table[q], p) ELSE table[q]
        BY <1>2, <3>1 DEF TypeOK
      <3> QED BY <1>2, <3>2, <3>3
    <2> QED BY <2>1, <2>2
  <1>5. RecentsKept'
    <2> SUFFICES ASSUME NEW q \in SetOf(active'), NEW pos \in Nat,
                        resumed'[q] <= pos, pos < numTokens[q]
                 PROVE  Kept(q, pos)'
      BY <1>1 DEF RecentsKept
    <2>1. q \in SetOf(active) /\ q \in Requests /\ status[q] = "Running"
      BY <1>2, <1>4 DEF QueuesConsistent
    <2>2. resumed'[q] = resumed[q]
      BY <2>1, ResumedOnlyPromoted
    <2>3. Kept(q, pos)
      BY <2>1, <2>2 DEF RecentInv, RecentsKept
    <2> QED BY <1>2, <1>4, <2>1, <2>3, KeptStays
  <1>6. CurrentWritten' /\ UnappliedKept' /\ AtRest'
    BY <1>1, <1>2 DEF RecentInv, CurrentWritten, UnappliedKept, AtRest
  <1> QED BY <1>5, <1>6 DEF RecentInv

\* Applying output i of a batch of distinct ids advances the sequence that
\* produced it, over the position it has just written.
LEMMA ApplyKeepsRecent ==
  ASSUME DistinctIds, Scheduled, KvTypeOK, RecentInv, Control, ApplyOutput
  PROVE  RecentInv'
  <1>1. /\ phase = "apply" /\ phase' = "apply" /\ i <= Len(active) /\ i' = i + 1
        /\ active' = active /\ table' = table /\ status' = status
    BY DEF ApplyOutput, queues
  <1>2. /\ TypeOK /\ QueuesConsistent /\ SetOf(active) \subseteq Requests
        /\ slab' = slab /\ layer' = layer /\ task' = task
    BY ActiveRequests DEF Scheduled, SchedInv, Control
  <1>3. Len(active) \in Nat /\ i \in 1 .. Len(active)
    BY <1>1, <1>2, LenProperties DEF TypeOK
  <1> DEFINE r == active[i]
  <1>4. r \in SetOf(active) /\ r \in Requests /\ numTokens[r] \in Nat
    BY <1>2, <1>3, ActiveFacts DEF SetOf
  <1>5. numTokens' = [numTokens EXCEPT ![r] = @ + 1]
    <2>1. PICK q \in Requests : /\ IsFirstWithId(q, SeqIdOf[active[i]])
                                /\ numTokens' = [numTokens EXCEPT ![q] = @ + 1]
      BY DEF ApplyOutput
    <2>2. q = r
      BY <1>4, <2>1 DEF IsFirstWithId, DistinctIds
    <2> QED BY <2>1, <2>2
  <1>6. Kept(r, numTokens[r])
    BY <1>1, <1>3 DEF RecentInv, UnappliedKept
  <1> HIDE DEF r
  <1>7. \A q \in Requests : /\ numTokens[q] \in Nat
                            /\ numTokens'[q] = IF q = r THEN numTokens[q] + 1 ELSE numTokens[q]
    BY <1>2, <1>4, <1>5 DEF TypeOK
  <1>8. RecentsKept'
    <2> SUFFICES ASSUME NEW q \in SetOf(active), NEW pos \in Nat,
                        resumed'[q] <= pos, pos < numTokens'[q]
                 PROVE  Kept(q, pos)'
      BY <1>1 DEF RecentsKept
    <2>1. q \in Requests /\ resumed'[q] = resumed[q] /\ status[q] = "Running"
      BY <1>2, ResumedOnlyPromoted DEF QueuesConsistent
    <2>2. Kept(q, pos)
      <3>1. CASE q = r /\ pos = numTokens[r]
        BY <1>6, <3>1
      <3>2. CASE ~ (q = r /\ pos = numTokens[r])
        <4>1. pos < numTokens[q]
          BY <1>7, <2>1, <3>2
        <4> QED BY <2>1, <4>1 DEF RecentInv, RecentsKept
      <3> QED BY <3>1, <3>2
    <2> QED BY <1>1, <1>2, <2>1, <2>2, KeptStays
  <1>9. UnappliedKept'
    <2> SUFFICES ASSUME NEW k \in 1 .. Len(active), i + 1 <= k
                 PROVE  Kept(active[k], numTokens[active[k]])'
      BY <1>1 DEF UnappliedKept
    <2>1. PICK q \in Requests : q = active[k]
      BY <1>2, ActiveFacts
    <2>2. PICK n \in Nat : n = numTokens[q]
      BY <1>7
    <2>3. q # r
      <3>1. NoRepeats(active) /\ k # i
        BY <1>2, <1>3 DEF QueuesConsistent
      <3> QED BY <1>2, <1>3, <2>1, <3>1 DEF NoRepeats, r
    <2>4. Kept(q, n)
      BY <1>1, <1>3, <2>1, <2>2 DEF RecentInv, UnappliedKept
    <2>5. Kept(q, n)'
      BY <1>1, <1>2, <2>4, KeptStays
    <2>6. active'[k] = q /\ numTokens'[q] = n
      BY <1>1, <1>7, <2>1, <2>2, <2>3
    <2> QED BY <2>5, <2>6 DEF Kept, HasPage, Entry, PhysicalPage
  <1>10. CurrentWritten' /\ AtRest'
    BY <1>1, <1>2 DEF RecentInv, CurrentWritten, AtRest
  <1> QED BY <1>8, <1>9, <1>10 DEF RecentInv

\* A new request is in no batch.
LEMMA AddKeepsRecent ==
  ASSUME Scheduled, KvTypeOK, RecentInv, NEW r \in Requests, KvAddRequest(r)
  PROVE  RecentInv'
  <1>1. PICK sz \in Sizes :
          /\ phase = "idle" /\ phase' = phase /\ status[r] = "New"
          /\ numTokens' = [numTokens EXCEPT ![r] = sz[1]]
          /\ active' = active /\ table' = table
          /\ slab' = slab /\ layer' = layer /\ task' = task /\ resumed' = resumed
    BY DEF KvAddRequest, AddRequest, StartTokens
  <1>2. \A q \in SetOf(active) : q \in Requests /\ q # r
    BY <1>1, ActiveRequests DEF Scheduled, SchedInv, QueuesConsistent
  <1>3. \A q \in SetOf(active) : numTokens'[q] = numTokens[q]
    BY <1>1, <1>2 DEF Scheduled, SchedInv, TypeOK
  <1>4. RecentsKept'
    BY <1>1, <1>3 DEF RecentInv, RecentsKept, Kept, HasPage, Entry, PhysicalPage
  <1>5. CurrentWritten' /\ UnappliedKept' /\ AtRest'
    BY <1>1 DEF RecentInv, CurrentWritten, UnappliedKept, AtRest
  <1> QED BY <1>4, <1>5 DEF RecentInv

LEMMA ControlKeepsRecent ==
  ASSUME DistinctIds, Scheduled, KvTypeOK, RecentInv, Control
  PROVE  RecentInv'
  <1>1. CASE CallStep
    BY <1>1, IdleKeepsRecent DEF CallStep, queues, tokens
  <1>2. CASE MapPage
    BY <1>2, IdleKeepsRecent DEF MapPage, queues, tokens
  <1>3. CASE PromoteOom
    BY <1>3, IdleKeepsRecent DEF PromoteOom, AfterOom, queues, tokens
  <1>4. CASE PromoteDone
    BY <1>4, IdleKeepsRecent DEF PromoteDone, queues, tokens
  <1>5. CASE NothingRunning
    BY <1>5, IdleKeepsRecent DEF NothingRunning, queues, tokens
  <1>6. CASE FilterOutputs
    BY <1>6, IdleKeepsRecent DEF FilterOutputs, queues, tokens
  <1>7. CASE Keep
    BY <1>7, IdleKeepsRecent DEF Keep, InCleanup, queues, tokens
  <1>8. CASE CleanupDone
    BY <1>8, IdleKeepsRecent DEF CleanupDone, queues, tokens
  <1>9. CASE Promote
    BY <1>9, PromoteKeepsRecent
  <1>10. CASE ApplyOutput
    BY <1>10, ApplyKeepsRecent
  <1>11. CASE Finish \/ Grow \/ Preempt
    BY <1>11, CleanupKeepsRecent
  <1> QED BY <1>1, <1>2, <1>3, <1>4, <1>5, <1>6, <1>7, <1>8, <1>9, <1>10, <1>11
          DEF Control, ControlStep, PromoteStep, CleanupStep

LEMMA NextRecentInv ==
  ASSUME DistinctIds, Scheduled, KvTypeOK, RecentInv, [KvNext]_kvars
  PROVE  RecentInv'
  <1>1. CASE UNCHANGED kvars
    BY <1>1 DEF kvars, vars, queues, tokens, RecentInv, RecentsKept, CurrentWritten,
                UnappliedKept, AtRest, Kept, HasPage, Entry, PhysicalPage
  <1> QED BY <1>1, WriteKeepsRecent, AttendKeepsRecent, AddKeepsRecent,
             LayerKeepsRecent, ControlKeepsRecent DEF KvNext

LEMMA InitRecentInv == KvInit => RecentInv
  <1> SUFFICES ASSUME KvInit PROVE RecentInv
    OBVIOUS
  <1>1. SetOf(active) = {} /\ phase = "idle"
    BY DEF KvInit, Init, SetOf
  <1>2. layer = 0 /\ \A r \in Requests : task[r] = "write"
    BY DEF KvInit
  <1> QED BY <1>1, <1>2 DEF RecentInv, RecentsKept, CurrentWritten, UnappliedKept, AtRest

\* The invariant while a task attends.
LEMMA RecentInvReads == Scheduled /\ KvTypeOK /\ RecentInv => RecentKvIntact
  <1> SUFFICES ASSUME Scheduled, KvTypeOK, RecentInv,
                      NEW r \in Requests, InTask(r, "attend"),
                      NEW pos \in RecentPositions(r)
               PROVE  Entry(r, pos) \in OwnEntries(r, pos)
    BY DEF RecentKvIntact
  <1>1. phase = "batch" /\ r \in SetOf(active) /\ task[r] = "attend" /\ numTokens[r] \in Nat
    BY RunningInBatch DEF InTask
  <1>2. CASE pos = numTokens[r]
    BY <1>1, <1>2 DEF RecentInv, CurrentWritten, OwnEntries
  <1>3. CASE pos # numTokens[r]
    <2>1. resumed[r] \in Nat
      BY DEF KvTypeOK
    <2>2. pos \in Nat /\ resumed[r] <= pos /\ pos < numTokens[r]
      BY <1>1, <1>3, <2>1 DEF RecentPositions
    <2>3. Entry(r, pos) = <<r, pos, NumLayers - 1>>
      BY <1>1, <1>3, <2>2 DEF RecentInv, RecentsKept, Kept
    <2> QED BY <1>3, <2>3, LastLayer DEF OwnEntries
  <1> QED BY <1>2, <1>3

\* With distinct ids, the positions a sequence has written since it was last
\* promoted hold vectors of that sequence and position when it attends, through
\* any promotions, growth, preemptions and completions of the others.
THEOREM RecentStaysIntact ==
  ASSUME MaxBatch <= PageTokens, DistinctIds
  PROVE  KvSpec => []RecentKvIntact
  <1>1. Scheduled /\ KvTypeOK /\ RecentInv /\ [KvNext]_kvars => RecentInv'
    BY NextRecentInv
  <1> QED BY <1>1, InitRecentInv, RecentInvReads, KvScheduled, KvTypeCorrect, PTL DEF KvSpec

-----------------------------------------------------------------------------
(***************************************************************************)
(* The bytes.                                                              *)
(***************************************************************************)
\* Remainders make a number of their own for each quotient.
LEMMA QuotientBound ==
  ASSUME NEW n \in Nat, NEW d \in Nat, NEW q \in 0 .. (n - 1), NEW r \in 0 .. (d - 1)
  PROVE  q * d \in Nat /\ n * d \in Nat /\ q * d + r \in 0 .. (n * d - 1)
  <1>1. /\ q \in Nat /\ q + 1 \in Nat /\ q + 1 <= n /\ q <= n
    OBVIOUS
  <1>2. q * d \in Nat /\ n * d \in Nat /\ (q + 1) * d <= n * d
    BY <1>1, Times
  <1>3. (q + 1) * d = q * d + d
    BY <1>1
  <1> QED BY <1>2, <1>3

LEMMA RoundUpFacts ==
  ASSUME NEW n \in Nat
  PROVE  RoundUp(n) \in Nat /\ n <= RoundUp(n)
  <1> DEFINE m == n + CacheLine - 1
             q == m \div CacheLine
  <1>1. CacheLine \in Nat \ {0} /\ m \in Nat
    BY CacheLineAssumption
  <1>2. q \in Nat /\ m < CacheLine * q + CacheLine
    <2> HIDE DEF m
    <2> QED BY <1>1, DivFacts
  <1>3. RoundUp(n) = q * CacheLine
    BY DEF RoundUp
  <1> HIDE DEF q
  <1>4. q * CacheLine \in Nat /\ q * CacheLine = CacheLine * q
    BY <1>1, <1>2
  <1> QED BY <1>1, <1>2, <1>3, <1>4

-----------------------------------------------------------------------------
(***************************************************************************)
(* The layout of a page: the slots, in them the heads, in them the         *)
(* dimensions.                                                             *)
(***************************************************************************)
LEMMA ShapeFacts ==
  ASSUME shape \in Shapes
  PROVE  /\ NHeads \in Nat \ {0} /\ NHeadsKv \in Nat \ {0} /\ HeadDim \in Nat \ {0}
  BY ShapesAssumption DEF NHeads, NHeadsKv, HeadDim

\* The elements of the K, or of the V, of a page, and where one is among them.
Half == PageTokens * NHeadsKv * HeadDim
InHalf(slot, h, d) == (slot * NHeadsKv + h) * HeadDim + d

LEMMA InHalfFacts ==
  ASSUME shape \in Shapes, NEW slot \in Slots, NEW h \in KvHeads, NEW d \in Dims
  PROVE  /\ InHalf(slot, h, d) \in 0 .. (Half - 1) /\ Half \in Nat
         /\ \A page \in Nat : WriteK(page, slot, h, d) = page * PageStride + InHalf(slot, h, d)
  <1>1. /\ NHeadsKv \in Nat \ {0} /\ HeadDim \in Nat \ {0} /\ PageTokens \in Nat \ {0}
        /\ slot \in 0 .. (PageTokens - 1) /\ h \in 0 .. (NHeadsKv - 1)
        /\ d \in 0 .. (HeadDim - 1)
    BY ShapeFacts, PageTokensAssumption DEF Slots, KvHeads, Dims
  <1> HIDE DEF NHeadsKv, HeadDim
  <1>2. /\ slot * NHeadsKv \in Nat /\ PageTokens * NHeadsKv \in Nat
        /\ slot * NHeadsKv + h \in 0 .. (PageTokens * NHeadsKv - 1)
    BY <1>1, QuotientBound
  <1> DEFINE a == slot * NHeadsKv
             n == PageTokens * NHeadsKv
  <1>3. a \in Nat /\ n \in Nat /\ a + h \in 0 .. (n - 1)
    BY <1>2
  <1> HIDE DEF a, n
  <1>4. (a + h) * HeadDim + d \in 0 .. (n * HeadDim - 1) /\ n * HeadDim \in Nat
    BY <1>1, <1>3, QuotientBound
  <1>5. /\ a * HeadDim \in Nat /\ h * HeadDim \in Nat /\ h \in Nat
        /\ (a + h) * HeadDim = a * HeadDim + h * HeadDim
    BY <1>1, <1>3
  <1>6. PageStride \in Nat
    <2>1. 2 * PageTokens * NHeadsKv * HeadDim \in Nat
      BY <1>1
    <2> QED BY <2>1, RoundUpFacts DEF PageStride
  <1>7. ASSUME NEW page \in Nat
        PROVE  page * PageStride + a * HeadDim + h * HeadDim + d
                 = page * PageStride + ((a + h) * HeadDim + d)
    <2>1. page * PageStride \in Nat
      BY <1>6
    <2> QED BY <1>1, <1>5, <2>1
  <1> QED BY <1>4, <1>7 DEF InHalf, Half, WriteK, a, n

\* A page has room for both, each in a half of its own.
LEMMA StrideFacts ==
  ASSUME shape \in Shapes
  PROVE  /\ PageStride \in Nat /\ Half \in Nat /\ PageStride \div 2 \in Nat
         /\ Half <= PageStride \div 2
         /\ PageStride \div 2 + Half <= PageStride
         /\ PageStride = 2 * PageTokens * NHeadsKv * HeadDim => PageStride \div 2 = Half
  <1>1. NHeadsKv \in Nat /\ HeadDim \in Nat /\ PageTokens \in Nat
    BY ShapeFacts, PageTokensAssumption
  <1> HIDE DEF NHeadsKv, HeadDim
  <1>2. Half \in Nat /\ 2 * PageTokens * NHeadsKv * HeadDim = 2 * Half
    <2>1. PageTokens * NHeadsKv \in Nat /\ 2 * PageTokens * NHeadsKv = 2 * (PageTokens * NHeadsKv)
      BY <1>1
    <2> DEFINE n == PageTokens * NHeadsKv
    <2>2. n \in Nat /\ 2 * PageTokens * NHeadsKv = 2 * n
      BY <2>1
    <2> HIDE DEF n
    <2>3. (2 * n) * HeadDim = 2 * (n * HeadDim) /\ n * HeadDim \in Nat
      BY <1>1, <2>2
    <2> QED BY <2>2, <2>3 DEF Half, n
  <1>3. PageStride \in Nat /\ 2 * Half <= PageStride
    BY <1>2, RoundUpFacts DEF PageStride
  <1> HIDE DEF Half, PageStride
  <1>4. /\ PageStride \div 2 \in Nat /\ 2 * (PageStride \div 2) <= PageStride
        /\ PageStride < 2 * (PageStride \div 2) + 2
    BY <1>3, DivFacts
  <1> QED BY <1>2, <1>3, <1>4

\* The address of an element of either part.
Address(part, page, slot, h, d) ==
  IF part = "K" THEN WriteK(page, slot, h, d) ELSE WriteV(page, slot, h, d)
Parts == {"K", "V"}

LEMMA AddressFacts ==
  ASSUME shape \in Shapes, NEW part \in Parts, NEW page \in Pages, NEW slot \in Slots,
         NEW h \in KvHeads, NEW d \in Dims
  PROVE  LET at == (IF part = "K" THEN 0 ELSE PageStride \div 2) + InHalf(slot, h, d)
         IN  /\ Address(part, page, slot, h, d) = page * PageStride + at
             /\ at \in 0 .. (PageStride - 1)
             /\ Address(part, page, slot, h, d) \in 0 .. (SlabLen - 1)
  <1> DEFINE b == InHalf(slot, h, d)
             at == (IF part = "K" THEN 0 ELSE PageStride \div 2) + b
  <1>1. /\ page \in Nat /\ page \in 0 .. (TotalPages - 1) /\ TotalPages \in Nat
        /\ b \in 0 .. (Half - 1) /\ WriteK(page, slot, h, d) = page * PageStride + b
        /\ PageStride \in Nat /\ Half \in Nat /\ PageStride \div 2 \in Nat
        /\ Half <= PageStride \div 2 /\ PageStride \div 2 + Half <= PageStride
    BY InHalfFacts, StrideFacts, TotalPagesAssumption DEF Pages
  <1> HIDE DEF b
  <1>2. page * PageStride \in Nat
    BY <1>1, Times
  <1>3. at \in 0 .. (PageStride - 1)
    BY <1>1
  <1>4. Address(part, page, slot, h, d) = page * PageStride + at
    BY <1>1, <1>2 DEF Address, WriteV
  <1> HIDE DEF at
  <1>5. page * PageStride + at \in 0 .. (TotalPages * PageStride - 1)
    BY <1>1, <1>3, QuotientBound
  <1>6. SlabLen = TotalPages * PageStride
    BY <1>1 DEF SlabLen
  <1> QED BY <1>3, <1>4, <1>5, <1>6 DEF at, b

\* Different elements have different addresses.
LEMMA AddressUnique ==
  ASSUME shape \in Shapes,
         NEW x \in Parts, NEW p \in Pages, NEW s \in Slots, NEW h \in KvHeads, NEW d \in Dims,
         NEW y \in Parts, NEW q \in Pages, NEW t \in Slots, NEW g \in KvHeads, NEW e \in Dims,
         Address(x, p, s, h, d) = Address(y, q, t, g, e)
  PROVE  x = y /\ p = q /\ s = t /\ h = g /\ d = e
  <1> DEFINE a == (IF x = "K" THEN 0 ELSE PageStride \div 2) + InHalf(s, h, d)
             b == (IF y = "K" THEN 0 ELSE PageStride \div 2) + InHalf(t, g, e)
  <1>1. /\ p \in Nat /\ q \in Nat /\ PageStride \in Nat
        /\ a \in 0 .. (PageStride - 1) /\ b \in 0 .. (PageStride - 1)
        /\ p * PageStride + a = q * PageStride + b
    BY AddressFacts, StrideFacts DEF Pages
  <1>2. p = q /\ a = b
    <2> HIDE DEF a, b
    <2> QED BY <1>1, OneQuotient
  <1>3. /\ InHalf(s, h, d) \in 0 .. (Half - 1) /\ InHalf(t, g, e) \in 0 .. (Half - 1)
        /\ Half \in Nat /\ PageStride \div 2 \in Nat /\ Half <= PageStride \div 2
    BY InHalfFacts, StrideFacts
  <1>4. x = y /\ InHalf(s, h, d) = InHalf(t, g, e)
    BY <1>2, <1>3 DEF Parts
  <1>5. /\ NHeadsKv \in Nat /\ HeadDim \in Nat
        /\ s \in Nat /\ t \in Nat /\ h \in 0 .. (NHeadsKv - 1) /\ g \in 0 .. (NHeadsKv - 1)
        /\ d \in 0 .. (HeadDim - 1) /\ e \in 0 .. (HeadDim - 1)
    BY ShapeFacts, PageTokensAssumption DEF Slots, KvHeads, Dims
  <1> HIDE DEF NHeadsKv, HeadDim
  <1>6. s * NHeadsKv + h \in Nat /\ t * NHeadsKv + g \in Nat
    BY <1>5
  <1>7. s * NHeadsKv + h = t * NHeadsKv + g /\ d = e
    BY <1>4, <1>5, <1>6, OneQuotient DEF InHalf
  <1>8. s = t /\ h = g
    BY <1>5, <1>7, OneQuotient
  <1> QED BY <1>2, <1>4, <1>7, <1>8

-----------------------------------------------------------------------------
(***************************************************************************)
(* What was stored stays.                                                  *)
(***************************************************************************)
LEMMA StoresElements ==
  ASSUME NEW page, NEW slot, NEW entry, NEW st
  PROVE  st \in Stores(page, slot, entry) <=>
           \E part \in Parts, h \in KvHeads, d \in Dims :
             st = <<Address(part, page, slot, h, d), Element(part, entry, h, d)>>
  BY DEF Stores, Parts, Address

LayoutInv ==
  /\ shape \in Shapes
  /\ DOMAIN bytes = 0 .. (SlabLen - 1)
  /\ \A page \in Pages, slot \in Slots : slab[page][slot] # Zeroed =>
       \A part \in Parts, h \in KvHeads, d \in Dims :
         bytes[Address(part, page, slot, h, d)] = Element(part, slab[page][slot], h, d)

LEMMA LayoutInvKeeps == LayoutInv => StoresKept
  <1> SUFFICES ASSUME LayoutInv, NEW page \in Pages, NEW slot \in Slots,
                      slab[page][slot] # Zeroed,
                      NEW st \in Stores(page, slot, slab[page][slot])
               PROVE  st[1] \in DOMAIN bytes /\ bytes[st[1]] = st[2]
    BY DEF StoresKept
  <1>1. PICK part \in Parts, h \in KvHeads, d \in Dims :
          st = <<Address(part, page, slot, h, d), Element(part, slab[page][slot], h, d)>>
    BY StoresElements
  <1>2. Address(part, page, slot, h, d) \in DOMAIN bytes
    BY AddressFacts DEF LayoutInv
  <1> QED BY <1>1, <1>2 DEF LayoutInv

\* What a task stores is at its addresses, and everything else is unchanged.
LEMMA StoredBytes ==
  ASSUME LayoutInv, NEW r \in Requests, StoreVectors(r),
         NEW P \in Pages, P = PhysicalPage(r, WritePos(r)),
         NEW S \in Slots, S = SlotInPage(WritePos(r))
  PROVE  /\ DOMAIN bytes' = DOMAIN bytes
         /\ \A part \in Parts, page \in Pages, slot \in Slots, h \in KvHeads, d \in Dims :
              bytes'[Address(part, page, slot, h, d)] =
                IF page = P /\ slot = S THEN Element(part, <<r, WritePos(r), layer>>, h, d)
                ELSE bytes[Address(part, page, slot, h, d)]
  <1> DEFINE entry == <<r, WritePos(r), layer>>
             new == Stores(P, S, entry)
             at == {st[1] : st \in new}
  <1>1. bytes' = [a \in DOMAIN bytes |->
                    IF a \in at THEN (CHOOSE st \in new : st[1] = a)[2] ELSE bytes[a]]
    BY DEF StoreVectors
  <1> HIDE DEF entry
  <1>2. shape \in Shapes /\ DOMAIN bytes = 0 .. (SlabLen - 1)
    BY DEF LayoutInv
  <1>3. \A st \in new : \E part \in Parts, h \in KvHeads, d \in Dims :
          st = <<Address(part, P, S, h, d), Element(part, entry, h, d)>>
    BY StoresElements
  <1>4. \A part \in Parts, h \in KvHeads, d \in Dims :
          <<Address(part, P, S, h, d), Element(part, entry, h, d)>> \in new
    BY StoresElements
  <1> HIDE DEF new
  <1>5. ASSUME NEW part \in Parts, NEW page \in Pages, NEW slot \in Slots,
               NEW h \in KvHeads, NEW d \in Dims
        PROVE  bytes'[Address(part, page, slot, h, d)] =
                 IF page = P /\ slot = S THEN Element(part, entry, h, d)
                 ELSE bytes[Address(part, page, slot, h, d)]
    <2> DEFINE a == Address(part, page, slot, h, d)
    <2>1. a \in DOMAIN bytes
      BY <1>2, AddressFacts
    <2>2. \A st \in new : st[1] = a =>
            page = P /\ slot = S /\ st[2] = Element(part, entry, h, d)
      <3> SUFFICES ASSUME NEW st \in new, st[1] = a
                   PROVE  page = P /\ slot = S /\ st[2] = Element(part, entry, h, d)
        OBVIOUS
      <3>1. PICK y \in Parts, g \in KvHeads, e \in Dims :
              st = <<Address(y, P, S, g, e), Element(y, entry, g, e)>>
        BY <1>3
      <3>2. y = part /\ P = page /\ S = slot /\ g = h /\ e = d
        <4>1. Address(y, P, S, g, e) = Address(part, page, slot, h, d)
          BY <3>1
        <4> QED BY <1>2, <4>1, AddressUnique
      <3> QED BY <3>1, <3>2
    <2>3. CASE page = P /\ slot = S
      <3>1. <<a, Element(part, entry, h, d)>> \in new
        BY <1>4, <2>3
      <3> HIDE DEF a
      <3>2. a \in at /\ \E st \in new : st[1] = a
        BY <3>1
      <3>3. (CHOOSE st \in new : st[1] = a)[2] = Element(part, entry, h, d)
        BY <2>2, <3>2
      <3> QED BY <1>1, <2>1, <2>3, <3>2, <3>3 DEF a
    <2>4. CASE ~ (page = P /\ slot = S)
      <3>1. a \notin at
        BY <2>2, <2>4
      <3> QED BY <1>1, <2>1, <2>4, <3>1
    <2> QED BY <2>3, <2>4
  <1> QED BY <1>1, <1>5 DEF entry

\* The layout of a model that stays loaded.
LEMMA SameLayout ==
  ASSUME shape' = shape
  PROVE  /\ KvHeads' = KvHeads /\ Dims' = Dims /\ SlabLen' = SlabLen
         /\ \A part, page, slot, h, d :
              Address(part, page, slot, h, d)' = Address(part, page, slot, h, d)
  BY DEF KvHeads, Dims, SlabLen, PageStride, NHeadsKv, HeadDim, Address, WriteK, WriteV

LEMMA NextLayoutInv ==
  ASSUME Scheduled, KvTypeOK, LayoutInv, [LayoutNext]_lvars
  PROVE  LayoutInv'
  <1>1. shape' = shape
    BY DEF LayoutNext, StoreVectors, StoreNothing, lvars
  <1>2. ASSUME NEW r \in Requests, StoreVectors(r) PROVE LayoutInv'
    <2> DEFINE n == numTokens[r]
               P == PhysicalPage(r, n)
               S == SlotInPage(n)
               entry == <<r, n, layer>>
    <2>1. n \in Nat /\ HasPage(r, n) /\ TypeOK
      BY <1>2, RunningInBatch DEF StoreVectors, WriteKV, Scheduled, SchedInv
    <2>2. P \in Pages /\ S \in Slots
      BY <2>1, PlaceFacts
    <2>3. slab' = [slab EXCEPT ![P][S] = entry]
      BY <1>2 DEF StoreVectors, WriteKV, WritePos
    <2>4. /\ DOMAIN bytes' = DOMAIN bytes
          /\ \A part \in Parts, page \in Pages, slot \in Slots, h \in KvHeads, d \in Dims :
              bytes'[Address(part, page, slot, h, d)] =
                IF page = P /\ slot = S THEN Element(part, entry, h, d)
                ELSE bytes[Address(part, page, slot, h, d)]
      BY <1>2, <2>2, StoredBytes DEF WritePos
    <2> HIDE DEF n, P, S, entry
    <2>5. \A page \in Pages, slot \in Slots :
            slab'[page][slot] = IF page = P /\ slot = S THEN entry ELSE slab[page][slot]
      BY <2>2, <2>3 DEF KvTypeOK
    <2>6. ASSUME NEW page \in Pages, NEW slot \in Slots, slab'[page][slot] # Zeroed,
                 NEW part \in Parts, NEW h \in KvHeads, NEW d \in Dims
          PROVE  bytes'[Address(part, page, slot, h, d)] = Element(part, slab'[page][slot], h, d)
      BY <2>4, <2>5, <2>6 DEF LayoutInv
    <2> QED BY <1>1, <2>4, <2>6, SameLayout DEF LayoutInv
  <1>3. CASE StoreNothing \/ UNCHANGED lvars
    <2>1. bytes' = bytes /\ slab' = slab
      BY <1>3 DEF StoreNothing, Attend, KvAddRequest, NextLayer, Control, lvars, kvars
    <2> QED BY <1>1, <2>1, SameLayout DEF LayoutInv
  <1> QED BY <1>2, <1>3 DEF LayoutNext

-----------------------------------------------------------------------------
\* The loop over heads and dimensions is the one write of the model above it.
LEMMA LayoutIsKv == LayoutSpec => KvSpec
  <1>1. LayoutInit => KvInit
    BY DEF LayoutInit
  <1>2. [LayoutNext]_lvars => [KvNext]_kvars
    BY DEF LayoutNext, StoreVectors, StoreNothing, KvNext, lvars
  <1> QED BY <1>1, <1>2, PTL DEF LayoutSpec, KvSpec

LEMMA LayoutInvariant ==
  ASSUME MaxBatch <= PageTokens
  PROVE  LayoutSpec => []LayoutInv
  <1>1. LayoutInit => LayoutInv
    BY DEF LayoutInit, LayoutInv, KvInit
  <1>2. Scheduled /\ KvTypeOK /\ LayoutInv /\ [LayoutNext]_lvars => LayoutInv'
    BY NextLayoutInv
  <1> QED BY <1>1, <1>2, LayoutIsKv, KvScheduled, KvTypeCorrect, PTL DEF LayoutSpec

\* For any shape of model, page and cache line: each vector pair that a slot
\* holds is whole and inside the slab, whatever else was stored and padded
\* around it, and whichever sequences used the page before.
THEOREM StoresAlwaysKept ==
  ASSUME MaxBatch <= PageTokens
  PROVE  LayoutSpec => []StoresKept
  BY LayoutInvariant, LayoutInvKeeps, PTL

\* The reader's address of an element is the writer's.
LEMMA ReaderAgrees ==
  ASSUME shape \in Shapes, NHeads = NHeadsKv,
         PageStride = 2 * PageTokens * NHeadsKv * HeadDim,
         NEW page \in Pages, NEW slot \in Slots, NEW h \in QueryHeads, NEW d \in Dims
  PROVE  /\ h \in KvHeads /\ KvHeadOf(h) = h
         /\ ReadK(page, slot, h, d) = Address("K", page, slot, h, d)
         /\ ReadV(page, slot, h, d) = Address("V", page, slot, h, d)
  <1>1. h \in KvHeads
    BY DEF QueryHeads, KvHeads
  <1>2. KvHeadOf(h) = h
    <2>1. NHeads \in Nat \ {0} /\ h \in Nat
      BY ShapeFacts DEF QueryHeads
    <2> HIDE DEF NHeads
    <2>2. NHeads \div NHeads = 1
      BY <2>1
    <2>3. h \div 1 = h
      BY <2>1
    <2> QED BY <2>2, <2>3 DEF KvHeadOf
  <1>3. ReadK(page, slot, h, d) = WriteK(page, slot, h, d)
    BY DEF ReadK, WriteK
  <1>4. PageTokens * NHeads * HeadDim = PageStride \div 2
    BY StrideFacts DEF Half
  <1> QED BY <1>1, <1>2, <1>3, <1>4 DEF ReadV, WriteV, Address

\* For any model with a KV head per query head and any page that needs no
\* padding, and distinct ids: what attention reads of each recent position are
\* the K and V, element by element, of one vector pair of that sequence and
\* position; of the current one, the pair of the current layer.
THEOREM MultiHeadAlwaysReads ==
  ASSUME MaxBatch <= PageTokens, DistinctIds
  PROVE  LayoutSpec => []MultiHeadReads
  <1>1. Scheduled /\ KvTypeOK /\ RecentKvIntact /\ LayoutInv => MultiHeadReads
    <2> SUFFICES ASSUME Scheduled, KvTypeOK, RecentKvIntact, LayoutInv, NHeads = NHeadsKv,
                        PageStride = 2 * PageTokens * NHeadsKv * HeadDim,
                        NEW r \in Requests, InTask(r, "attend"),
                        NEW pos \in RecentPositions(r)
                 PROVE  \E entry \in OwnEntries(r, pos) :
                          \A h \in QueryHeads, d \in Dims :
                            LET page == PhysicalPage(r, pos)
                                slot == SlotInPage(pos)
                            IN  /\ Found(ReadK(page, slot, h, d),
                                         Element("K", entry, KvHeadOf(h), d))
                                /\ Found(ReadV(page, slot, h, d),
                                         Element("V", entry, KvHeadOf(h), d))
      BY DEF MultiHeadReads, ReadsFindStores
    <2> DEFINE page == PhysicalPage(r, pos)
               slot == SlotInPage(pos)
               entry == slab[page][slot]
    <2>1. pos \in Nat /\ HasPage(r, pos) /\ TypeOK
      <3>1. numTokens[r] \in Nat /\ \A p \in 0 .. numTokens[r] : HasPage(r, p)
        BY RunningInBatch DEF InTask
      <3>2. pos \in 0 .. numTokens[r]
        BY <3>1 DEF RecentPositions, KvTypeOK
      <3> QED BY <3>1, <3>2 DEF Scheduled, SchedInv
    <2>2. page \in Pages /\ slot \in Slots
      BY <2>1, PlaceFacts
    <2>3. entry \in OwnEntries(r, pos)
      BY DEF RecentKvIntact, Entry
    <2>4. entry # Zeroed
      BY <2>3 DEF OwnEntries, Zeroed
    <2> SUFFICES ASSUME NEW h \in QueryHeads, NEW d \in Dims
                 PROVE  /\ Found(ReadK(page, slot, h, d), Element("K", entry, KvHeadOf(h), d))
                        /\ Found(ReadV(page, slot, h, d), Element("V", entry, KvHeadOf(h), d))
      BY <2>3
    <2>5. /\ shape \in Shapes /\ DOMAIN bytes = 0 .. (SlabLen - 1)
          /\ \A part \in Parts, g \in KvHeads, e \in Dims :
               bytes[Address(part, page, slot, g, e)] = Element(part, entry, g, e)
      <3> HIDE DEF page, slot
      <3> QED BY <2>2, <2>4 DEF LayoutInv
    <2> HIDE DEF page, slot, entry
    <2>6. /\ h \in KvHeads /\ KvHeadOf(h) = h
          /\ ReadK(page, slot, h, d) = Address("K", page, slot, h, d)
          /\ ReadV(page, slot, h, d) = Address("V", page, slot, h, d)
      BY <2>2, <2>5, ReaderAgrees
    <2>7. \A part \in Parts : Address(part, page, slot, h, d) \in DOMAIN bytes
      BY <2>2, <2>5, <2>6, AddressFacts
    <2> QED BY <2>5, <2>6, <2>7 DEF Found, Parts
  <1> QED BY <1>1, LayoutIsKv, KvScheduled, KvTypeCorrect, RecentStaysIntact, LayoutInvariant, PTL
=============================================================================
