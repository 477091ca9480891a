----------------------------- MODULE ServingProofs -----------------------------
(***************************************************************************)
(* Proofs about Serving.tla: a call returns nothing only when the engine   *)
(* has nothing left that it could do, and run_model stops for the right    *)
(* reason with the right number of tokens printed.  For any requests,      *)
(* sizes, pool and limits.                                                 *)
(***************************************************************************)
EXTENDS Serving, SchedulerProofs, CommonLemmas

LEMMA ServingStepIsStep == [ServingNext]_svars => [Next]_vars
  BY DEF ServingNext, Serve, Call, Engine, DriverStep, DriverSubmit, DriverBreaks,
         DriverPrints, DriverEnds, HostStep, HostInit, HostAdd, HostReceives,
         HostFreesEngine, Stopped, svars, Next, Step, ControlStep

\* Whoever drives it, the engine runs as Scheduler.tla says.
LEMMA ServingIsSpec == ServingSpec => Spec
  <1>1. ServingInit => Init
    BY DEF ServingInit
  <1> QED BY <1>1, ServingStepIsStep, PTL DEF ServingSpec, Spec

-----------------------------------------------------------------------------
(***************************************************************************)
(* The calls.                                                              *)
(***************************************************************************)

\* The engine is at rest between calls, and a call returns at most the
\* requests that ran in it.
CallInv ==
  /\ client \in {"run_model", "host"}
  /\ pc \in {"start", "ready", "called", "stopped"}
  /\ pc # "called" => phase = "idle"
  /\ pc = "start" => Outputs = {}
  /\ pc = "called" /\ phase \in {"promote", "batch", "apply"} => before = delivered
  /\ IsFiniteSet(Outputs)

LEMMA InitCallInv == ServingInit => CallInv
  <1> SUFFICES ASSUME ServingInit PROVE CallInv
    OBVIOUS
  <1>1. phase = "idle" /\ before = delivered
    BY DEF ServingInit, Init
  <1>2. Outputs = {} /\ IsFiniteSet({})
    BY <1>1, FS_EmptySet DEF Outputs
  <1> QED BY <1>1, <1>2 DEF ServingInit, CallInv

\* Only the end of a call, where the outputs are filtered, delivers anything.
LEMMA EngineDelivers ==
  ASSUME Engine
  PROVE  FilterOutputs \/ UNCHANGED delivered
  BY DEF Engine, PromoteStep, MapPage, PromoteOom, Promote, PromoteDone, NothingRunning,
         StepBatch, ApplyOutput, CleanupStep, Finish, Keep, Grow, Preempt, CleanupDone

\* A call passes through its phases in order.
LEMMA EnginePhases ==
  ASSUME Engine
  PROVE  /\ phase # "idle"
         /\ phase' \in {"promote", "batch", "apply"} =>
              phase \in {"promote", "batch", "apply"} /\ ~ FilterOutputs
  BY DEF Engine, PromoteStep, MapPage, PromoteOom, Promote, PromoteDone, NothingRunning,
         StepBatch, ApplyOutput, FilterOutputs, CleanupStep, Finish, Keep, Grow, Preempt,
         CleanupDone, InCleanup

\* Those who have an output of this call ran in it.
LEMMA FilterReturns ==
  ASSUME TypeOK, FilterOutputs, before' = before, before = delivered
  PROVE  Outputs' \subseteq SetOf(active)
  <1>1. delivered' = [r \in Requests |->
                       IF Returned(r) THEN delivered[r] + 1 ELSE delivered[r]]
    BY DEF FilterOutputs
  <1>2. ASSUME NEW r \in Requests, delivered'[r] # before'[r] PROVE r \in SetOf(active)
    <2>1. Returned(r)
      BY <1>1, <1>2
    <2> QED BY <2>1 DEF Returned
  <1> QED BY <1>2 DEF Outputs

LEMMA ActiveFinite == TypeOK => IsFiniteSet(SetOf(active))
  <1> SUFFICES ASSUME TypeOK PROVE IsFiniteSet(SetOf(active))
    OBVIOUS
  <1>1. Len(active) \in Nat
    BY ActiveAt
  <1>2. IsFiniteSet(1 .. Len(active))
    BY <1>1, FS_Interval
  <1>3. active \in Surjection(1 .. Len(active), SetOf(active))
    <2>1. active \in [1 .. Len(active) -> SetOf(active)]
      BY DEF TypeOK, SetOf
    <2> QED BY <2>1 DEF Surjection, SetOf
  <1> QED BY <1>2, <1>3, FS_Surjection

LEMMA NextCallInv == TypeOK /\ CallInv /\ [ServingNext]_svars => CallInv'
  <1> SUFFICES ASSUME TypeOK, CallInv, [ServingNext]_svars PROVE CallInv'
    OBVIOUS
  <1>1. CASE Call
    <2>1. /\ pc' = "called" /\ client' = client /\ before' = delivered /\ delivered' = delivered
      BY <1>1 DEF Call, CallStep
    <2>2. Outputs' = {} /\ IsFiniteSet({})
      BY <2>1, FS_EmptySet DEF Outputs
    <2> QED BY <2>1, <2>2 DEF CallInv
  <1>2. CASE Engine
    <2>1. UNCHANGED <<client, pc, before>> /\ pc = "called"
      BY <1>2, EnginePhases DEF Engine, CallInv
    <2>2. CASE FilterOutputs
      <3>1. phase = "apply" /\ phase' = "cleanup"
        BY <2>2 DEF FilterOutputs
      <3>2. Outputs' \subseteq SetOf(active)
        BY <2>1, <2>2, <3>1, FilterReturns DEF CallInv
      <3>3. IsFiniteSet(Outputs')
        BY <3>2, ActiveFinite, FS_Subset
      <3> QED BY <2>1, <3>1, <3>3 DEF CallInv
    <2>3. CASE UNCHANGED delivered
      <3>1. Outputs' = Outputs
        BY <2>1, <2>3 DEF Outputs
      <3> QED BY <1>2, <2>1, <2>3, <3>1, EnginePhases DEF CallInv
    <2> QED BY <1>2, <2>2, <2>3, EngineDelivers
  <1>3. CASE /\ UNCHANGED <<phase, delivered, before, client>>
             /\ pc' \in {"start", "ready", "called", "stopped"}
             /\ pc' = pc \/ (pc' # "called" /\ pc' # "start" /\ phase = "idle")
    <2>1. Outputs' = Outputs
      BY <1>3 DEF Outputs
    <2> QED BY <1>3, <2>1 DEF CallInv
  <1>4. CASE DriverStep
    <2>1. /\ UNCHANGED <<phase, delivered, before, client>> /\ phase = "idle"
          /\ pc' \in {"ready", "stopped"}
      BY <1>4 DEF DriverStep, DriverSubmit, AddRequest, DriverBreaks, DriverPrints, DriverEnds,
                  Returning, vars, CallInv
    <2> QED BY <1>3, <2>1
  <1>5. CASE HostStep \/ HostFreesEngine \/ \E r \in Requests : HostAdd(r)
    <2>1. /\ UNCHANGED <<phase, delivered, before, client>>
          /\ pc' \in {"start", "ready", "called", "stopped"}
          /\ pc' = pc \/ (pc' # "called" /\ pc' # "start" /\ phase = "idle")
      BY <1>5 DEF HostStep, HostInit, HostReceives, HostFreesEngine, HostAdd,
                  AddRequest, Returning, vars, CallInv
    <2> QED BY <1>3, <2>1
  <1>6. CASE Stopped \/ UNCHANGED svars
    <2>1. /\ UNCHANGED <<phase, delivered, before, client>> /\ pc' = pc
          /\ pc' \in {"start", "ready", "called", "stopped"}
      BY <1>6 DEF Stopped, svars, vars, CallInv
    <2> QED BY <1>3, <2>1
  <1> QED BY <1>1, <1>2, <1>4, <1>5, <1>6 DEF ServingNext, Serve

LEMMA CallInvariant == ServingSpec => [](SchedInv /\ CallInv)
  <1>1. SchedInv => TypeOK
    BY DEF SchedInv
  <1> QED BY <1>1, ServingIsSpec, SchedulerInvariant, InitCallInv, NextCallInv, PTL
          DEF ServingSpec

-----------------------------------------------------------------------------
(***************************************************************************)
(* What a call returns.                                                    *)
(***************************************************************************)

\* Pages are being mapped only while there is a request to promote; the batch
\* is never empty.
PromotionInv ==
  /\ mapped # <<>> => phase = "promote" /\ CanPromote
  /\ phase = "apply" => active # <<>>

LEMMA InitPromotionInv == Init => PromotionInv
  BY DEF Init, PromotionInv

LEMMA NextPromotionInv == PromotionInv /\ [Next]_vars => PromotionInv'
  <1> SUFFICES ASSUME PromotionInv, [Next]_vars PROVE PromotionInv'
    OBVIOUS
  <1>1. CASE MapPage
    BY <1>1 DEF MapPage, PromotionInv, CanPromote, queues
  <1>2. CASE PromoteOom \/ Promote
    BY <1>2 DEF PromoteOom, AfterOom, Promote, PromotionInv
  <1>3. CASE PromoteDone \/ CallStep \/ NothingRunning \/ StepBatch \/ CleanupDone
    BY <1>3 DEF PromoteDone, CallStep, NothingRunning, StepBatch, CleanupDone, PromotionInv,
                CanPromote, queues
  <1>4. CASE ApplyOutput \/ FilterOutputs
    BY <1>4 DEF ApplyOutput, FilterOutputs, PromotionInv, queues
  <1>5. CASE Keep \/ Grow \/ Finish \/ Preempt
    BY <1>5 DEF Keep, Grow, Finish, Preempt, InCleanup, PromotionInv
  <1>6. ASSUME NEW r \in Requests, AddRequest(r) PROVE PromotionInv'
    BY <1>6 DEF AddRequest, PromotionInv
  <1>7. CASE UNCHANGED vars
    BY <1>7 DEF vars, queues, PromotionInv, CanPromote
  <1> QED BY <1>1, <1>2, <1>3, <1>4, <1>5, <1>6, <1>7
          DEF Next, Step, ControlStep, PromoteStep, CleanupStep

LEMMA OversizedKept ==
  ASSUME UNCHANGED tokens, NEW r \in Requests
  PROVE  Oversized(r)' <=> Oversized(r)
  BY DEF tokens, Oversized, FullLength

\* A call that got as far as its cleanup has an output; one that has none
\* found the engine with nothing to run.
BatchInv ==
  pc = "called" =>
    /\ phase = "cleanup" => Outputs # {}
    /\ phase = "idle" /\ Outputs = {} =>
         active = <<>> /\ (waiting = <<>> \/ Oversized(Head(waiting)))

\* Every sequence of a batch has generated a token by the time the outputs are
\* filtered, so the first one's output is returned.
LEMMA FilterKeepsOne ==
  ASSUME DistinctIds, SchedInv, ServiceInv, CallInv, PromotionInv, FilterOutputs,
         pc = "called", before' = before
  PROVE  Outputs' # {}
  <1> DEFINE r == active[1]
  <1>0. TypeOK /\ QueuesConsistent /\ QuotasKept
    BY DEF SchedInv, ServiceInv
  <1>1. /\ phase = "apply" /\ i > Len(active) /\ active # <<>> /\ before = delivered
        /\ delivered' = [q \in Requests |->
                          IF Returned(q) THEN delivered[q] + 1 ELSE delivered[q]]
    BY DEF FilterOutputs, PromotionInv, CallInv
  <1>2. 1 \in 1 .. Len(active) /\ 1 < i /\ r \in Requests /\ r \in SetOf(active)
    <2>1. Len(active) \in Nat \ {0}
      BY <1>0, <1>1, EmptySeq, LenProperties DEF TypeOK
    <2> QED BY <1>0, <1>1, <2>1, ActiveAt DEF SetOf
  <1>3. generated[r] > 0
    <2>1. Advanced(1)
      BY <1>1, <1>2 DEF Advanced
    <2> QED BY <1>0, <1>2, <2>1 DEF QuotasKept
  <1> HIDE DEF r
  <1>4. Returned(r)
    BY <1>0, <1>2, <1>3, ReturnedFacts
  <1>5. delivered'[r] # before'[r]
    BY <1>0, <1>1, <1>2, <1>4, ActiveAt
  <1> QED BY <1>2, <1>5 DEF Outputs

LEMMA NextBatchInv ==
  ASSUME DistinctIds, SchedInv, ServiceInv, StuckOnlyOversized, CallInv, PromotionInv,
         BatchInv, [ServingNext]_svars
  PROVE  BatchInv'
  <1>1. CASE Engine
    <2>1. pc' = pc /\ before' = before
      BY <1>1 DEF Engine
    <2> SUFFICES ASSUME pc = "called" PROVE BatchInv'
      BY <2>1 DEF BatchInv
    <2>2. CASE FilterOutputs
      <3>1. phase' = "cleanup"
        BY <2>2 DEF FilterOutputs
      <3> QED BY <2>1, <2>2, <3>1, FilterKeepsOne DEF BatchInv
    <2>3. CASE Keep \/ Grow \/ Finish \/ Preempt
      <3>1. phase = "cleanup" /\ phase' = "cleanup" /\ delivered' = delivered
        BY <2>3 DEF Keep, Grow, Finish, Preempt, InCleanup
      <3> QED BY <2>1, <3>1 DEF BatchInv, Outputs
    <2>4. CASE CleanupDone
      <3>1. phase = "cleanup" /\ phase' = "idle" /\ delivered' = delivered
        BY <2>4 DEF CleanupDone
      <3> QED BY <2>1, <3>1 DEF BatchInv, Outputs
    <2>5. CASE NothingRunning
      <3>1. /\ phase = "batch" /\ active = <<>> /\ phase' = "idle"
            /\ active' = active /\ waiting' = waiting /\ UNCHANGED tokens
        BY <2>5 DEF NothingRunning, queues
      <3>2. waiting # <<>> => Oversized(Head(waiting))
        BY <3>1 DEF StuckOnlyOversized, Wedged
      <3>3. waiting # <<>> => Oversized(Head(waiting))'
        <4>1. waiting # <<>> => Head(waiting) \in Requests
          BY HeadFacts DEF SchedInv
        <4> QED BY <3>1, <3>2, <4>1 DEF tokens, Oversized, FullLength
      <3> QED BY <3>1, <3>3 DEF BatchInv
    <2>6. CASE phase' \in {"promote", "batch", "apply"}
      BY <2>6 DEF BatchInv
    <2> QED BY <1>1, <2>2, <2>3, <2>4, <2>5, <2>6
            DEF Engine, PromoteStep, MapPage, PromoteOom, AfterOom, Promote, PromoteDone,
                StepBatch, ApplyOutput, CleanupStep
  <1>2. CASE Call
    BY <1>2 DEF Call, CallStep, BatchInv
  <1>3. CASE pc' # "called"
    BY <1>3 DEF BatchInv
  <1>4. CASE Stopped \/ UNCHANGED svars
    <2>1. /\ pc' = pc /\ before' = before /\ phase' = phase /\ delivered' = delivered
          /\ active' = active /\ waiting' = waiting /\ UNCHANGED tokens
      BY <1>4 DEF Stopped, svars, vars, queues
    <2> QED BY <2>1 DEF BatchInv, Outputs, Oversized, FullLength, tokens
  <1> QED BY <1>1, <1>2, <1>3, <1>4
          DEF ServingNext, Serve, DriverStep, DriverSubmit, DriverBreaks, DriverPrints,
              DriverEnds, HostStep, HostInit, HostReceives, HostFreesEngine, HostAdd

LEMMA PromotionInvariant == ServingSpec => []PromotionInv
  <1>1. ServingInit => Init
    BY DEF ServingInit
  <1> QED BY <1>1, InitPromotionInv, NextPromotionInv, ServingStepIsStep, PTL
          DEF ServingSpec

\* With distinct ids a call of step_forward that returns no output found
\* nothing to run, and either an empty queue or one that a request too large
\* for the pool blocks: a client that takes an empty batch for the end of the
\* work leaves none behind that could still be done.
THEOREM EmptyBatchIsTheEnd ==
  ASSUME DistinctIds
  PROVE  ServingSpec => []EmptyBatchMeansDone
  <1>1. ServingSpec => [](SchedInv /\ ServiceInv /\ StuckOnlyOversized)
    BY ServingIsSpec, ServiceInvariant, OnlyOversizedWedges, PTL
  <1>2. ServingInit => BatchInv
    BY DEF ServingInit, BatchInv
  <1>3. SchedInv /\ ServiceInv /\ StuckOnlyOversized /\ CallInv /\ PromotionInv
          /\ BatchInv /\ [ServingNext]_svars => BatchInv'
    BY NextBatchInv
  <1>4. BatchInv => EmptyBatchMeansDone
    BY DEF BatchInv, EmptyBatchMeansDone, Returning
  <1> QED BY <1>1, <1>2, <1>3, <1>4, CallInvariant, PromotionInvariant, PTL DEF ServingSpec

-----------------------------------------------------------------------------
(***************************************************************************)
(* The driver.                                                             *)
(***************************************************************************)

\* The request that run_model has submitted, alone in the engine.
Driving(r) ==
  /\ status[r] # "New" /\ maxNew[r] = DriverLimit
  /\ \A q \in Requests \ {r} : status[q] = "New"
  /\ Outputs \subseteq {r}

\* The loop of run_model before an EOS: each turn has printed one token, and
\* the request has more to come or will not be run again.
Printing(r) ==
  /\ printed = turns /\ turns < DriverLimit
  /\ pc = "ready" => delivered[r] = turns
  /\ pc \in {"called", "stopped"} => before[r] = turns
  /\ pc = "called" /\ phase = "cleanup" => delivered[r] = turns + 1
  /\ pc \in {"called", "stopped"} /\ phase = "idle" =>
       delivered[r] = IF active = <<>> /\ Outputs = {} THEN turns ELSE turns + 1
  /\ pc \in {"called", "stopped"} /\ phase \in {"cleanup", "idle"} /\ status[r] = "Waiting"
       => Oversized(r)
  /\ pc = "stopped" => active = <<>>

\* After it the counter keeps it from calling the engine again.
MetEos(r) ==
  /\ pc \in {"ready", "stopped"}
  /\ turns > DriverLimit
  /\ printed = delivered[r] - 1

DriverInv ==
  client = "run_model" =>
    /\ turns \in Nat /\ before \in [Requests -> Nat]
    /\ IF pc = "start"
         THEN /\ turns = 0 /\ printed = 0 /\ eos = FALSE
              /\ \A q \in Requests : status[q] = "New"
         ELSE \E r \in Requests : Driving(r) /\ (IF eos THEN MetEos(r) ELSE Printing(r))

\* Who runs, waits and is preempted can only be the request of run_model.
LEMMA OnlyRequest ==
  ASSUME TypeOK, QueuesConsistent, NEW r \in Requests, Driving(r)
  PROVE  /\ SetOf(active) \subseteq {r}
         /\ active # <<>> => r \in SetOf(active) /\ status[r] = "Running"
         /\ status[r] = "Running" => active # <<>>
         /\ waiting # <<>> => Head(waiting) = r
         /\ status[r] = "Waiting" => waiting # <<>>
  <1>1. \A q \in Requests : status[q] # "New" => q = r
    BY DEF Driving
  <1>2. SetOf(active) \subseteq {r}
    <2>1. SetOf(active) \subseteq Requests
      BY ActiveAt DEF SetOf
    <2>2. \A q \in SetOf(active) : status[q] = "Running"
      BY <2>1 DEF QueuesConsistent
    <2> QED BY <1>1, <2>1, <2>2
  <1>3. ASSUME active # <<>> PROVE r \in SetOf(active) /\ status[r] = "Running"
    <2>1. active[1] \in SetOf(active)
      <3>1. Len(active) \in Nat \ {0}
        BY <1>3, EmptySeq, LenProperties DEF TypeOK
      <3> QED BY <3>1 DEF SetOf
    <2>2. r \in SetOf(active)
      BY <1>2, <2>1
    <2> QED BY <2>2 DEF QueuesConsistent
  <1>4. ASSUME status[r] = "Running" PROVE active # <<>>
    <2>1. r \in SetOf(active)
      BY <1>4 DEF QueuesConsistent
    <2> QED BY <2>1 DEF SetOf
  <1>5. ASSUME waiting # <<>> PROVE Head(waiting) = r
    BY <1>1, <1>5, HeadFacts
  <1>6. ASSUME status[r] = "Waiting" PROVE waiting # <<>>
    <2>1. r \in SetOf(waiting)
      BY <1>6 DEF QueuesConsistent
    <2> QED BY <2>1 DEF SetOf
  <1> QED BY <1>2, <1>3, <1>4, <1>5, <1>6

LEMMA DrivingKept ==
  ASSUME TypeOK, QueuesConsistent, CallInv, NEW r \in Requests, Driving(r),
         Engine \/ UNCHANGED <<status, maxNew, delivered, before>>
  PROVE  Driving(r)'
  <1>1. CASE UNCHANGED <<status, maxNew, delivered, before>>
    BY <1>1 DEF Driving, Outputs
  <1>2. CASE Engine
    <2>1. maxNew' = maxNew /\ before' = before /\ pc = "called"
      BY <1>2, EnginePhases
         DEF CallInv, Engine, PromoteStep, MapPage, PromoteOom, Promote, PromoteDone,
             NothingRunning, StepBatch, ApplyOutput, FilterOutputs, CleanupStep, Finish, Keep,
             Grow, Preempt, CleanupDone, tokens
    <2>2. \/ status' = status
          \/ \E new \in {"Running", "Waiting", "Finished"} :
               status' = [status EXCEPT ![r] = new]
      <3>1. CASE Promote
        <4>1. Head(waiting) = r /\ status' = [status EXCEPT ![Head(waiting)] = "Running"]
          BY <3>1, OnlyRequest DEF Promote, CanPromote
        <4> QED BY <4>1
      <3>2. CASE Finish \/ Preempt
        <4>1. InCleanup
          BY <3>2 DEF Finish, Preempt
        <4>2. Current = r
          BY <4>1, CurrentFacts, OnlyRequest
        <4> QED BY <3>2, <4>2 DEF Finish, Preempt
      <3>3. CASE ~ (Promote \/ Finish \/ Preempt)
        BY <1>2, <3>3 DEF Engine, PromoteStep, MapPage, PromoteOom, PromoteDone,
             NothingRunning, StepBatch, ApplyOutput, FilterOutputs, CleanupStep, Keep, Grow,
             CleanupDone, queues
      <3> QED BY <3>1, <3>2, <3>3
    <2>3. /\ status'[r] # "New"
          /\ \A q \in Requests \ {r} : status'[q] = "New"
      BY <2>2 DEF Driving, TypeOK
    <2>4. Outputs' \subseteq {r}
      <3>1. CASE FilterOutputs
        <4>1. phase = "apply"
          BY <3>1 DEF FilterOutputs
        <4>2. Outputs' \subseteq SetOf(active)
          BY <2>1, <3>1, <4>1, FilterReturns DEF CallInv
        <4> QED BY <4>2, OnlyRequest
      <3>2. CASE UNCHANGED delivered
        BY <2>1, <3>2 DEF Outputs, Driving
      <3> QED BY <1>2, <3>1, <3>2, EngineDelivers
    <2> QED BY <2>1, <2>3, <2>4 DEF Driving
  <1> QED BY <1>1, <1>2

\* What a preemption says: the only running request held every page there is,
\* and needs another.
LEMMA PreemptedOversized ==
  ASSUME SchedInv, PromptConsumed, PromotionInv, NEW r \in Requests, Driving(r), Preempt
  PROVE  Oversized(r)
  <1>1. /\ InCleanup /\ free = {} /\ ~ IsDone(Current) /\ NeedsPage(Current)
        /\ mapped = <<>>
    BY DEF Preempt, InCleanup, PromotionInv
  <1>2. TypeOK /\ QueuesConsistent /\ PagesAccounted /\ SetOf(active) \subseteq {r}
    BY OnlyRequest DEF SchedInv
  <1>3. Current = r
    BY <1>1, <1>2, CurrentFacts
  <1>4. SetOf(table[r]) = Pages
    <2>1. ASSUME NEW q \in Requests, q # r PROVE SetOf(table[q]) = {}
      <3>1. table[q] = <<>>
        BY <1>2, <2>1 DEF QueuesConsistent, Driving
      <3> QED BY <3>1 DEF SetOf
    <2>2. SetOf(mapped) = {}
      BY <1>1 DEF SetOf
    <2>3. {} \cup {} \cup UNION {SetOf(table[q]) : q \in Requests} = Pages
      BY <1>1, <1>2, <2>2 DEF PagesAccounted
    <2>4. UNION {SetOf(table[q]) : q \in Requests} = SetOf(table[r])
      BY <2>1
    <2> QED BY <2>3, <2>4
  <1>5. Len(table[r]) = TotalPages
    BY <1>2, <1>4, AllPagesListed DEF TypeOK, PagesAccounted
  <1>6. TotalPages < PagesFor(numTokens[r] + 1)
    <2>1. PagesFor(numTokens[r] + 1) > TotalPages
      BY <1>1, <1>3, <1>5 DEF NeedsPage
    <2>2. numTokens[r] + 1 \in Nat
      BY <1>2, ActiveAt
    <2>3. PagesFor(numTokens[r] + 1) \in Nat
      BY <2>2, PagesForMonotone
    <2> QED BY <2>1, <2>3, TotalPagesAssumption
  <1>7. /\ numTokens[r] \in Nat /\ FullLength(r) \in Nat /\ numTokens[r] <= FullLength(r)
    <2>1. /\ numTokens[r] = promptLen[r] /\ ~ (generated[r] >= maxNew[r])
          /\ numTokens[r] \in Nat /\ generated[r] \in Nat /\ maxNew[r] \in Nat
      BY <1>1, <1>2, <1>3, ActiveAt DEF PromptConsumed, IsDone
    <2> QED BY <2>1 DEF FullLength
  <1>8. PagesFor(numTokens[r] + 1) <= PagesFor(FullLength(r) + 1)
    BY <1>7, PagesForMonotone
  <1>9. PagesFor(FullLength(r) + 1) <= PagesFor(FullLength(r)) + 1
    BY <1>7, PagesForNext
  <1> DEFINE full == PagesFor(FullLength(r))
             one == PagesFor(FullLength(r) + 1)
             need == PagesFor(numTokens[r] + 1)
  <1>10. full \in Nat /\ one \in Nat /\ need \in Nat
    BY <1>7, PagesForFacts
  <1> HIDE DEF full, one, need
  <1>11. TotalPages < full + 1
    BY <1>6, <1>8, <1>9, <1>10, TotalPagesAssumption DEF full, one, need
  <1> QED BY <1>10, <1>11, TotalPagesAssumption DEF Oversized, full

\* A call, as run_model sees it.
LEMMA CallKeepsPrinting ==
  ASSUME CallInv, NEW r \in Requests, Printing(r), pc = "ready", CallStep,
         pc' = "called", before' = delivered, UNCHANGED driver
  PROVE  Printing(r)'
  BY DEF CallStep, Printing, driver

LEMMA EngineKeepsPrinting ==
  ASSUME DistinctIds, SchedInv, ServiceInv, StuckOnlyOversized, CallInv, PromotionInv,
         NEW r \in Requests, Driving(r), Printing(r), Engine
  PROVE  Printing(r)'
  <1>0. TypeOK /\ QueuesConsistent /\ PromptConsumed /\ QuotasKept /\ TokensOwed
    BY DEF SchedInv, ServiceInv
  <1>1. /\ UNCHANGED <<turns, printed, before>> /\ pc = "called" /\ pc' = "called"
        /\ printed = turns /\ turns < DriverLimit /\ before[r] = turns
    BY EnginePhases DEF Engine, driver, CallInv, Printing
  <1>2. SUFFICES
          /\ phase' = "cleanup" => delivered'[r] = turns + 1
          /\ phase' = "idle" =>
               delivered'[r] = IF active' = <<>> /\ Outputs' = {} THEN turns ELSE turns + 1
          /\ phase' \in {"cleanup", "idle"} /\ status'[r] = "Waiting" => Oversized(r)'
    BY <1>1 DEF Printing
  <1>3. CASE phase' \in {"promote", "batch", "apply"}
    BY <1>3
  <1>4. CASE NothingRunning
    <2>1. /\ phase = "batch" /\ active = <<>> /\ phase' = "idle"
          /\ UNCHANGED <<status, active, delivered, tokens>>
      BY <1>4 DEF NothingRunning, queues
    <2>2. before = delivered
      BY <1>1, <2>1 DEF CallInv
    <2>3. Outputs' = {}
      BY <1>1, <2>1, <2>2 DEF Outputs
    <2>4. status[r] = "Waiting" => Oversized(r)
      BY <1>0, <2>1, OnlyRequest DEF StuckOnlyOversized, Wedged
    <2> QED BY <1>1, <2>1, <2>2, <2>3, <2>4, OversizedKept
  <1>5. CASE FilterOutputs
    <2>1. /\ phase = "apply" /\ i > Len(active) /\ phase' = "cleanup" /\ status' = status
          /\ delivered' = [q \in Requests |->
                            IF Returned(q) THEN delivered[q] + 1 ELSE delivered[q]]
      BY <1>5 DEF FilterOutputs, queues
    <2>2. r \in SetOf(active) /\ status[r] = "Running"
      BY <1>0, <2>1, OnlyRequest DEF PromotionInv
    <2>3. generated[r] > 0
      <3>1. PICK k \in 1 .. Len(active) : active[k] = r
        BY <2>2 DEF SetOf
      <3>2. Advanced(k)
        BY <1>0, <2>1, ActiveAt DEF Advanced
      <3> QED BY <1>0, <3>1, <3>2 DEF QuotasKept
    <2>4. Returned(r)
      BY <1>0, <2>2, <2>3, ReturnedFacts
    <2>5. delivered[r] = turns
      BY <1>1, <2>1 DEF CallInv
    <2> QED BY <2>1, <2>2, <2>4, <2>5
  <1>6. CASE Keep \/ Grow \/ Finish \/ Preempt
    <2>1. phase = "cleanup" /\ phase' = "cleanup" /\ UNCHANGED <<delivered, tokens>>
      BY <1>6 DEF Keep, Grow, Finish, Preempt, InCleanup
    <2>2. delivered[r] = turns + 1
      BY <1>1, <2>1 DEF Printing
    <2>3. CASE Keep \/ Grow
      <3>1. status' = status
        BY <2>3 DEF Keep, Grow, queues
      <3> QED BY <1>1, <2>1, <2>2, <3>1, OversizedKept DEF Printing
    <2>4. CASE Finish
      <3>1. Current = r
        BY <1>0, <2>4, CurrentFacts, OnlyRequest DEF Finish
      <3>2. status'[r] = "Finished"
        BY <1>0, <2>4, <3>1 DEF Finish, TypeOK
      <3> QED BY <2>1, <2>2, <3>2
    <2>5. CASE Preempt
      <3>1. Oversized(r)
        BY <1>0, <2>5, PreemptedOversized
      <3> QED BY <2>1, <2>2, <3>1, OversizedKept
    <2> QED BY <1>6, <2>3, <2>4, <2>5
  <1>7. CASE CleanupDone
    <2>1. /\ phase = "cleanup" /\ phase' = "idle"
          /\ UNCHANGED <<status, active, delivered, tokens>>
      BY <1>7 DEF CleanupDone, queues
    <2>2. delivered[r] = turns + 1 /\ (status[r] = "Waiting" => Oversized(r))
      BY <1>1, <2>1 DEF Printing
    <2>3. r \in Outputs'
      <3>1. delivered[r] \in Nat
        BY <1>0, ActiveAt
      <3>2. delivered[r] # before[r]
        BY <1>1, <2>2, <3>1
      <3> QED BY <1>1, <2>1, <3>2 DEF Outputs
    <2> QED BY <2>1, <2>2, <2>3, OversizedKept
  <1> QED BY <1>3, <1>4, <1>5, <1>6, <1>7
          DEF Engine, PromoteStep, MapPage, PromoteOom, AfterOom, Promote, PromoteDone,
              StepBatch, ApplyOutput, CleanupStep

\* A turn that did not find the engine empty has one token to print, and the
\* request has a quota for another.
LEMMA OneToPrint ==
  ASSUME SchedInv, ServiceInv, NEW r \in Requests, Driving(r), Printing(r),
         turns \in Nat, Returning, active # <<>>
  PROVE  /\ delivered[r] = turns + 1 /\ turns + 1 < DriverLimit
         /\ Cardinality(Outputs) = 1
  <1>0. TypeOK /\ QueuesConsistent /\ QuotasKept /\ TokensOwed
    BY DEF SchedInv, ServiceInv
  <1>1. /\ phase = "idle" /\ delivered[r] = turns + 1 /\ before[r] = turns
    BY DEF Returning, Printing
  <1>2. generated[r] = delivered[r]
    <2>1. ~ Owed(r) /\ delivered[r] \in Nat
      BY <1>0, <1>1, ActiveAt DEF Owed
    <2> QED BY <1>0, <2>1 DEF TokensOwed
  <1>3. generated[r] = 0 \/ generated[r] < DriverLimit
    <2>1. PICK k \in 1 .. Len(active) : active[k] = r
      BY <1>0, OnlyRequest DEF SetOf
    <2>2. ~ Advanced(k)
      BY <1>1 DEF Advanced
    <2> QED BY <1>0, <2>1, <2>2 DEF QuotasKept, Open, Driving
  <1>4. turns + 1 < DriverLimit
    BY <1>1, <1>2, <1>3
  <1>5. Outputs = {r}
    BY <1>1 DEF Outputs, Driving
  <1> QED BY <1>1, <1>4, <1>5, FS_Singleton

LEMMA PrintsKeepsDriver ==
  ASSUME SchedInv, ServiceInv, CallInv, DriverInv, DriverPrints
  PROVE  DriverInv'
  <1>1. /\ client = "run_model" /\ client' = client /\ pc = "called" /\ pc' = "ready"
        /\ Returning /\ active # <<>> /\ UNCHANGED <<vars, before>>
    BY DEF DriverPrints, Returning, NothingLeft
  <1>2. PICK r \in Requests : Driving(r) /\ (IF eos THEN MetEos(r) ELSE Printing(r))
    BY <1>1 DEF DriverInv
  <1>3. turns \in Nat /\ before \in [Requests -> Nat] /\ ~ eos /\ Printing(r)
    BY <1>1, <1>2 DEF DriverInv, MetEos
  <1>4. /\ delivered[r] = turns + 1 /\ turns + 1 < DriverLimit /\ Cardinality(Outputs) = 1
        /\ printed = turns
    BY <1>1, <1>2, <1>3, OneToPrint DEF Printing
  <1>5. Driving(r)'
    BY <1>1, <1>2, DrivingKept DEF Driving, Outputs, vars, queues, tokens
  <1>6. delivered' = delivered /\ phase' = phase
    BY <1>1 DEF vars
  <1>7. CASE /\ turns' = turns + 1
             /\ printed' = printed + Cardinality(Outputs)
             /\ UNCHANGED eos
    <2>1. turns' \in Nat /\ ~ eos' /\ Printing(r)'
      BY <1>1, <1>3, <1>4, <1>6, <1>7 DEF Printing
    <2> QED BY <1>1, <1>3, <1>5, <2>1 DEF DriverInv
  <1>8. CASE /\ turns' = CountAtEos + 1
             /\ eos' = TRUE
             /\ UNCHANGED printed
    <2>1. turns' \in Nat /\ MetEos(r)'
      BY <1>1, <1>3, <1>4, <1>6, <1>8, DriverAssumption DEF MetEos, CountAtEos
    <2> QED BY <1>1, <1>3, <1>5, <1>8, <2>1 DEF DriverInv
  <1> QED BY <1>7, <1>8 DEF DriverPrints

LEMMA SubmitKeepsDriver ==
  ASSUME SchedInv, ServiceInv, CallInv, DriverInv, DriverSubmit
  PROVE  DriverInv'
  <1>0. TypeOK /\ QuotasKept /\ TokensOwed
    BY DEF SchedInv, ServiceInv
  <1>1. /\ client = "run_model" /\ client' = client /\ pc = "start" /\ pc' = "ready"
        /\ UNCHANGED <<before, turns, printed, eos>>
        /\ \E r \in Requests : AddRequest(r) /\ maxNew'[r] = DriverLimit
    BY DEF DriverSubmit, driver
  <1>2. PICK r \in Requests : AddRequest(r) /\ maxNew'[r] = DriverLimit
    BY <1>1
  <1>3. /\ turns = 0 /\ printed = 0 /\ eos = FALSE /\ before \in [Requests -> Nat]
        /\ \A q \in Requests : status[q] = "New"
        /\ Outputs = {}
    BY <1>1 DEF DriverInv, CallInv
  <1>4. /\ status' = [status EXCEPT ![r] = "Waiting"] /\ UNCHANGED <<delivered, phase>>
        /\ phase = "idle"
    BY <1>2 DEF AddRequest
  <1>5. delivered[r] = 0
    <2>1. generated[r] = 0 /\ ~ Owed(r) /\ delivered[r] \in Nat
      BY <1>0, <1>3, <1>4, ActiveAt, RestingQuotas DEF Owed
    <2> QED BY <1>0, <2>1 DEF TokensOwed
  <1>6. Outputs' = {}
    BY <1>1, <1>3, <1>4 DEF Outputs
  <1>7. Driving(r)'
    BY <1>0, <1>2, <1>3, <1>4, <1>6 DEF Driving, TypeOK
  <1>8. Printing(r)'
    BY <1>1, <1>3, <1>4, <1>5, DriverAssumption DEF Printing
  <1> QED BY <1>1, <1>3, <1>7, <1>8 DEF DriverInv

LEMMA NextDriverInv ==
  ASSUME DistinctIds, SchedInv, ServiceInv, StuckOnlyOversized, CallInv, PromotionInv,
         DriverInv, [ServingNext]_svars
  PROVE  DriverInv'
  <1>0. client' = client /\ TypeOK /\ QueuesConsistent
    BY DEF ServingNext, Serve, Call, Engine, DriverStep, DriverSubmit, DriverBreaks,
           DriverPrints, DriverEnds, HostStep, HostInit, HostAdd, HostReceives,
           HostFreesEngine, Stopped, svars, SchedInv
  <1> SUFFICES ASSUME client = "run_model" PROVE DriverInv'
    BY <1>0 DEF DriverInv
  <1>1. turns \in Nat /\ before \in [Requests -> Nat]
    BY DEF DriverInv
  <1>2. ASSUME pc # "start", pc' # "start", turns' \in Nat, before' \in [Requests -> Nat],
               \A r \in Requests :
                 Driving(r) /\ (IF eos THEN MetEos(r) ELSE Printing(r))
                   => Driving(r)' /\ (IF eos' THEN MetEos(r)' ELSE Printing(r)')
        PROVE  DriverInv'
    BY <1>2 DEF DriverInv
  <1>3. CASE Call
    <2>1. /\ pc = "ready" /\ turns < DriverLimit /\ CallStep /\ pc' = "called"
          /\ before' = delivered /\ UNCHANGED driver
      BY <1>3 DEF Call
    <2>2. turns' = turns /\ eos' = eos /\ before' \in [Requests -> Nat]
      BY <1>0, <2>1 DEF driver, TypeOK
    <2>3. ASSUME NEW r \in Requests, Driving(r), IF eos THEN MetEos(r) ELSE Printing(r)
          PROVE  Driving(r)' /\ ~ eos /\ Printing(r)'
      <3>1. ~ eos /\ Printing(r)
        BY <1>1, <2>1, <2>3, DriverAssumption DEF MetEos
      <3>2. Driving(r)'
        BY <2>1, <2>3 DEF CallStep, queues, tokens, Driving, Outputs
      <3> QED BY <2>1, <3>1, <3>2, CallKeepsPrinting
    <2> QED BY <1>1, <1>2, <2>1, <2>2, <2>3
  <1>4. CASE Engine
    <2>1. /\ pc = "called" /\ pc' = "called" /\ turns' = turns /\ before' = before
          /\ eos' = eos
      BY <1>4, EnginePhases DEF Engine, driver, CallInv
    <2>2. ASSUME NEW r \in Requests, Driving(r), IF eos THEN MetEos(r) ELSE Printing(r)
          PROVE  Driving(r)' /\ ~ eos /\ Printing(r)'
      <3>1. ~ eos /\ Printing(r)
        BY <2>1, <2>2 DEF MetEos
      <3> QED BY <1>0, <1>4, <2>2, <3>1, DrivingKept, EngineKeepsPrinting
    <2> QED BY <1>1, <1>2, <2>1, <2>2
  <1>5. CASE DriverSubmit
    BY <1>5, SubmitKeepsDriver
  <1>6. CASE DriverPrints
    BY <1>6, PrintsKeepsDriver
  <1>7. CASE DriverBreaks \/ DriverEnds
    <2>1. /\ pc' = "stopped" /\ UNCHANGED <<vars, turns, printed, eos, before>>
          /\ \/ pc = "called" /\ phase = "idle" /\ active = <<>>
             \/ pc = "ready" /\ turns >= DriverLimit
      BY <1>7 DEF DriverBreaks, DriverEnds, Returning, NothingLeft, driver
    <2>2. UNCHANGED <<status, maxNew, delivered, active, phase, tokens>>
      BY <2>1 DEF vars, queues, tokens
    <2>3. ASSUME NEW r \in Requests, Driving(r), IF eos THEN MetEos(r) ELSE Printing(r)
          PROVE  Driving(r)' /\ (IF eos' THEN MetEos(r)' ELSE Printing(r)')
      <3>1. Driving(r)'
        BY <2>1, <2>2, <2>3 DEF Driving, Outputs
      <3>2. CASE eos
        BY <2>1, <2>2, <2>3, <3>1, <3>2 DEF MetEos
      <3>3. CASE ~ eos
        <4>1. Printing(r)
          BY <2>3, <3>3
        <4>2. pc = "called" /\ phase = "idle" /\ active = <<>>
          BY <1>1, <2>1, <4>1, DriverAssumption DEF Printing
        <4>3. Outputs' = Outputs
          BY <2>1, <2>2 DEF Outputs
        <4>4. Printing(r)'
          BY <2>1, <2>2, <4>1, <4>2, <4>3, OversizedKept DEF Printing
        <4> QED BY <2>1, <3>1, <3>3, <4>4
      <3> QED BY <3>2, <3>3
    <2> QED BY <1>1, <1>2, <2>1, <2>3
  <1>8. CASE UNCHANGED svars
    <2>1. /\ pc' = pc /\ turns' = turns /\ printed' = printed /\ eos' = eos
          /\ before' = before /\ status' = status /\ maxNew' = maxNew
          /\ delivered' = delivered /\ active' = active /\ phase' = phase
          /\ UNCHANGED tokens
      BY <1>8 DEF svars, vars, driver, queues, tokens
    <2>2. Outputs' = Outputs
      BY <2>1 DEF Outputs
    <2>3. CASE pc = "start"
      BY <1>0, <2>1, <2>3 DEF DriverInv
    <2>4. CASE pc # "start"
      <3>1. ASSUME NEW r \in Requests, Driving(r), IF eos THEN MetEos(r) ELSE Printing(r)
            PROVE  Driving(r)' /\ (IF eos' THEN MetEos(r)' ELSE Printing(r)')
        <4>1. Driving(r)'
          BY <2>1, <2>2, <3>1 DEF Driving
        <4>2. CASE eos
          BY <2>1, <3>1, <4>1, <4>2 DEF MetEos
        <4>3. CASE ~ eos
          <5>1. Printing(r)'
            BY <2>1, <2>2, <3>1, <4>3, OversizedKept DEF Printing
          <5> QED BY <2>1, <4>1, <4>3, <5>1
        <4> QED BY <4>2, <4>3
      <3> QED BY <1>1, <1>2, <2>1, <2>4, <3>1
    <2> QED BY <2>3, <2>4
  <1> QED BY <1>3, <1>4, <1>5, <1>6, <1>7, <1>8
          DEF ServingNext, Serve, DriverStep, HostStep, HostInit, HostAdd, HostReceives,
              HostFreesEngine, Stopped

LEMMA InitDriverInv == ServingInit => DriverInv
  BY DEF ServingInit, Init, DriverInv

LEMMA InvStopsRight ==
  ASSUME SchedInv, CallInv, DriverInv
  PROVE  DriverStopsRight
  <1> SUFFICES ASSUME client = "run_model", pc = "stopped"
               PROVE  \E r \in Requests :
                        /\ status[r] # "New"
                        /\ IF eos THEN printed = delivered[r] - 1
                           ELSE /\ status[r] = "Finished" \/ Oversized(r)
                                /\ printed + Cardinality(Outputs) = delivered[r]
    BY DEF DriverStopsRight
  <1>1. PICK r \in Requests : Driving(r) /\ (IF eos THEN MetEos(r) ELSE Printing(r))
    BY DEF DriverInv
  <1>2. phase = "idle" /\ status[r] # "New" /\ turns \in Nat /\ TypeOK /\ QueuesConsistent
    BY <1>1 DEF CallInv, Driving, DriverInv, SchedInv
  <1>3. CASE eos
    BY <1>1, <1>2, <1>3 DEF MetEos
  <1>4. CASE ~ eos
    <2>1. /\ printed = turns /\ before[r] = turns /\ active = <<>>
          /\ delivered[r] = IF Outputs = {} THEN turns ELSE turns + 1
          /\ status[r] = "Waiting" => Oversized(r)
      BY <1>1, <1>2, <1>4 DEF Printing
    <2>2. status[r] = "Finished" \/ Oversized(r)
      <3>1. status[r] \in {"Waiting", "Finished"}
        BY <1>1, <1>2, <2>1, OnlyRequest DEF TypeOK, Statuses
      <3> QED BY <2>1, <3>1
    <2>3. printed + Cardinality(Outputs) = delivered[r]
      <3>1. CASE Outputs = {}
        <4>1. Cardinality(Outputs) = 0
          BY <3>1, FS_EmptySet
        <4> QED BY <1>2, <2>1, <3>1, <4>1
      <3>2. CASE Outputs # {}
        <4>1. Outputs = {r}
          BY <1>1, <3>2 DEF Driving
        <4>2. Cardinality(Outputs) = 1
          BY <4>1, FS_Singleton
        <4> QED BY <2>1, <3>2, <4>2
      <3> QED BY <3>1, <3>2
    <2> QED BY <1>2, <1>4, <2>2, <2>3
  <1> QED BY <1>3, <1>4

\* With distinct ids run_model ends only after an EOS, or because its request
\* is finished, or could not be served by an empty pool; it has printed every
\* token up to the last call, and the turn limit never cuts it short.
THEOREM DriverAlwaysStopsRight ==
  ASSUME DistinctIds
  PROVE  ServingSpec => []DriverStopsRight
  <1>1. ServingSpec => [](SchedInv /\ ServiceInv /\ StuckOnlyOversized)
    BY ServingIsSpec, ServiceInvariant, OnlyOversizedWedges, PTL
  <1>2. SchedInv /\ ServiceInv /\ StuckOnlyOversized /\ CallInv /\ PromotionInv
          /\ DriverInv /\ [ServingNext]_svars => DriverInv'
    BY NextDriverInv
  <1>3. SchedInv /\ CallInv /\ DriverInv => DriverStopsRight
    BY InvStopsRight
  <1> QED BY <1>1, <1>2, <1>3, CallInvariant, PromotionInvariant, InitDriverInv, PTL DEF ServingSpec
=============================================================================
