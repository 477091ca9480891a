--------------------------- MODULE SchedulerProofs ---------------------------
(***************************************************************************)
(* Proofs about Scheduler.tla for any set of requests, any sizes, any pool *)
(* and any page and batch size: that it accounts for pages and requests,   *)
(* and that it keeps its promises to each caller, the service of           *)
(* GenerationService with every token delivered once.                      *)
(***************************************************************************)
EXTENDS Scheduler, SequenceTheorems, FiniteSetTheorems, TLAPS

(***************************************************************************)
(* What the list operations of the scheduler return.                       *)
(***************************************************************************)
LEMMA RemoveIndexFacts ==
  ASSUME NEW S, NEW s \in Seq(S), NEW k \in 1 .. Len(s)
  PROVE  /\ RemoveIndex(s, k) \in Seq(S)
         /\ Len(RemoveIndex(s, k)) = Len(s) - 1
         /\ \A j \in 1 .. (Len(s) - 1) :
              RemoveIndex(s, k)[j] = IF j < k THEN s[j] ELSE s[j + 1]
  <1> DEFINE a == SubSeq(s, 1, k - 1)
             b == SubSeq(s, k + 1, Len(s))
  <1>1. Len(s) \in Nat /\ \A j \in 1 .. Len(s) : s[j] \in S
    BY LenProperties, ElementOfSeq
  <1>2. /\ a \in Seq(S) /\ Len(a) = k - 1
        /\ \A j \in 1 .. (k - 1) : a[j] = s[j]
    BY <1>1, SubSeqProperties
  <1>3. /\ b \in Seq(S) /\ Len(b) = Len(s) - k
        /\ \A j \in 1 .. (Len(s) - k) : b[j] = s[k + j]
    BY <1>1, SubSeqProperties
  <1> DEFINE c == a \o b
  <1>4. RemoveIndex(s, k) = c
    BY DEF RemoveIndex
  <1> HIDE DEF a, b
  <1>5. /\ c \in Seq(S)
        /\ Len(c) = Len(a) + Len(b)
        /\ \A j \in 1 .. (Len(a) + Len(b)) :
             c[j] = IF j <= Len(a) THEN a[j] ELSE b[j - Len(a)]
    BY <1>2, <1>3, ConcatProperties
  <1> HIDE DEF c
  <1>6. Len(c) = Len(s) - 1
    BY <1>1, <1>2, <1>3, <1>5
  <1>7. ASSUME NEW j \in 1 .. (Len(s) - 1)
        PROVE  c[j] = IF j < k THEN s[j] ELSE s[j + 1]
    <2>1. CASE j < k
      <3>1. j \in 1 .. (k - 1) /\ j <= Len(a) /\ j \in 1 .. (Len(a) + Len(b))
        BY <1>1, <1>2, <1>3, <2>1
      <3> QED BY <1>2, <1>5, <2>1, <3>1
    <2>2. CASE ~ (j < k)
      <3>1. /\ j - Len(a) \in 1 .. (Len(s) - k) /\ ~ (j <= Len(a))
            /\ j \in 1 .. (Len(a) + Len(b)) /\ k + (j - Len(a)) = j + 1
        BY <1>1, <1>2, <1>3, <2>2
      <3> QED BY <1>3, <1>5, <2>2, <3>1
    <2> QED BY <2>1, <2>2
  <1> QED BY <1>4, <1>5, <1>6, <1>7

LEMMA InsertFirstFacts ==
  ASSUME NEW S, NEW s \in Seq(S), NEW e \in S
  PROVE  /\ InsertFirst(s, e) \in Seq(S)
         /\ Len(InsertFirst(s, e)) = Len(s) + 1
         /\ \A j \in 1 .. (Len(s) + 1) :
              InsertFirst(s, e)[j] = IF j = 1 THEN e ELSE s[j - 1]
  <1>1. <<e>> \in Seq(S) /\ Len(<<e>>) = 1 /\ <<e>>[1] = e
    OBVIOUS
  <1>2. Len(s) \in Nat
    BY LenProperties
  <1> QED BY <1>1, <1>2, ConcatProperties DEF InsertFirst

\* The same operations as sets of elements, for lists without repetition.
LEMMA RemoveIndexSet ==
  ASSUME NEW S, NEW s \in Seq(S), NEW k \in 1 .. Len(s), NoRepeats(s)
  PROVE  /\ SetOf(RemoveIndex(s, k)) = SetOf(s) \ {s[k]}
         /\ NoRepeats(RemoveIndex(s, k))
  <1> DEFINE t == RemoveIndex(s, k)
  <1>1. /\ Len(s) \in Nat /\ Len(t) = Len(s) - 1
        /\ \A j \in 1 .. (Len(s) - 1) : t[j] = IF j < k THEN s[j] ELSE s[j + 1]
    BY RemoveIndexFacts, LenProperties
  <1> HIDE DEF t
  <1>2. ASSUME NEW x \in SetOf(t) PROVE x \in SetOf(s) \ {s[k]}
    BY <1>1 DEF SetOf, NoRepeats
  <1>3. ASSUME NEW x \in SetOf(s) \ {s[k]} PROVE x \in SetOf(t)
    <2>1. PICK j \in 1 .. Len(s) : x = s[j] /\ j # k
      BY <1>3 DEF SetOf
    <2>2. CASE j < k
      BY <1>1, <2>1, <2>2 DEF SetOf
    <2>3. CASE j > k
      <3>1. j - 1 \in 1 .. (Len(s) - 1) /\ t[j - 1] = s[j]
        BY <1>1, <2>1, <2>3
      <3> QED BY <1>1, <2>1, <3>1 DEF SetOf
    <2> QED BY <1>1, <2>1, <2>2, <2>3
  <1>4. NoRepeats(t)
    BY <1>1 DEF NoRepeats
  <1> QED BY <1>2, <1>3, <1>4 DEF t

LEMMA InsertFirstSet ==
  ASSUME NEW S, NEW s \in Seq(S), NEW e \in S
  PROVE  /\ SetOf(InsertFirst(s, e)) = SetOf(s) \cup {e}
         /\ NoRepeats(s) /\ e \notin SetOf(s) => NoRepeats(InsertFirst(s, e))
  <1> DEFINE t == InsertFirst(s, e)
  <1>1. /\ Len(s) \in Nat /\ Len(t) = Len(s) + 1
        /\ \A j \in 1 .. (Len(s) + 1) : t[j] = IF j = 1 THEN e ELSE s[j - 1]
    <2>1. Len(s) \in Nat
      BY LenProperties
    <2> QED BY <2>1, InsertFirstFacts
  <1> HIDE DEF t
  <1>2. ASSUME NEW x \in SetOf(t) PROVE x \in SetOf(s) \cup {e}
    BY <1>1 DEF SetOf
  <1>3. e \in SetOf(t)
    BY <1>1 DEF SetOf
  <1>4. ASSUME NEW x \in SetOf(s) PROVE x \in SetOf(t)
    <2>1. PICK j \in 1 .. Len(s) : x = s[j]
      BY DEF SetOf
    <2>2. j + 1 \in 1 .. Len(t) /\ t[j + 1] = s[j]
      BY <1>1
    <2> QED BY <2>1, <2>2 DEF SetOf
  <1>5. ASSUME NoRepeats(s), e \notin SetOf(s) PROVE NoRepeats(t)
    BY <1>1, <1>5 DEF NoRepeats, SetOf
  <1> QED BY <1>2, <1>3, <1>4, <1>5 DEF t

LEMMA AppendSet ==
  ASSUME NEW S, NEW s \in Seq(S), NEW e \in S
  PROVE  /\ Append(s, e) \in Seq(S)
         /\ Len(Append(s, e)) = Len(s) + 1
         /\ \A j \in 1 .. Len(s) : Append(s, e)[j] = s[j]
         /\ Append(s, e)[Len(s) + 1] = e
         /\ SetOf(Append(s, e)) = SetOf(s) \cup {e}
         /\ NoRepeats(s) /\ e \notin SetOf(s) => NoRepeats(Append(s, e))
  <1>1. Len(s) \in Nat
    BY LenProperties
  <1>2. /\ Append(s, e) \in Seq(S)
        /\ Len(Append(s, e)) = Len(s) + 1
        /\ \A j \in 1 .. Len(s) : Append(s, e)[j] = s[j]
        /\ Append(s, e)[Len(s) + 1] = e
    BY <1>1
  <1> DEFINE t == Append(s, e)
  <1> HIDE DEF t
  <1>3. SetOf(t) = SetOf(s) \cup {e}
    BY <1>1, <1>2 DEF SetOf, t
  <1>4. NoRepeats(s) /\ e \notin SetOf(s) => NoRepeats(t)
    BY <1>1, <1>2 DEF NoRepeats, SetOf, t
  <1> QED BY <1>2, <1>3, <1>4 DEF t

LEMMA TailSet ==
  ASSUME NEW S, NEW s \in Seq(S), s # <<>>
  PROVE  /\ Tail(s) \in Seq(S)
         /\ Len(Tail(s)) = Len(s) - 1
         /\ Head(s) = s[1] /\ Head(s) \in SetOf(s) /\ Head(s) \in S
         /\ NoRepeats(s) => /\ SetOf(Tail(s)) = SetOf(s) \ {Head(s)}
                            /\ NoRepeats(Tail(s))
  <1>1. /\ Len(s) \in Nat \ {0} /\ Head(s) = s[1] /\ Head(s) \in S
        /\ Tail(s) \in Seq(S) /\ Len(Tail(s)) = Len(s) - 1
        /\ \A j \in 1 .. (Len(s) - 1) : Tail(s)[j] = s[j + 1]
    BY HeadTailProperties, EmptySeq
  <1> DEFINE t == Tail(s)
  <1> HIDE DEF t
  <1>2. Head(s) \in SetOf(s)
    BY <1>1 DEF SetOf
  <1>3. ASSUME NoRepeats(s) PROVE NoRepeats(t)
    BY <1>1, <1>3 DEF NoRepeats, t
  <1>4. ASSUME NoRepeats(s), NEW x \in SetOf(t) PROVE x \in SetOf(s) \ {Head(s)}
    BY <1>1, <1>4 DEF NoRepeats, SetOf, t
  <1>5. ASSUME NEW x \in SetOf(s) \ {Head(s)} PROVE x \in SetOf(t)
    <2>1. PICK j \in 1 .. Len(s) : x = s[j] /\ j # 1
      BY <1>1, <1>5 DEF SetOf
    <2>2. j - 1 \in 1 .. Len(t) /\ t[j - 1] = s[j]
      BY <1>1, <2>1 DEF t
    <2> QED BY <2>1, <2>2 DEF SetOf
  <1> QED BY <1>1, <1>2, <1>3, <1>4, <1>5 DEF t

-----------------------------------------------------------------------------
(***************************************************************************)
(* PagesAccounted depends on QueuesConsistent: a promoted request must not *)
(* hold pages already, or its old table would be overwritten and lost, and *)
(* the element that the cleanup loop removes must be the only occurrence.  *)
(***************************************************************************)
SchedInv == TypeOK /\ QueuesConsistent /\ PagesAccounted

LEMMA InitSchedInv == Init => SchedInv
  <1> SUFFICES ASSUME Init PROVE SchedInv
    OBVIOUS
  <1>1. TypeOK
    BY DEF Init, TypeOK, Statuses, Phases
  <1>2. QueuesConsistent
    BY DEF Init, QueuesConsistent, NoRepeats, SetOf
  <1>3. PagesAccounted
    BY DEF Init, PagesAccounted, NoRepeats, SetOf
  <1> QED BY <1>1, <1>2, <1>3 DEF SchedInv

\* The request the cleanup loop looks at.
LEMMA CurrentFacts ==
  ASSUME TypeOK, QueuesConsistent, InCleanup
  PROVE  /\ i \in 1 .. Len(active)
         /\ Current \in Requests
         /\ Current \in SetOf(active)
         /\ status[Current] = "Running"
  <1>1. Len(active) \in Nat /\ i \in 1 .. Len(active)
    BY LenProperties DEF TypeOK, InCleanup
  <1>2. Current \in Requests /\ Current \in SetOf(active)
    BY <1>1, ElementOfSeq DEF Current, SetOf, TypeOK
  <1> QED BY <1>1, <1>2 DEF QueuesConsistent

LEMMA HeadFacts ==
  ASSUME TypeOK, QueuesConsistent, waiting # <<>>
  PROVE  /\ Head(waiting) \in Requests
         /\ Head(waiting) \in SetOf(waiting)
         /\ status[Head(waiting)] = "Waiting"
         /\ table[Head(waiting)] = <<>>
         /\ Tail(waiting) \in Seq(Requests)
         /\ SetOf(Tail(waiting)) = SetOf(waiting) \ {Head(waiting)}
         /\ NoRepeats(Tail(waiting))
  BY TailSet DEF TypeOK, QueuesConsistent

\* Removing the current request shortens active_seqs by exactly that one.
LEMMA RemovalFacts ==
  ASSUME TypeOK, QueuesConsistent, InCleanup
  PROVE  LET rest == RemoveIndex(active, i)
         IN  /\ rest \in Seq(Requests)
             /\ Len(rest) = Len(active) - 1
             /\ SetOf(rest) = SetOf(active) \ {Current}
             /\ NoRepeats(rest)
             /\ IndexAfterRemoval \in 1 .. (Len(rest) + 1)
  <1> DEFINE rest == RemoveIndex(active, i)
  <1>1. /\ i \in 1 .. Len(active) /\ Len(active) \in Nat
        /\ active \in Seq(Requests) /\ NoRepeats(active)
    BY CurrentFacts, LenProperties DEF TypeOK, QueuesConsistent
  <1>2. rest \in Seq(Requests) /\ Len(rest) = Len(active) - 1
    BY <1>1, RemoveIndexFacts
  <1>3. SetOf(rest) = SetOf(active) \ {active[i]} /\ NoRepeats(rest)
    BY <1>1, RemoveIndexSet
  <1> QED BY <1>1, <1>2, <1>3 DEF Current, IndexAfterRemoval

-----------------------------------------------------------------------------
LEMMA NextTypeOK == SchedInv /\ [Next]_vars => TypeOK'
  <1> SUFFICES ASSUME TypeOK, QueuesConsistent, [Next]_vars PROVE TypeOK'
    BY DEF SchedInv
  <1>0. Len(active) \in Nat
    BY LenProperties DEF TypeOK
  <1>1. ASSUME NEW r \in Requests, AddRequest(r) PROVE TypeOK'
    <2>1. PICK sz \in Sizes :
            /\ maxNew' = [maxNew EXCEPT ![r] = sz[2]]
            /\ promptLen' = [promptLen EXCEPT ![r] = sz[1]]
            /\ numTokens' = [numTokens EXCEPT ![r] = sz[1]]
      BY <1>1 DEF AddRequest, StartTokens
    <2>2. sz[1] \in Nat /\ sz[2] \in Nat
      BY SizesAssumption
    <2>3. waiting' \in Seq(Requests) /\ status' \in [Requests -> Statuses]
      BY <1>1, AppendSet DEF AddRequest, TypeOK, Statuses
    <2> QED BY <1>1, <2>1, <2>2, <2>3 DEF AddRequest, TypeOK
  <1>2. CASE CallStep \/ PromoteDone \/ NothingRunning \/ CleanupDone
    BY <1>2 DEF CallStep, PromoteDone, NothingRunning, CleanupDone, TypeOK,
                queues, tokens, Phases
  <1>3. CASE MapPage
    <2>1. PICK p \in Pages : free' = free \ {p} /\ mapped' = Append(mapped, p)
      BY <1>3 DEF MapPage, AllocPage
    <2>2. free' \subseteq Pages /\ mapped' \in Seq(Pages)
      BY <2>1, AppendSet DEF TypeOK
    <2> QED BY <1>3, <2>2 DEF MapPage, TypeOK, queues, tokens
  <1>4. CASE PromoteOom
    <2>1. SetOf(mapped) \subseteq Pages
      BY ElementOfSeq DEF SetOf, TypeOK
    <2>2. free' \subseteq Pages /\ phase' \in Phases /\ mapped' \in Seq(Pages)
      BY <1>4, <2>1 DEF PromoteOom, TypeOK, RolledBack, AfterOom, Phases
    <2> QED BY <1>4, <2>2 DEF PromoteOom, queues, tokens, TypeOK
  <1>5. CASE Promote
    <2>1. /\ Head(waiting) \in Requests /\ Tail(waiting) \in Seq(Requests)
      BY <1>5, HeadFacts DEF Promote, CanPromote
    <2>2. /\ active' \in Seq(Requests) /\ Len(active') = Len(active) + 1
      BY <1>5, <2>1, AppendSet DEF Promote, TypeOK
    <2>3. i' \in 1 .. (Len(active') + 1)
      BY <1>0, <1>5, <2>2 DEF Promote, TypeOK
    <2>4. status' \in [Requests -> Statuses] /\ table' \in [Requests -> Seq(Pages)]
      BY <1>5 DEF Promote, TypeOK, Statuses
    <2>5. waiting' \in Seq(Requests) /\ mapped' \in Seq(Pages)
      BY <1>5, <2>1 DEF Promote
    <2> QED BY <1>5, <2>2, <2>3, <2>4, <2>5 DEF Promote, tokens, TypeOK
  <1>6. CASE StepBatch
    <2>1. i' \in 1 .. (Len(active') + 1)
      BY <1>0, <1>6 DEF StepBatch, queues
    <2> QED BY <1>6, <2>1 DEF StepBatch, queues, tokens, TypeOK, Phases
  <1>7. CASE ApplyOutput
    <2>1. PICK r \in Requests :
            /\ numTokens' = [numTokens EXCEPT ![r] = @ + 1]
            /\ \/ promptLen' = promptLen
               \/ promptLen' = [promptLen EXCEPT ![r] = @ + 1]
            /\ \/ generated' = generated
               \/ generated' = [generated EXCEPT ![r] = @ + 1]
      BY <1>7 DEF ApplyOutput
    <2>2. promptLen' \in [Requests -> Nat]
      <3>1. CASE promptLen' = promptLen
        BY <3>1 DEF TypeOK
      <3>2. CASE promptLen' = [promptLen EXCEPT ![r] = @ + 1]
        BY <3>2 DEF TypeOK
      <3> QED BY <2>1, <3>1, <3>2
    <2>3. generated' \in [Requests -> Nat]
      <3>1. CASE generated' = generated
        BY <3>1 DEF TypeOK
      <3>2. CASE generated' = [generated EXCEPT ![r] = @ + 1]
        BY <3>2 DEF TypeOK
      <3> QED BY <2>1, <3>1, <3>2
    <2>4. numTokens' \in [Requests -> Nat]
      BY <2>1 DEF TypeOK
    <2>5. i' \in 1 .. (Len(active') + 1)
      <3>1. i' = i + 1 /\ i <= Len(active) /\ active' = active
        BY <1>7 DEF ApplyOutput, queues
      <3> QED BY <1>0, <3>1 DEF TypeOK
    <2> QED BY <1>7, <2>2, <2>3, <2>4, <2>5 DEF ApplyOutput, queues, TypeOK
  <1>8. CASE FilterOutputs
    <2>1. i' \in 1 .. (Len(active') + 1)
      BY <1>0, <1>8 DEF FilterOutputs, queues
    <2>2. delivered' \in [Requests -> Nat]
      BY <1>8 DEF FilterOutputs, TypeOK
    <2> QED BY <1>8, <2>1, <2>2 DEF FilterOutputs, queues, tokens, TypeOK, Phases
  <1>9. CASE Finish \/ Preempt
    <2>1. InCleanup /\ ReleasePages(Current) /\ active' = RemoveIndex(active, i)
          /\ i' = IndexAfterRemoval
      BY <1>9 DEF Finish, Preempt
    <2>2. Current \in Requests /\ SetOf(table[Current]) \subseteq Pages
      <3>1. Current \in Requests /\ table[Current] \in Seq(Pages)
        BY <2>1, CurrentFacts DEF TypeOK
      <3> QED BY <3>1, ElementOfSeq DEF SetOf
    <2>3. free' \subseteq Pages /\ table' \in [Requests -> Seq(Pages)]
      BY <2>1, <2>2 DEF ReleasePages, TypeOK
    <2>4. active' \in Seq(Requests) /\ i' \in 1 .. (Len(active') + 1)
      BY <2>1, RemovalFacts
    <2>5. waiting' \in Seq(Requests)
      <3>1. waiting' = waiting \/ waiting' = InsertFirst(waiting, Current)
        BY <1>9 DEF Finish, Preempt
      <3>2. InsertFirst(waiting, Current) \in Seq(Requests)
        BY <2>2, InsertFirstFacts DEF TypeOK
      <3> QED BY <3>1, <3>2 DEF TypeOK
    <2>6. status' \in [Requests -> Statuses]
      BY <1>9 DEF Finish, Preempt, TypeOK, Statuses
    <2> QED BY <1>9, <2>3, <2>4, <2>5, <2>6 DEF Finish, Preempt, tokens, TypeOK
  <1>10. CASE Keep
    <2>1. i' = i + 1 /\ i <= Len(active) /\ active' = active
      BY <1>10 DEF Keep, InCleanup, queues
    <2>2. i' \in 1 .. (Len(active') + 1)
      BY <1>0, <2>1 DEF TypeOK
    <2> QED BY <1>10, <2>2 DEF Keep, queues, tokens, TypeOK
  <1>11. CASE Grow
    <2>1. Current \in Requests
      BY <1>11, CurrentFacts DEF Grow
    <2>2. PICK p \in Pages :
            /\ free' = free \ {p}
            /\ table' = [table EXCEPT ![Current] = Append(@, p)]
      BY <1>11 DEF Grow, AllocPage
    <2>3. table' \in [Requests -> Seq(Pages)] /\ free' \subseteq Pages
      BY <2>1, <2>2, AppendSet DEF TypeOK
    <2>4. i' = i + 1 /\ i <= Len(active) /\ active' = active
      BY <1>11 DEF Grow, InCleanup, queues
    <2>5. i' \in 1 .. (Len(active') + 1)
      BY <1>0, <2>4 DEF TypeOK
    <2> QED BY <1>11, <2>3, <2>5 DEF Grow, queues, tokens, TypeOK
  <1>12. CASE UNCHANGED vars
    BY <1>12 DEF vars, queues, tokens, TypeOK
  <1> QED BY <1>1, <1>2, <1>3, <1>4, <1>5, <1>6, <1>7, <1>8, <1>9, <1>10,
             <1>11, <1>12 DEF Next, Step, ControlStep, PromoteStep, CleanupStep

-----------------------------------------------------------------------------
\* The steps that leave the queues and the pages alone.
Quiet == UNCHANGED <<free, waiting, active, status, table, mapped>>

LEMMA StepKinds ==
  ASSUME [Next]_vars
  PROVE  \/ Quiet
         \/ \E r \in Requests : AddRequest(r)
         \/ MapPage \/ PromoteOom \/ Promote
         \/ Finish \/ Grow \/ Preempt
  BY DEF Next, Step, ControlStep, PromoteStep, CleanupStep, vars, queues,
         CallStep, PromoteDone, NothingRunning, StepBatch, ApplyOutput,
         FilterOutputs, Keep, CleanupDone, Quiet

LEMMA NextQueuesConsistent == SchedInv /\ [Next]_vars => QueuesConsistent'
  <1> SUFFICES ASSUME TypeOK, QueuesConsistent, [Next]_vars
               PROVE  QueuesConsistent'
    BY DEF SchedInv
  <1>1. CASE Quiet
    BY <1>1 DEF Quiet, QueuesConsistent
  <1>2. ASSUME NEW r \in Requests, AddRequest(r) PROVE QueuesConsistent'
    <2>1. /\ status[r] = "New" /\ waiting' = Append(waiting, r)
          /\ status' = [status EXCEPT ![r] = "Waiting"]
          /\ active' = active /\ table' = table
      BY <1>2 DEF AddRequest
    <2>2. r \notin SetOf(waiting)
      BY <2>1 DEF QueuesConsistent
    <2>3. SetOf(waiting') = SetOf(waiting) \cup {r} /\ NoRepeats(waiting')
      BY <2>1, <2>2, AppendSet DEF TypeOK, QueuesConsistent
    <2> QED BY <2>1, <2>3 DEF TypeOK, QueuesConsistent
  <1>3. CASE MapPage \/ PromoteOom
    BY <1>3 DEF MapPage, PromoteOom, queues, QueuesConsistent
  <1>4. CASE Promote
    <2> DEFINE r == Head(waiting)
    <2>1. /\ waiting # <<>> /\ waiting' = Tail(waiting)
          /\ active' = Append(active, r)
          /\ status' = [status EXCEPT ![r] = "Running"]
          /\ table' = [table EXCEPT ![r] = mapped]
      BY <1>4 DEF Promote, CanPromote
    <2>2. /\ r \in Requests /\ status[r] = "Waiting"
          /\ SetOf(waiting') = SetOf(waiting) \ {r} /\ NoRepeats(waiting')
      BY <2>1, HeadFacts
    <2> HIDE DEF r
    <2>3. r \notin SetOf(active)
      BY <2>2 DEF QueuesConsistent
    <2>4. SetOf(active') = SetOf(active) \cup {r} /\ NoRepeats(active')
      BY <2>1, <2>2, <2>3, AppendSet DEF TypeOK, QueuesConsistent
    <2> QED BY <2>1, <2>2, <2>4 DEF TypeOK, QueuesConsistent
  <1>5. CASE Finish \/ Preempt
    <2> DEFINE r == Current
    <2>1. /\ InCleanup /\ active' = RemoveIndex(active, i)
          /\ table' = [table EXCEPT ![r] = <<>>]
      BY <1>5 DEF Finish, Preempt, ReleasePages
    <2>2. r \in Requests /\ status[r] = "Running"
      BY <2>1, CurrentFacts
    <2>3. SetOf(active') = SetOf(active) \ {r} /\ NoRepeats(active')
      BY <2>1, RemovalFacts
    <2>4. r \notin SetOf(waiting)
      BY <2>2 DEF QueuesConsistent
    <2>5. CASE Finish
      <3>1. waiting' = waiting /\ status' = [status EXCEPT ![r] = "Finished"]
        BY <2>5 DEF Finish
      <3> HIDE DEF r
      <3> QED BY <2>1, <2>2, <2>3, <2>4, <3>1 DEF TypeOK, QueuesConsistent
    <2>6. CASE Preempt
      <3>1. /\ waiting' = InsertFirst(waiting, r)
            /\ status' = [status EXCEPT ![r] = "Waiting"]
        BY <2>6 DEF Preempt
      <3> HIDE DEF r
      <3>2. SetOf(waiting') = SetOf(waiting) \cup {r} /\ NoRepeats(waiting')
        BY <2>2, <2>4, <3>1, InsertFirstSet DEF TypeOK, QueuesConsistent
      <3> QED BY <2>1, <2>2, <2>3, <3>1, <3>2 DEF TypeOK, QueuesConsistent
    <2> QED BY <1>5, <2>5, <2>6
  <1>6. CASE Grow
    <2> DEFINE r == Current
    <2>1. /\ waiting' = waiting /\ active' = active /\ status' = status
          /\ \A q \in Requests : q # r => table'[q] = table[q]
      BY <1>6 DEF Grow, queues, TypeOK
    <2>2. status[r] = "Running"
      BY <1>6, CurrentFacts DEF Grow
    <2> HIDE DEF r
    <2> QED BY <2>1, <2>2 DEF QueuesConsistent
  <1> QED BY <1>1, <1>2, <1>3, <1>4, <1>5, <1>6, StepKinds

LEMMA NextPagesAccounted == SchedInv /\ [Next]_vars => PagesAccounted'
  <1> SUFFICES ASSUME TypeOK, QueuesConsistent, PagesAccounted, [Next]_vars
               PROVE  PagesAccounted'
    BY DEF SchedInv
  <1>0. SetOf(<<>>) = {} /\ NoRepeats(<<>>)
    BY DEF SetOf, NoRepeats
  <1>1. CASE Quiet
    BY <1>1 DEF Quiet, PagesAccounted
  <1>2. ASSUME NEW r \in Requests, AddRequest(r) PROVE PagesAccounted'
    <2>1. free' = free /\ mapped' = mapped /\ table' = table
      BY <1>2 DEF AddRequest
    <2> QED BY <2>1 DEF PagesAccounted
  <1>3. CASE MapPage
    <2>1. PICK p \in free : /\ free' = free \ {p} /\ mapped' = Append(mapped, p)
                            /\ table' = table
      BY <1>3 DEF MapPage, AllocPage
    <2>2. p \notin SetOf(mapped) /\ \A r \in Requests : p \notin SetOf(table[r])
      BY DEF PagesAccounted
    <2>3. p \in Pages
      BY DEF TypeOK
    <2>4. SetOf(mapped') = SetOf(mapped) \cup {p} /\ NoRepeats(mapped')
      BY <2>1, <2>2, <2>3, AppendSet DEF TypeOK, PagesAccounted
    <2> QED BY <2>1, <2>2, <2>3, <2>4 DEF PagesAccounted
  <1>4. CASE PromoteOom
    <2>1. free' = free \cup SetOf(mapped) /\ mapped' = <<>> /\ table' = table
      BY <1>4 DEF PromoteOom, RolledBack
    <2> QED BY <1>0, <2>1 DEF PagesAccounted
  <1>5. CASE Promote
    <2> DEFINE r == Head(waiting)
    <2>1. /\ free' = free /\ mapped' = <<>>
          /\ table' = [table EXCEPT ![r] = mapped]
      BY <1>5 DEF Promote
    <2>2. r \in Requests /\ table[r] = <<>>
      BY <1>5, HeadFacts DEF Promote, CanPromote
    <2> HIDE DEF r
    <2>3. /\ table'[r] = mapped
          /\ \A q \in Requests : q # r => table'[q] = table[q]
      BY <2>1, <2>2 DEF TypeOK
    <2> QED BY <1>0, <2>1, <2>2, <2>3 DEF PagesAccounted
  <1>6. CASE Finish \/ Preempt
    <2> DEFINE r == Current
    <2>1. /\ free' = free \cup SetOf(table[r]) /\ mapped' = mapped
          /\ table' = [table EXCEPT ![r] = <<>>]
      BY <1>6 DEF Finish, Preempt, ReleasePages
    <2>2. r \in Requests
      BY <1>6, CurrentFacts DEF Finish, Preempt
    <2> HIDE DEF r
    <2>3. /\ table'[r] = <<>>
          /\ \A q \in Requests : q # r => table'[q] = table[q]
      BY <2>1, <2>2 DEF TypeOK
    <2> QED BY <1>0, <2>1, <2>2, <2>3 DEF PagesAccounted
  <1>7. CASE Grow
    <2> DEFINE r == Current
    <2>1. PICK p \in free : /\ free' = free \ {p} /\ mapped' = mapped
                            /\ table' = [table EXCEPT ![r] = Append(@, p)]
      BY <1>7 DEF Grow, AllocPage
    <2>2. r \in Requests
      BY <1>7, CurrentFacts DEF Grow
    <2> HIDE DEF r
    <2>3. p \in Pages /\ p \notin SetOf(mapped)
          /\ \A q \in Requests : p \notin SetOf(table[q])
      BY DEF PagesAccounted, TypeOK
    <2>4. /\ table'[r] = Append(table[r], p)
          /\ \A q \in Requests : q # r => table'[q] = table[q]
      BY <2>1, <2>2 DEF TypeOK
    <2>5. SetOf(table'[r]) = SetOf(table[r]) \cup {p} /\ NoRepeats(table'[r])
      BY <2>2, <2>3, <2>4, AppendSet DEF TypeOK, PagesAccounted
    <2> DEFINE old(q) == SetOf(table[q])
               new(q) == SetOf(table'[q])
    <2>6. /\ new(r) = old(r) \cup {p}
          /\ \A q \in Requests : q # r => new(q) = old(q)
      BY <2>4, <2>5
    <2>7. \A q \in Requests : NoRepeats(table'[q])
      BY <2>4, <2>5 DEF PagesAccounted
    <2>8. /\ free \cup SetOf(mapped) \cup UNION {old(q) : q \in Requests} = Pages
          /\ \A q \in Requests : free \cap old(q) = {} /\ SetOf(mapped) \cap old(q) = {}
          /\ \A q, x \in Requests : q # x => old(q) \cap old(x) = {}
          /\ free \cap SetOf(mapped) = {} /\ NoRepeats(mapped)
      BY DEF PagesAccounted
    <2> HIDE DEF old, new
    <2>9. free' \cup SetOf(mapped') \cup UNION {new(q) : q \in Requests} = Pages
      BY <2>1, <2>2, <2>3, <2>6, <2>8
    <2>10. \A q \in Requests : free' \cap new(q) = {} /\ SetOf(mapped') \cap new(q) = {}
      BY <2>1, <2>2, <2>3, <2>6, <2>8
    <2>11. \A q, x \in Requests : q # x => new(q) \cap new(x) = {}
      BY <2>1, <2>2, <2>3, <2>6, <2>8 DEF old
    <2> QED BY <2>1, <2>7, <2>8, <2>9, <2>10, <2>11 DEF PagesAccounted, new
  <1> QED BY <1>1, <1>2, <1>3, <1>4, <1>5, <1>6, <1>7, StepKinds

\* SchedInv is an inductive invariant of the scheduler.
THEOREM SchedulerInvariant == Spec => []SchedInv
  <1>1. SchedInv /\ [Next]_vars => SchedInv'
    BY NextTypeOK, NextQueuesConsistent, NextPagesAccounted DEF SchedInv
  <1> QED BY <1>1, InitSchedInv, PTL DEF Spec

\* Every variable keeps its type, and the cleanup index never leaves the list
\* it walks while elements are removed from it.
THEOREM TypeCorrect == Spec => []TypeOK
  <1>1. SchedInv => TypeOK
    BY DEF SchedInv
  <1> QED BY <1>1, SchedulerInvariant, PTL

\* Each page is free or at one place of one block table, at every step of
\* every promotion, rollback, growth, finish and preemption.
THEOREM PagesNeverLost == Spec => []PagesAccounted
  <1>1. SchedInv => PagesAccounted
    BY DEF SchedInv
  <1> QED BY <1>1, SchedulerInvariant, PTL

\* Every unfinished request is in exactly one queue, once, and only running
\* ones hold pages.
THEOREM QueuesStayConsistent == Spec => []QueuesConsistent
  <1>1. SchedInv => QueuesConsistent
    BY DEF SchedInv
  <1> QED BY <1>1, SchedulerInvariant, PTL
-----------------------------------------------------------------------------
(***************************************************************************)
(* step_forward never indexes past the end of a block table, for any       *)
(* assignment of seq_ids, even shared ones, provided that a batch is no    *)
(* longer than a page has tokens (both are 16 in the code).                *)
(***************************************************************************)
\* While outputs are applied a sequence may be up to i - 1 tokens ahead of its
\* table, since i - 1 outputs may have gone to it; the cleanup turns that
\* follow catch up, one page each.
Slack(k) == IF phase = "apply" THEN i - 1
            ELSE IF phase = "cleanup" /\ k >= i THEN PageTokens
            ELSE 0

Covered(r, slack) == numTokens[r] + 1 <= PageTokens * Len(table[r]) + slack

SlotInv ==
  /\ Len(active) <= MaxBatch
  /\ \A k \in 1 .. Len(active) : Covered(active[k], Slack(k))

(***************************************************************************)
(* Pages for tokens.                                                       *)
(***************************************************************************)
LEMMA DivFacts ==
  ASSUME NEW n \in Nat, NEW d \in Nat \ {0}
  PROVE  /\ n \div d \in Nat
         /\ d * (n \div d) <= n
         /\ n < d * (n \div d) + d
  OBVIOUS

LEMMA ProductMonotone ==
  ASSUME NEW d \in Nat, NEW a \in Nat, NEW b \in Nat, a <= b
  PROVE  d * a <= d * b
  OBVIOUS

LEMMA DivMonotone ==
  ASSUME NEW a \in Nat, NEW b \in Nat, a <= b
  PROVE  a \div PageTokens \in Nat /\ a \div PageTokens <= b \div PageTokens
  <1> DEFINE p == a \div PageTokens
             q == b \div PageTokens
  <1>1. /\ p \in Nat /\ PageTokens * p <= a
        /\ q \in Nat /\ b < PageTokens * q + PageTokens
    BY DivFacts, PageTokensAssumption
  <1> HIDE DEF p, q
  <1>2. CASE q + 1 <= p
    <2>1. PageTokens * (q + 1) <= PageTokens * p
      BY <1>1, <1>2, ProductMonotone, PageTokensAssumption
    <2>2. PageTokens * (q + 1) = PageTokens * q + PageTokens
      BY <1>1, PageTokensAssumption
    <2>3. PageTokens * q \in Nat /\ PageTokens * p \in Nat
      BY <1>1, PageTokensAssumption
    <2> QED BY <1>1, <2>1, <2>2, <2>3, PageTokensAssumption
  <1> QED BY <1>1, <1>2 DEF p, q

LEMMA PagesForFacts ==
  ASSUME NEW n \in Nat
  PROVE  PagesFor(n) \in Nat /\ n <= PageTokens * PagesFor(n)
  <1>1. n + PageTokens - 1 \in Nat
    BY PageTokensAssumption
  <1> QED BY <1>1, DivFacts, PageTokensAssumption DEF PagesFor

LEMMA PagesForMonotone ==
  ASSUME NEW m \in Nat, NEW n \in Nat, m <= n
  PROVE  PagesFor(m) \in Nat /\ PagesFor(n) \in Nat /\ PagesFor(m) <= PagesFor(n)
  <1>1. /\ m + PageTokens - 1 \in Nat /\ n + PageTokens - 1 \in Nat
        /\ m + PageTokens - 1 <= n + PageTokens - 1
    BY PageTokensAssumption
  <1>2. PagesFor(n) \in Nat
    BY PagesForFacts
  <1> QED BY <1>1, <1>2, DivMonotone DEF PagesFor

LEMMA PagesForNext ==
  ASSUME NEW n \in Nat
  PROVE  PagesFor(n + 1) <= PagesFor(n) + 1
  <1> DEFINE p == PagesFor(n)
             q == PagesFor(n + 1)
  <1>1. /\ p \in Nat /\ n + PageTokens - 1 < PageTokens * p + PageTokens
        /\ q \in Nat /\ PageTokens * q <= (n + 1) + PageTokens - 1
    <2>1. n + PageTokens - 1 \in Nat /\ (n + 1) + PageTokens - 1 \in Nat
      BY PageTokensAssumption
    <2> QED BY <2>1, DivFacts, PageTokensAssumption DEF PagesFor
  <1> HIDE DEF p, q
  <1>2. CASE p + 2 <= q
    <2>1. PageTokens * (p + 2) <= PageTokens * q
      BY <1>1, <1>2, ProductMonotone, PageTokensAssumption
    <2>2. PageTokens * (p + 2) = PageTokens * p + PageTokens + PageTokens
      BY <1>1, PageTokensAssumption
    <2>3. PageTokens * q \in Nat /\ PageTokens * p \in Nat
      BY <1>1, PageTokensAssumption
    <2> QED BY <1>1, <2>1, <2>2, <2>3, PageTokensAssumption
  <1> QED BY <1>1, <1>2 DEF p, q

\* A page more than the tokens fill has room for one token more.
LEMMA RoomForNext ==
  ASSUME NEW n \in Nat, NEW pages \in Nat, PagesFor(n) + 1 <= pages
  PROVE  n + 1 <= PageTokens * pages
  <1>1. PagesFor(n) \in Nat /\ n <= PageTokens * PagesFor(n)
    BY PagesForFacts
  <1>2. PageTokens * (PagesFor(n) + 1) <= PageTokens * pages
    BY <1>1, ProductMonotone, PageTokensAssumption
  <1>3. PageTokens * (PagesFor(n) + 1) = PageTokens * PagesFor(n) + PageTokens
    BY <1>1, PageTokensAssumption
  <1>4. PageTokens * PagesFor(n) \in Nat /\ PageTokens * pages \in Nat
    BY <1>1, PageTokensAssumption
  <1> QED BY <1>1, <1>2, <1>3, <1>4, PageTokensAssumption

\* A request for which the cleanup finds no page missing is covered.
LEMMA RoomIfNoneMissing ==
  ASSUME NEW n \in Nat, NEW pages \in Nat, PagesFor(n + 1) <= pages
  PROVE  n + 1 <= PageTokens * pages
  <1>1. PagesFor(n + 1) \in Nat /\ n + 1 <= PageTokens * PagesFor(n + 1)
    BY PagesForFacts
  <1>2. PageTokens * PagesFor(n + 1) <= PageTokens * pages
    BY <1>1, ProductMonotone, PageTokensAssumption
  <1>3. PageTokens * PagesFor(n + 1) \in Nat /\ PageTokens * pages \in Nat
    BY <1>1, PageTokensAssumption
  <1> QED BY <1>1, <1>2, <1>3

LEMMA SlotInTable ==
  ASSUME NEW n \in Nat, NEW pages \in Nat, n + 1 <= PageTokens * pages
  PROVE  n \div PageTokens < pages
  <1> DEFINE q == n \div PageTokens
  <1>1. q \in Nat /\ PageTokens * q <= n
    BY DivFacts, PageTokensAssumption
  <1> HIDE DEF q
  <1>2. CASE pages <= q
    <2>1. PageTokens * pages <= PageTokens * q
      BY <1>1, <1>2, ProductMonotone, PageTokensAssumption
    <2>2. PageTokens * pages \in Nat /\ PageTokens * q \in Nat
      BY <1>1, PageTokensAssumption
    <2> QED BY <1>1, <2>1, <2>2
  <1> QED BY <1>1, <1>2 DEF q

(***************************************************************************)
(* SlotInv is inductive.                                                   *)
(***************************************************************************)
LEMMA ActiveFacts ==
  ASSUME TypeOK
  PROVE  /\ Len(active) \in Nat
         /\ \A k \in 1 .. Len(active) : active[k] \in Requests
         /\ \A r \in Requests : /\ numTokens[r] \in Nat
                                /\ Len(table[r]) \in Nat
                                /\ PageTokens * Len(table[r]) \in Nat
  <1>1. \A r \in Requests : numTokens[r] \in Nat /\ Len(table[r]) \in Nat
    BY LenProperties DEF TypeOK
  <1> QED BY <1>1, LenProperties, ElementOfSeq, PageTokensAssumption DEF TypeOK

LEMMA NextSlotInv ==
  ASSUME MaxBatch <= PageTokens, SchedInv, SlotInv, [Next]_vars
  PROVE  SlotInv'
  <1>0. TypeOK /\ QueuesConsistent
    BY DEF SchedInv
  <1> USE <1>0, ActiveFacts, PageTokensAssumption, MaxBatchAssumption
  <1>i. i \in Nat /\ 1 <= i /\ i <= Len(active) + 1
    BY DEF TypeOK
  <1>a. /\ Len(active) <= MaxBatch
        /\ \A k \in 1 .. Len(active) : Covered(active[k], Slack(k))
    BY DEF SlotInv
  <1>1. ASSUME NEW r \in Requests, AddRequest(r) PROVE SlotInv'
    <2>1. /\ active' = active /\ table' = table /\ phase' = phase /\ phase = "idle"
          /\ \A q \in Requests : q # r => numTokens'[q] = numTokens[q]
      BY <1>1 DEF AddRequest, TypeOK
    <2>2. ASSUME NEW k \in 1 .. Len(active) PROVE active[k] # r
      BY <1>1 DEF AddRequest, QueuesConsistent, SetOf
    <2> QED BY <1>a, <2>1, <2>2 DEF SlotInv, Covered, Slack
  <1>2. CASE CallStep \/ PromoteDone \/ NothingRunning \/ MapPage \/ PromoteOom
    <2>1. /\ active' = active /\ table' = table /\ numTokens' = numTokens
          /\ phase \in {"idle", "promote", "batch"}
          /\ phase' \in {"idle", "promote", "batch"}
      BY <1>2 DEF CallStep, PromoteDone, NothingRunning, MapPage, PromoteOom,
                  AfterOom, queues, tokens
    <2> QED BY <1>a, <2>1 DEF SlotInv, Covered, Slack
  <1>3. CASE Promote
    <2> DEFINE r == Head(waiting)
    <2>1. /\ phase = "promote" /\ phase' = phase /\ numTokens' = numTokens
          /\ active' = Append(active, r) /\ table' = [table EXCEPT ![r] = mapped]
          /\ Len(mapped) = PagesFor(numTokens[r]) + 1 /\ Len(active) < MaxBatch
      BY <1>3 DEF Promote, CanPromote, PrefetchPages, tokens
    <2>2. r \in Requests /\ status[r] = "Waiting"
      BY <1>3, HeadFacts DEF Promote, CanPromote
    <2> HIDE DEF r
    <2>3. /\ Len(active') = Len(active) + 1
          /\ \A k \in 1 .. Len(active) : active'[k] = active[k]
          /\ active'[Len(active) + 1] = r
      BY <2>1, <2>2, AppendSet DEF TypeOK
    <2>4. numTokens[r] + 1 <= PageTokens * Len(mapped)
      BY <2>1, <2>2, RoomForNext, LenProperties DEF TypeOK
    <2>5. ASSUME NEW k \in 1 .. Len(active') PROVE Covered(active[k], Slack(k))'
      <3>1. CASE k = Len(active) + 1
        <4>1. active'[k] = r /\ table'[r] = mapped /\ Slack(k)' = 0
          BY <2>1, <2>2, <2>3, <3>1 DEF Slack, TypeOK
        <4>2. PageTokens * Len(mapped) \in Nat
          BY LenProperties DEF TypeOK
        <4>3. numTokens'[r] + 1 <= PageTokens * Len(table'[r]) + 0
          BY <2>1, <2>2, <2>4, <4>1, <4>2
        <4> QED BY <4>1, <4>3 DEF Covered
      <3>2. CASE k \in 1 .. Len(active)
        <4>1. active[k] # r
          BY <2>2, <3>2 DEF QueuesConsistent, SetOf
        <4>2. numTokens'[active'[k]] = numTokens[active[k]]
              /\ table'[active'[k]] = table[active[k]]
          BY <2>1, <2>3, <3>2, <4>1 DEF TypeOK
        <4>3. Covered(active[k], Slack(k)) /\ Slack(k) = 0 /\ Slack(k)' = 0
          BY <1>a, <2>1, <3>2 DEF Slack
        <4> QED BY <4>2, <4>3 DEF Covered
      <3> QED BY <2>3, <3>1, <3>2
    <2>6. Len(active') <= MaxBatch
      BY <2>1, <2>3
    <2> QED BY <2>5, <2>6 DEF SlotInv
  <1>4. CASE StepBatch
    <2>1. /\ active' = active /\ table' = table /\ numTokens' = numTokens
          /\ phase = "batch" /\ phase' = "apply" /\ i' = 1
      BY <1>4 DEF StepBatch, queues, tokens
    <2> QED BY <1>a, <2>1 DEF SlotInv, Covered, Slack
  <1>5. CASE ApplyOutput
    <2>1. /\ active' = active /\ table' = table /\ phase = "apply" /\ phase' = phase
          /\ i' = i + 1
      BY <1>5 DEF ApplyOutput, queues
    <2>2. PICK r \in Requests : numTokens' = [numTokens EXCEPT ![r] = @ + 1]
      BY <1>5 DEF ApplyOutput
    <2>3. \A q \in Requests : numTokens'[q] \in Nat /\ numTokens'[q] <= numTokens[q] + 1
      <3>1. \A q \in Requests :
              numTokens'[q] = IF q = r THEN numTokens[q] + 1 ELSE numTokens[q]
        BY <2>2 DEF TypeOK
      <3> QED BY <3>1
    <2>4. ASSUME NEW k \in 1 .. Len(active) PROVE Covered(active[k], Slack(k))'
      <3>1. numTokens[active[k]] + 1 <= PageTokens * Len(table[active[k]]) + (i - 1)
        BY <1>a, <2>1 DEF Covered, Slack
      <3>2. Slack(k)' = i
        BY <1>i, <2>1 DEF Slack
      <3> DEFINE n == numTokens[active[k]]
                 room == PageTokens * Len(table[active[k]])
      <3>3. n \in Nat /\ room \in Nat /\ numTokens'[active[k]] \in Nat
            /\ numTokens'[active[k]] <= n + 1
        BY <2>3
      <3>4. n + 1 <= room + (i - 1)
        BY <3>1
      <3> HIDE DEF n
      <3>5. numTokens'[active[k]] + 1 <= room + i
        BY <1>i, <3>3, <3>4
      <3> QED BY <2>1, <3>2, <3>5 DEF Covered
    <2> QED BY <1>a, <2>1, <2>4 DEF SlotInv
  <1>6. CASE FilterOutputs
    <2>1. /\ active' = active /\ table' = table /\ numTokens' = numTokens
          /\ phase = "apply" /\ phase' = "cleanup" /\ i' = 1 /\ i > Len(active)
      BY <1>6 DEF FilterOutputs, queues, tokens
    <2>2. i - 1 <= PageTokens
      BY <1>a, <1>i
    <2>3. ASSUME NEW k \in 1 .. Len(active) PROVE Covered(active[k], Slack(k))'
      <3>1. numTokens[active[k]] + 1 <= PageTokens * Len(table[active[k]]) + (i - 1)
        BY <1>a, <2>1 DEF Covered, Slack
      <3> QED BY <1>i, <2>1, <2>2, <3>1 DEF Covered, Slack
    <2> QED BY <1>a, <2>1, <2>3 DEF SlotInv
  <1>7. CASE Finish \/ Preempt
    <2>1. /\ InCleanup /\ table' = [table EXCEPT ![Current] = <<>>]
          /\ active' = RemoveIndex(active, i) /\ i' = i
          /\ numTokens' = numTokens /\ phase' = phase
      BY <1>7 DEF Finish, Preempt, ReleasePages, IndexAfterRemoval, tokens
    <2>2. phase = "cleanup" /\ i \in 1 .. Len(active)
      BY <2>1, CurrentFacts DEF InCleanup
    <2>3. /\ Len(active') = Len(active) - 1
          /\ \A k \in 1 .. (Len(active) - 1) :
               active'[k] = IF k < i THEN active[k] ELSE active[k + 1]
      BY <2>1, <2>2, RemoveIndexFacts DEF TypeOK
    <2>4. ASSUME NEW k \in 1 .. Len(active') PROVE Covered(active[k], Slack(k))'
      <3> DEFINE j == IF k < i THEN k ELSE k + 1
      <3>1. j \in 1 .. Len(active) /\ j # i /\ active'[k] = active[j]
            /\ (j >= i <=> k >= i)
        BY <1>i, <2>3
      <3> HIDE DEF j
      <3>2. active[j] # Current
        BY <2>2, <3>1 DEF Current, QueuesConsistent, NoRepeats
      <3>3. table'[active[j]] = table[active[j]]
        BY <2>1, <3>1, <3>2 DEF TypeOK
      <3>4. Covered(active[j], Slack(j))
        BY <1>a, <3>1
      <3>5. Slack(k)' = Slack(j)
        BY <2>1, <2>2, <3>1 DEF Slack
      <3>6. numTokens'[active'[k]] = numTokens[active[j]]
            /\ table'[active'[k]] = table[active[j]]
        BY <2>1, <3>1, <3>3
      <3> QED BY <3>4, <3>5, <3>6 DEF Covered
    <2>5. Len(active') <= MaxBatch
      BY <1>a, <2>3
    <2> QED BY <2>4, <2>5 DEF SlotInv
  <1>8. CASE Keep
    <2>1. /\ active' = active /\ table' = table /\ numTokens' = numTokens
          /\ phase' = phase /\ i' = i + 1 /\ InCleanup /\ ~ NeedsPage(Current)
      BY <1>8 DEF Keep, queues, tokens
    <2>2. phase = "cleanup" /\ i \in 1 .. Len(active) /\ Current \in Requests
      BY <2>1, CurrentFacts DEF InCleanup
    <2>3. numTokens[Current] + 1 <= PageTokens * Len(table[Current])
      <3>1. PagesFor(numTokens[Current] + 1) \in Nat
        BY <2>2, PagesForFacts
      <3>2. PagesFor(numTokens[Current] + 1) <= Len(table[Current])
        BY <2>1, <2>2, <3>1 DEF NeedsPage
      <3> QED BY <2>2, <3>2, RoomIfNoneMissing
    <2>4. ASSUME NEW k \in 1 .. Len(active) PROVE Covered(active[k], Slack(k))'
      <3>1. CASE k = i
        <4>1. active[k] = Current /\ Slack(k)' = 0
          BY <2>1, <2>2, <3>1 DEF Slack, Current
        <4> QED BY <2>1, <2>2, <2>3, <4>1 DEF Covered
      <3>2. CASE k # i
        <4>1. (k >= i + 1) <=> (k >= i)
          BY <1>i, <3>2
        <4>2. Covered(active[k], Slack(k))
          BY <1>a
        <4> QED BY <2>1, <2>2, <4>1, <4>2 DEF Covered, Slack
      <3> QED BY <3>1, <3>2
    <2> QED BY <1>a, <2>1, <2>4 DEF SlotInv
  <1>9. CASE Grow
    <2>1. PICK p \in Pages : table' = [table EXCEPT ![Current] = Append(@, p)]
      BY <1>9 DEF Grow
    <2>2. /\ active' = active /\ numTokens' = numTokens
          /\ phase' = phase /\ i' = i + 1 /\ InCleanup
      BY <1>9 DEF Grow, queues, tokens
    <2>3. phase = "cleanup" /\ i \in 1 .. Len(active) /\ Current \in Requests
      BY <2>2, CurrentFacts DEF InCleanup
    <2>4. Len(table'[Current]) = Len(table[Current]) + 1
      <3>1. table'[Current] = Append(table[Current], p) /\ table[Current] \in Seq(Pages)
        BY <2>1, <2>3 DEF TypeOK
      <3> QED BY <3>1, AppendSet
    <2>5. PageTokens * (Len(table[Current]) + 1) = PageTokens * Len(table[Current]) + PageTokens
      BY <2>3
    <2>6. numTokens[Current] + 1 <= PageTokens * Len(table[Current]) + PageTokens
      BY <1>a, <2>3 DEF Covered, Slack, Current
    <2>7. ASSUME NEW k \in 1 .. Len(active) PROVE Covered(active[k], Slack(k))'
      <3>1. CASE k = i
        <4>1. active'[k] = Current /\ Slack(k)' = 0
          BY <1>i, <2>2, <2>3, <3>1 DEF Slack, Current
        <4>2. numTokens'[active'[k]] + 1 <= PageTokens * Len(table'[active'[k]]) + 0
          <5>1. PageTokens * Len(table'[Current])
                  = PageTokens * Len(table[Current]) + PageTokens
            BY <2>4, <2>5
          <5>2. numTokens[Current] + 1 <= PageTokens * Len(table'[Current]) + 0
            BY <2>3, <2>6, <5>1
          <5> QED BY <2>2, <4>1, <5>2
        <4> QED BY <4>1, <4>2 DEF Covered
      <3>2. CASE k # i
        <4>1. (k >= i + 1) <=> (k >= i)
          BY <1>i, <3>2
        <4>2. Covered(active[k], Slack(k))
          BY <1>a
        <4>3. active[k] # Current
          BY <2>3, <3>2 DEF Current, QueuesConsistent, NoRepeats
        <4>4. table'[active[k]] = table[active[k]]
          BY <2>1, <4>3 DEF TypeOK
        <4> QED BY <2>2, <2>3, <4>1, <4>2, <4>4 DEF Covered, Slack
      <3> QED BY <3>1, <3>2
    <2> QED BY <1>a, <2>2, <2>7 DEF SlotInv
  <1>10. CASE CleanupDone
    <2>1. /\ active' = active /\ table' = table /\ numTokens' = numTokens
          /\ phase = "cleanup" /\ phase' = "idle" /\ i > Len(active)
      BY <1>10 DEF CleanupDone, queues, tokens
    <2>2. \A k \in 1 .. Len(active) : Slack(k) = 0 /\ Slack(k)' = 0
      BY <1>i, <2>1 DEF Slack
    <2> QED BY <1>a, <2>1, <2>2 DEF SlotInv, Covered
  <1>11. CASE UNCHANGED vars
    BY <1>a, <1>11 DEF SlotInv, Covered, Slack, vars, queues, tokens
  <1> QED BY <1>1, <1>2, <1>3, <1>4, <1>5, <1>6, <1>7, <1>8, <1>9, <1>10, <1>11
          DEF Next, Step, ControlStep, PromoteStep, CleanupStep

LEMMA SlotInvMapsSlot == TypeOK /\ SlotInv => NextSlotMapped
  <1> SUFFICES ASSUME TypeOK, SlotInv, phase = "batch", NEW r \in SetOf(active)
               PROVE  numTokens[r] \div PageTokens < Len(table[r])
    BY DEF NextSlotMapped
  <1>1. PICK k \in 1 .. Len(active) : r = active[k]
    BY DEF SetOf
  <1>2. numTokens[r] + 1 <= PageTokens * Len(table[r])
    BY <1>1, ActiveFacts DEF SlotInv, Covered, Slack
  <1> QED BY <1>1, <1>2, ActiveFacts, SlotInTable

\* If a batch is no longer than a page has tokens, every running sequence has
\* a mapped slot for its next token whenever a batch starts, through any
\* preemptions and also when requests share a seq_id.
THEOREM SlotAlwaysMapped ==
  ASSUME MaxBatch <= PageTokens
  PROVE  Spec => []NextSlotMapped
  <1>1. Init => SlotInv
    BY MaxBatchAssumption DEF Init, SlotInv
  <1>2. SchedInv /\ SlotInv /\ [Next]_vars => SlotInv'
    BY NextSlotInv
  <1>3. SchedInv /\ SlotInv => NextSlotMapped
    BY SlotInvMapsSlot DEF SchedInv
  <1> QED BY <1>1, <1>2, <1>3, SchedulerInvariant, PTL DEF Spec

-----------------------------------------------------------------------------
(***************************************************************************)
(* The service.                                                            *)
(***************************************************************************)
\* The callers choose the ids; nothing in add_request compares them.
DistinctIds == \A r, q \in Requests : SeqIdOf[r] = SeqIdOf[q] => r = q

\* A request that may still get a token: the quota is looked at after the
\* first one only.
Open(r) == generated[r] = 0 \/ generated[r] < maxNew[r]

\* The running sequences that have their token of this call and that the
\* cleanup has not looked at yet.
Advanced(k) == (phase = "apply" /\ k < i) \/ (phase = "cleanup" /\ i <= k)

\* num_tokens is the length of prompt_tokens throughout, so the prefill branch
\* of step_forward is never taken.
PromptConsumed == \A r \in Requests : numTokens[r] = promptLen[r]

QuotasKept ==
  /\ \A r \in Requests : /\ status[r] = "New" => generated[r] = 0
                         /\ status[r] = "Waiting" => Open(r)
  /\ \A k \in 1 .. Len(active) :
       IF Advanced(k) THEN generated[active[k]] > 0 ELSE Open(active[k])

\* What step_forward still owes: the tokens applied and not yet returned.
Owed(r) == phase = "apply" /\ \E k \in 1 .. Len(active) : k < i /\ active[k] = r
TokensOwed ==
  \A r \in Requests : generated[r] = delivered[r] + (IF Owed(r) THEN 1 ELSE 0)

ServiceInv == PromptConsumed /\ QuotasKept /\ TokensOwed

-----------------------------------------------------------------------------
LEMMA RestingQuotas ==
  ASSUME QuotasKept, NEW r \in Requests
  PROVE  /\ status[r] = "New" => generated[r] = 0
         /\ status[r] = "Waiting" => generated[r] = 0 \/ generated[r] < maxNew[r]
  BY ZenonT(30) DEF QuotasKept, Open

LEMMA InitServiceInv == Init => ServiceInv
  <1> SUFFICES ASSUME Init PROVE ServiceInv
    OBVIOUS
  <1>1. Len(active) = 0 /\ phase = "idle"
    BY DEF Init
  <1>2. PromptConsumed /\ TokensOwed
    BY <1>1 DEF Init, PromptConsumed, TokensOwed, Owed
  <1>3. QuotasKept
    BY <1>1 DEF Init, QuotasKept, Open
  <1> QED BY <1>2, <1>3 DEF ServiceInv

LEMMA ActiveAt ==
  ASSUME TypeOK
  PROVE  /\ Len(active) \in Nat /\ i \in Nat /\ 1 <= i /\ i <= Len(active) + 1
         /\ \A k \in 1 .. Len(active) : active[k] \in Requests
         /\ \A r \in Requests : /\ numTokens[r] \in Nat /\ promptLen[r] \in Nat
                                /\ generated[r] \in Nat /\ delivered[r] \in Nat
                                /\ maxNew[r] \in Nat
  <1>1. Len(active) \in Nat /\ \A k \in 1 .. Len(active) : active[k] \in Requests
    BY LenProperties, ElementOfSeq DEF TypeOK
  <1> QED BY <1>1 DEF TypeOK

\* With distinct ids the request found for output i is the one that made it.
LEMMA OwnOutput ==
  ASSUME DistinctIds, TypeOK, NEW k \in 1 .. Len(active), NEW r \in Requests,
         IsFirstWithId(r, SeqIdOf[active[k]])
  PROVE  r = active[k]
  <1>1. active[k] \in Requests /\ SeqIdOf[r] = SeqIdOf[active[k]]
    BY ActiveAt DEF IsFirstWithId
  <1> QED BY <1>1 DEF DistinctIds

LEMMA ApplyFacts ==
  ASSUME DistinctIds, TypeOK, PromptConsumed, ApplyOutput
  PROVE  LET r == active[i]
         IN  /\ i \in 1 .. Len(active) /\ r \in Requests
             /\ numTokens' = [numTokens EXCEPT ![r] = @ + 1]
             /\ promptLen' = [promptLen EXCEPT ![r] = @ + 1]
             /\ generated' = [generated EXCEPT ![r] = @ + 1]
  <1>1. i \in 1 .. Len(active)
    BY ActiveAt DEF ApplyOutput
  <1>2. active[i] \in Requests
    BY <1>1, ActiveAt
  <1>3. PICK r \in Requests :
          /\ IsFirstWithId(r, SeqIdOf[active[i]])
          /\ numTokens' = [numTokens EXCEPT ![r] = @ + 1]
          /\ IF numTokens[r] < promptLen[r] - 1
               THEN UNCHANGED <<promptLen, generated>>
               ELSE /\ promptLen' = [promptLen EXCEPT ![r] = @ + 1]
                    /\ generated' = [generated EXCEPT ![r] = @ + 1]
    BY DEF ApplyOutput
  <1>4. r = active[i]
    BY <1>1, <1>3, OwnOutput
  <1>5. ~ (numTokens[r] < promptLen[r] - 1)
    BY ActiveAt DEF PromptConsumed
  <1> QED BY <1>1, <1>2, <1>3, <1>4, <1>5

\* A request that runs has an output, and it is its own.
LEMMA ReturnedFacts ==
  ASSUME DistinctIds, TypeOK, QueuesConsistent, NEW r \in Requests
  PROVE  Returned(r) <=> r \in SetOf(active) /\ generated[r] > 0
  <1>1. ASSUME Returned(r) PROVE r \in SetOf(active) /\ generated[r] > 0
    <2>1. PICK q \in Requests : IsFirstWithId(q, SeqIdOf[r]) /\ generated[q] > 0
      BY <1>1 DEF Returned
    <2>2. q = r
      BY <2>1 DEF IsFirstWithId, DistinctIds
    <2> QED BY <1>1, <2>1, <2>2 DEF Returned
  <1>2. ASSUME r \in SetOf(active), generated[r] > 0 PROVE Returned(r)
    <2>1. PICK k \in 1 .. Len(active) : active[k] = r
      BY <1>2 DEF SetOf
    <2>2. ASSUME NEW j \in 1 .. (k - 1) PROVE SeqIdOf[active[j]] # SeqIdOf[r]
      <3>1. j \in 1 .. Len(active) /\ j # k
        BY <2>1, ActiveAt
      <3>2. active[j] # r /\ active[j] \in Requests
        BY <2>1, <3>1, ActiveAt DEF QueuesConsistent, NoRepeats
      <3> QED BY <3>2 DEF DistinctIds
    <2>3. IsFirstWithId(r, SeqIdOf[r])
      BY <2>1, <2>2 DEF IsFirstWithId
    <2> QED BY <1>2, <2>3 DEF Returned
  <1> QED BY <1>1, <1>2

-----------------------------------------------------------------------------
(***************************************************************************)
(* ServiceInv is inductive.                                                *)
(***************************************************************************)

\* The steps that change no request and no queue.
Calm == CallStep \/ MapPage \/ PromoteOom \/ PromoteDone \/ NothingRunning
          \/ StepBatch \/ CleanupDone

LEMMA ServiceKinds ==
  ASSUME [Next]_vars
  PROVE  \/ UNCHANGED vars \/ Calm \/ FilterOutputs
         \/ \E r \in Requests : AddRequest(r)
         \/ Promote \/ ApplyOutput
         \/ Keep \/ Grow \/ Finish \/ Preempt
  BY DEF Next, Step, ControlStep, PromoteStep, CleanupStep, Calm

LEMMA NextPromptConsumed ==
  ASSUME DistinctIds, TypeOK, PromptConsumed, [Next]_vars
  PROVE  PromptConsumed'
  <1>1. ASSUME NEW r \in Requests, AddRequest(r) PROVE PromptConsumed'
    BY <1>1, ActiveAt DEF AddRequest, StartTokens, PromptConsumed, TypeOK
  <1>2. CASE ApplyOutput
    <2> DEFINE r == active[i]
    <2>1. /\ numTokens' = [numTokens EXCEPT ![r] = @ + 1]
          /\ promptLen' = [promptLen EXCEPT ![r] = @ + 1]
      BY <1>2, ApplyFacts
    <2> HIDE DEF r
    <2> QED BY <2>1 DEF PromptConsumed, TypeOK
  <1>3. CASE UNCHANGED <<numTokens, promptLen>>
    BY <1>3 DEF PromptConsumed
  <1> QED BY <1>1, <1>2, <1>3, ServiceKinds
          DEF vars, tokens, Calm, CallStep, MapPage, PromoteOom, PromoteDone, NothingRunning,
              StepBatch, CleanupDone, FilterOutputs, Promote, Keep, Grow, Finish, Preempt

LEMMA NextTokensOwed ==
  ASSUME DistinctIds, SchedInv, ServiceInv, [Next]_vars
  PROVE  TokensOwed'
  <1>0. /\ TypeOK /\ QueuesConsistent /\ PromptConsumed
        /\ \A r \in Requests :
             generated[r] = delivered[r] + (IF Owed(r) THEN 1 ELSE 0)
    BY DEF SchedInv, ServiceInv, TokensOwed
  <1>1. CASE ApplyOutput
    <2> DEFINE r == active[i]
    <2>1. /\ i \in 1 .. Len(active) /\ r \in Requests
          /\ generated' = [generated EXCEPT ![r] = @ + 1]
      BY <1>0, <1>1, ApplyFacts
    <2>2. /\ delivered' = delivered /\ active' = active /\ i' = i + 1
          /\ phase = "apply" /\ phase' = "apply"
      BY <1>1 DEF ApplyOutput, queues
    <2>3. ~ Owed(r)
      BY <1>0, <2>1 DEF Owed, QueuesConsistent, NoRepeats
    <2>4. ASSUME NEW q \in Requests PROVE Owed(q)' <=> Owed(q) \/ q = r
      BY <2>1, <2>2 DEF Owed
    <2> HIDE DEF r
    <2>5. ASSUME NEW q \in Requests
          PROVE  generated'[q] = delivered'[q] + (IF Owed(q)' THEN 1 ELSE 0)
      <3>1. generated'[q] = IF q = r THEN generated[q] + 1 ELSE generated[q]
        BY <1>0, <2>1 DEF TypeOK
      <3>2. generated[q] \in Nat /\ delivered[q] \in Nat
        BY <1>0, ActiveAt
      <3> QED BY <1>0, <2>2, <2>3, <2>4, <3>1, <3>2
    <2> QED BY <2>5 DEF TokensOwed
  <1>2. CASE FilterOutputs
    <2>1. /\ phase = "apply" /\ i > Len(active) /\ generated' = generated
          /\ phase' = "cleanup"
          /\ delivered' = [r \in Requests |->
                            IF Returned(r) THEN delivered[r] + 1 ELSE delivered[r]]
      BY <1>2 DEF FilterOutputs, tokens
    <2>2. ASSUME NEW r \in Requests PROVE Owed(r) <=> Returned(r)
      <3>1. Owed(r) <=> r \in SetOf(active)
        BY <1>0, <2>1, ActiveAt DEF Owed, SetOf
      <3>2. Owed(r) => generated[r] > 0
        BY <1>0, ActiveAt
      <3> QED BY <1>0, <3>1, <3>2, ReturnedFacts
    <2>3. \A r \in Requests : ~ Owed(r)'
      BY <2>1 DEF Owed
    <2> QED BY <1>0, <2>1, <2>2, <2>3, ActiveAt DEF TokensOwed
  <1>3. CASE UNCHANGED vars
    BY <1>0, <1>3 DEF TokensOwed, Owed, vars, tokens, queues
  <1>4. CASE /\ UNCHANGED <<generated, delivered>>
             /\ phase # "apply"
             /\ phase' # "apply" \/ i' = 1
    <2>1. \A r \in Requests : ~ Owed(r) /\ ~ Owed(r)'
      BY <1>4 DEF Owed
    <2> QED BY <1>0, <1>4, <2>1 DEF TokensOwed
  <1> QED BY <1>1, <1>2, <1>3, <1>4, ServiceKinds
          DEF tokens, Calm, CallStep, MapPage, PromoteOom, AfterOom, PromoteDone,
              NothingRunning, StepBatch, CleanupDone, AddRequest, Promote,
              Keep, Grow, Finish, Preempt, InCleanup

LEMMA CalmQuotasKept ==
  ASSUME TypeOK, QuotasKept, Calm \/ FilterOutputs \/ UNCHANGED vars
  PROVE  QuotasKept'
  <1>1. UNCHANGED <<active, status, generated, maxNew>>
    BY DEF Calm, CallStep, MapPage, PromoteOom, PromoteDone, NothingRunning, StepBatch,
           CleanupDone, FilterOutputs, queues, tokens, vars
  <1>2. ASSUME NEW k \in 1 .. Len(active) PROVE Advanced(k)' <=> Advanced(k)
    BY ActiveAt DEF Advanced, Calm, CallStep, MapPage, PromoteOom, AfterOom, PromoteDone,
           NothingRunning, StepBatch, CleanupDone, FilterOutputs, vars
  <1> QED BY <1>1, <1>2 DEF QuotasKept, Open

LEMMA AddQuotasKept ==
  ASSUME SchedInv, QuotasKept, NEW r \in Requests, AddRequest(r)
  PROVE  QuotasKept'
  <1>1. PICK sz \in Sizes :
          /\ phase = "idle" /\ phase' = phase /\ status[r] = "New"
          /\ status' = [status EXCEPT ![r] = "Waiting"]
          /\ maxNew' = [maxNew EXCEPT ![r] = sz[2]]
          /\ active' = active /\ generated' = generated
    BY DEF AddRequest
  <1>2. TypeOK /\ \A k \in 1 .. Len(active) : active[k] \in Requests /\ active[k] # r
    BY <1>1, ActiveAt DEF SchedInv, QueuesConsistent, SetOf
  <1>3. \A q \in Requests : q # r => maxNew'[q] = maxNew[q] /\ status'[q] = status[q]
    BY <1>1, <1>2 DEF TypeOK
  <1>4. status'[r] = "Waiting" /\ generated[r] = 0
    <2>1. generated[r] = 0
      BY <1>1, RestingQuotas
    <2> QED BY <1>1, <1>2, <2>1 DEF TypeOK
  <1>5. \A k \in 1 .. Len(active) : ~ Advanced(k) /\ ~ Advanced(k)'
    BY <1>1 DEF Advanced
  <1> QED BY <1>1, <1>2, <1>3, <1>4, <1>5 DEF QuotasKept, Open

LEMMA PromoteQuotasKept ==
  ASSUME SchedInv, QuotasKept, Promote
  PROVE  QuotasKept'
  <1> DEFINE r == Head(waiting)
  <1>1. /\ waiting # <<>> /\ phase = "promote" /\ phase' = phase
        /\ active' = Append(active, r)
        /\ status' = [status EXCEPT ![r] = "Running"]
        /\ maxNew' = maxNew /\ generated' = generated
    BY DEF Promote, CanPromote, tokens
  <1>2. TypeOK /\ active \in Seq(Requests) /\ r \in Requests /\ status[r] = "Waiting"
    BY <1>1, HeadFacts DEF SchedInv, TypeOK
  <1> HIDE DEF r
  <1>3. /\ Len(active') = Len(active) + 1
        /\ \A k \in 1 .. Len(active) : active'[k] = active[k]
        /\ active'[Len(active) + 1] = r
    BY <1>1, <1>2, AppendSet
  <1>4. Open(r) /\ \A k \in 1 .. Len(active) : Open(active[k])
    <2>1. Open(r)
      BY <1>2, RestingQuotas DEF Open
    <2>2. \A k \in 1 .. Len(active) : Open(active[k])
      BY <1>1 DEF QuotasKept, Advanced
    <2> QED BY <2>1, <2>2
  <1>5. \A k \in 1 .. Len(active') : Open(active'[k])
    BY <1>2, <1>3, <1>4, ActiveAt
  <1>6. \A q \in Requests : status'[q] = IF q = r THEN "Running" ELSE status[q]
    BY <1>1, <1>2 DEF TypeOK
  <1> QED BY <1>1, <1>5, <1>6 DEF QuotasKept, Open, Advanced

LEMMA ApplyQuotasKept ==
  ASSUME DistinctIds, SchedInv, PromptConsumed, QuotasKept, ApplyOutput
  PROVE  QuotasKept'
  <1> DEFINE r == active[i]
  <1>1. /\ TypeOK /\ QueuesConsistent
        /\ i \in 1 .. Len(active) /\ r \in Requests
        /\ generated' = [generated EXCEPT ![r] = @ + 1]
    BY ApplyFacts DEF SchedInv
  <1>2. /\ phase = "apply" /\ phase' = phase /\ i' = i + 1
        /\ active' = active /\ status' = status /\ maxNew' = maxNew
    BY DEF ApplyOutput, queues
  <1>3. status[r] = "Running"
    BY <1>1 DEF QueuesConsistent, SetOf
  <1>4. \A k \in 1 .. Len(active) : active[k] \in Requests /\ (active[k] = r <=> k = i)
    BY <1>1, ActiveAt DEF QueuesConsistent, NoRepeats
  <1> HIDE DEF r
  <1>5. \A q \in Requests : /\ generated[q] \in Nat
                            /\ generated'[q] = IF q = r THEN generated[q] + 1 ELSE generated[q]
    BY <1>1, ActiveAt DEF TypeOK
  <1>6. ASSUME NEW k \in 1 .. Len(active)
        PROVE  IF Advanced(k)' THEN generated'[active[k]] > 0
               ELSE generated'[active[k]] = 0 \/ generated'[active[k]] < maxNew[active[k]]
    <2>1. CASE k = i
      BY <1>1, <1>2, <1>4, <1>5, <2>1 DEF Advanced
    <2>2. CASE k # i
      <3>1. Advanced(k)' <=> Advanced(k)
        BY <1>1, <1>2, <2>2 DEF Advanced
      <3>2. generated'[active[k]] = generated[active[k]]
        BY <1>4, <1>5, <2>2
      <3> QED BY <3>1, <3>2 DEF QuotasKept, Open
    <2> QED BY <2>1, <2>2
  <1>7. \A q \in Requests : status[q] \in {"New", "Waiting"} => generated'[q] = generated[q]
    BY <1>3, <1>5
  <1> QED BY <1>2, <1>6, <1>7 DEF QuotasKept, Open

LEMMA StayQuotasKept ==
  ASSUME SchedInv, QuotasKept, Keep \/ Grow
  PROVE  QuotasKept'
  <1>1. /\ InCleanup /\ phase = "cleanup" /\ phase' = phase /\ i' = i + 1
        /\ UNCHANGED <<active, status, maxNew, generated>>
        /\ ~ IsDone(Current)
    BY DEF Keep, Grow, InCleanup, queues, tokens
  <1>2. TypeOK /\ i \in 1 .. Len(active) /\ Current \in Requests
    BY <1>1, CurrentFacts DEF SchedInv
  <1>3. Open(active[i])
    BY <1>1, <1>2, ActiveAt DEF IsDone, Open, Current
  <1>4. ASSUME NEW k \in 1 .. Len(active)
        PROVE  IF Advanced(k)' THEN generated[active[k]] > 0 ELSE Open(active[k])
    <2>1. CASE k = i
      BY <1>1, <1>2, <1>3, <2>1 DEF Advanced
    <2>2. CASE k # i
      <3>1. Advanced(k)' <=> Advanced(k)
        BY <1>1, <1>2, <2>2 DEF Advanced
      <3> QED BY <3>1 DEF QuotasKept
    <2> QED BY <2>1, <2>2
  <1> QED BY <1>1, <1>4 DEF QuotasKept, Open

LEMMA LeaveQuotasKept ==
  ASSUME SchedInv, QuotasKept, Finish \/ Preempt
  PROVE  QuotasKept'
  <1>1. /\ InCleanup /\ phase = "cleanup" /\ phase' = phase /\ i' = i
        /\ active' = RemoveIndex(active, i) /\ UNCHANGED <<maxNew, generated>>
    BY DEF Finish, Preempt, InCleanup, IndexAfterRemoval, tokens
  <1>2. TypeOK /\ active \in Seq(Requests) /\ i \in 1 .. Len(active) /\ Current \in Requests
    BY <1>1, CurrentFacts DEF SchedInv, TypeOK
  <1>3. /\ Len(active') = Len(active) - 1 /\ Len(active) \in Nat
        /\ \A k \in 1 .. (Len(active) - 1) :
             active'[k] = IF k < i THEN active[k] ELSE active[k + 1]
    BY <1>1, <1>2, RemoveIndexFacts, ActiveAt
  <1>4. ASSUME NEW k \in 1 .. Len(active')
        PROVE  IF Advanced(k)' THEN generated[active'[k]] > 0 ELSE Open(active'[k])
    <2> DEFINE j == IF k < i THEN k ELSE k + 1
    <2>1. j \in 1 .. Len(active) /\ active'[k] = active[j] /\ (Advanced(j) <=> i <= k)
      BY <1>1, <1>2, <1>3 DEF Advanced
    <2>2. Advanced(k)' <=> i <= k
      BY <1>1 DEF Advanced
    <2> HIDE DEF j
    <2> QED BY <2>1, <2>2 DEF QuotasKept
  <1>5. ASSUME NEW q \in Requests
        PROVE  /\ status'[q] = "New" => generated[q] = 0
               /\ status'[q] = "Waiting" => Open(q)
    <2>1. CASE q = Current /\ Finish
      <3>1. status'[q] = "Finished"
        BY <1>2, <2>1 DEF Finish, TypeOK
      <3> QED BY <3>1
    <2>2. CASE q = Current /\ Preempt
      <3>1. status'[q] = "Waiting" /\ ~ IsDone(q)
        BY <1>2, <2>2 DEF Preempt, TypeOK
      <3> QED BY <1>2, <3>1, ActiveAt DEF IsDone, Open
    <2>3. CASE q # Current
      <3>1. status'[q] = status[q]
        BY <1>2, <2>3 DEF Finish, Preempt, TypeOK
      <3> QED BY <3>1, RestingQuotas DEF Open
    <2> QED BY <2>1, <2>2, <2>3
  <1> QED BY <1>1, <1>4, <1>5 DEF QuotasKept, Open

LEMMA NextServiceInv ==
  ASSUME DistinctIds, SchedInv, ServiceInv, [Next]_vars
  PROVE  ServiceInv'
  <1>1. TypeOK /\ PromptConsumed /\ QuotasKept
    BY DEF SchedInv, ServiceInv
  <1>2. PromptConsumed'
    BY <1>1, NextPromptConsumed
  <1>3. QuotasKept'
    BY <1>1, ServiceKinds, CalmQuotasKept, AddQuotasKept, PromoteQuotasKept,
       ApplyQuotasKept, StayQuotasKept, LeaveQuotasKept
  <1> QED BY <1>2, <1>3, NextTokensOwed DEF ServiceInv

LEMMA ServiceInvariant ==
  ASSUME DistinctIds
  PROVE  Spec => [](SchedInv /\ ServiceInv)
  <1>1. SchedInv /\ ServiceInv /\ [Next]_vars => ServiceInv'
    BY NextServiceInv
  <1> QED BY <1>1, SchedulerInvariant, InitServiceInv, PTL DEF Spec

-----------------------------------------------------------------------------
\* With distinct ids every token that was generated has been returned between
\* calls, whatever was preempted and resumed meanwhile.
THEOREM TokensAllDelivered ==
  ASSUME DistinctIds
  PROVE  Spec => []TokensDelivered
  <1>1. SchedInv /\ ServiceInv => TokensDelivered
    <2> SUFFICES ASSUME TypeOK, TokensOwed, phase = "idle" PROVE delivered = generated
      BY DEF SchedInv, ServiceInv, TokensDelivered
    <2>1. ASSUME NEW r \in Requests PROVE generated[r] = delivered[r]
      <3>1. ~ Owed(r) /\ delivered[r] \in Nat
        BY ActiveAt DEF Owed
      <3> QED BY <3>1 DEF TokensOwed
    <2> QED BY <2>1 DEF TypeOK
  <1> QED BY <1>1, ServiceInvariant, PTL

(***************************************************************************)
(* The refinement.                                                         *)
(***************************************************************************)
LEMMA StepServes ==
  ASSUME DistinctIds, SchedInv, ServiceInv, [Next]_vars
  PROVE  [Service!Next]_(Service!vars)
  <1>0. TypeOK /\ QueuesConsistent /\ PromptConsumed /\ QuotasKept
    BY DEF SchedInv, ServiceInv
  <1>1. ASSUME NEW r \in Requests, AddRequest(r) PROVE Service!Submit(r)
    BY <1>1 DEF AddRequest, Service!Submit, Service!Move
  <1>2. CASE Promote
    <2>1. Head(waiting) \in Requests /\ status[Head(waiting)] = "Waiting"
      BY <1>0, <1>2, HeadFacts DEF Promote, CanPromote
    <2>2. Service!Start(Head(waiting))
      BY <1>2, <2>1 DEF Promote, tokens, Service!Start, Service!Move
    <2> QED BY <2>1, <2>2 DEF Service!Next
  <1>3. CASE ApplyOutput
    <2> DEFINE r == active[i]
    <2>1. /\ i \in 1 .. Len(active) /\ r \in Requests
          /\ generated' = [generated EXCEPT ![r] = @ + 1]
      BY <1>0, <1>3, ApplyFacts
    <2>2. status[r] = "Running" /\ UNCHANGED <<status, maxNew>>
      BY <1>0, <1>3, <2>1 DEF ApplyOutput, queues, QueuesConsistent, SetOf
    <2>3. Open(r)
      BY <1>0, <1>3, <2>1 DEF ApplyOutput, QuotasKept, Advanced
    <2> HIDE DEF r
    <2>4. Service!Emit(r)
      BY <2>1, <2>2, <2>3 DEF Open, Service!Emit
    <2> QED BY <2>1, <2>4 DEF Service!Next
  <1>4. CASE Finish \/ Preempt
    <2>1. InCleanup /\ phase = "cleanup" /\ UNCHANGED <<maxNew, generated>>
      BY <1>4 DEF Finish, Preempt, InCleanup, tokens
    <2>2. i \in 1 .. Len(active) /\ Current \in Requests /\ status[Current] = "Running"
      BY <1>0, <2>1, CurrentFacts
    <2>3. generated[Current] > 0 /\ generated[Current] \in Nat /\ maxNew[Current] \in Nat
      BY <1>0, <2>1, <2>2, ActiveAt DEF QuotasKept, Advanced, Current
    <2>4. Service!Complete(Current) \/ Service!Suspend(Current)
      BY <1>4, <2>1, <2>2, <2>3
         DEF Finish, Preempt, IsDone, Service!Complete, Service!Suspend, Service!Move
    <2> QED BY <2>2, <2>4 DEF Service!Next
  <1>5. CASE UNCHANGED <<status, maxNew, generated>>
    BY <1>5 DEF Service!vars
  <1> QED BY <1>1, <1>2, <1>3, <1>4, <1>5, ServiceKinds
          DEF Service!Next, vars, queues, tokens, Calm, CallStep, MapPage, PromoteOom,
              PromoteDone, NothingRunning, StepBatch, CleanupDone, FilterOutputs, Keep, Grow

\* Whatever the scheduler does with pages, batches and preemption, each caller
\* with an id of its own sees the service: tokens only while its request runs
\* and has quota left, suspension without loss, completion exactly at the end.
THEOREM ImplementsService ==
  ASSUME DistinctIds
  PROVE  Spec => ServiceSpec
  <1>1. Init => Service!Init
    BY DEF Init, Service!Init
  <1>2. SchedInv /\ ServiceInv /\ [Next]_vars => [Service!Next]_(Service!vars)
    BY StepServes
  <1> QED BY <1>1, <1>2, ServiceInvariant, PTL DEF Spec, ServiceSpec, Service!Spec
-----------------------------------------------------------------------------
(***************************************************************************)
(* What wedges the queue.  A call that leaves nothing running has mapped   *)
(* every page of the pool for the head of the queue, in vain.              *)
(***************************************************************************)
StuckInv ==
  phase = "batch" /\ active = <<>> /\ waiting # <<>>
    => TotalPages < PrefetchPages(Head(waiting))

\* A list of all pages, each once, is as long as the pool.
LEMMA AllPagesListed ==
  ASSUME NEW s \in Seq(Pages), NoRepeats(s), SetOf(s) = Pages
  PROVE  Len(s) = TotalPages
  <1>1. Len(s) \in Nat
    BY LenProperties
  <1>2. s \in Bijection(1 .. Len(s), Pages)
    <2>1. s \in [1 .. Len(s) -> Pages]
      OBVIOUS
    <2>2. \A p \in Pages : \E k \in 1 .. Len(s) : s[k] = p
      BY DEF SetOf
    <2>3. \A j, k \in 1 .. Len(s) : s[j] = s[k] => j = k
      BY DEF NoRepeats
    <2> QED BY <2>1, <2>2, <2>3 DEF Bijection, Injection, Surjection, IsInjective
  <1>3. Cardinality(Pages) = Len(s)
    BY <1>1, <1>2, FS_CountingElements DEF ExistsBijection
  <1>4. Cardinality(Pages) = TotalPages
    BY FS_Interval, TotalPagesAssumption DEF Pages
  <1> QED BY <1>3, <1>4

\* When nothing runs and no page is free, promotion holds all of them.
LEMMA AllMapped ==
  ASSUME SchedInv, active = <<>>, free = {}
  PROVE  Len(mapped) = TotalPages
  <1>1. /\ PagesAccounted /\ QueuesConsistent /\ mapped \in Seq(Pages)
    BY DEF SchedInv, TypeOK
  <1>2. ASSUME NEW r \in Requests PROVE SetOf(table[r]) = {}
    <2>1. r \notin SetOf(active)
      BY DEF SetOf
    <2>2. table[r] = <<>>
      BY <1>1, <2>1 DEF QueuesConsistent
    <2> QED BY <2>2 DEF SetOf
  <1>3. SetOf(mapped) = Pages
    BY <1>1, <1>2 DEF PagesAccounted
  <1> QED BY <1>1, <1>3, AllPagesListed DEF PagesAccounted

LEMMA NextStuckInv == SchedInv /\ StuckInv /\ [Next]_vars => StuckInv'
  <1> SUFFICES ASSUME SchedInv, StuckInv, [Next]_vars,
                      phase' = "batch", active' = <<>>, waiting' # <<>>
               PROVE  TotalPages < PrefetchPages(Head(waiting))'
    BY DEF StuckInv
  <1>1. CASE PromoteOom
    <2>1. /\ free = {} /\ waiting' = waiting /\ active' = active /\ numTokens' = numTokens
          /\ Len(mapped) < PrefetchPages(Head(waiting))
      BY <1>1 DEF PromoteOom, queues, tokens
    <2> QED BY <2>1, AllMapped DEF PrefetchPages
  <1>2. CASE PromoteDone
    <2>1. /\ waiting' = waiting /\ active' = active /\ ~ CanPromote
      BY <1>2 DEF PromoteDone, queues
    <2>2. CanPromote
      BY <2>1, MaxBatchAssumption DEF CanPromote
    <2> QED BY <2>1, <2>2
  <1>3. CASE UNCHANGED vars
    BY <1>3 DEF vars, queues, tokens, StuckInv, PrefetchPages
  <1> QED BY <1>1, <1>2, <1>3
          DEF Next, Step, ControlStep, PromoteStep, CleanupStep, AddRequest, CallStep, MapPage,
              Promote, NothingRunning, StepBatch, ApplyOutput, FilterOutputs, Finish, Keep,
              Grow, Preempt, CleanupDone, InCleanup

\* A waiting sequence has at most the tokens of its last wait.
LEMMA WaitingLength ==
  ASSUME SchedInv, ServiceInv, NEW r \in Requests, status[r] = "Waiting"
  PROVE  /\ numTokens[r] \in Nat /\ FullLength(r) \in Nat
         /\ numTokens[r] <= FullLength(r)
  <1>1. /\ numTokens[r] = promptLen[r] /\ Open(r)
        /\ numTokens[r] \in Nat /\ generated[r] \in Nat /\ maxNew[r] \in Nat
    BY DEF SchedInv, TypeOK, ServiceInv, PromptConsumed, QuotasKept
  <1> QED BY <1>1 DEF Open, FullLength

\* With distinct ids a call that leaves nothing running while requests wait
\* has met a request at the head of the queue that could not be served to its
\* end by a pool with all pages free: no page is lost, and no partial
\* promotion or preemption can block the queue for good.
THEOREM OnlyOversizedWedges ==
  ASSUME DistinctIds
  PROVE  Spec => []StuckOnlyOversized
  <1>1. Init => StuckInv
    BY DEF Init, StuckInv
  <1>2. SchedInv /\ ServiceInv /\ StuckInv => StuckOnlyOversized
    <2> SUFFICES ASSUME SchedInv, ServiceInv, StuckInv, Wedged
                 PROVE  Oversized(Head(waiting))
      BY DEF StuckOnlyOversized
    <2> DEFINE r == Head(waiting)
    <2>1. r \in Requests /\ status[r] = "Waiting"
      BY HeadFacts DEF Wedged, SchedInv
    <2>2. TotalPages < PagesFor(numTokens[r]) + 1
      BY DEF Wedged, StuckInv, PrefetchPages
    <2>3. /\ PagesFor(numTokens[r]) \in Nat /\ PagesFor(FullLength(r)) \in Nat
          /\ PagesFor(numTokens[r]) <= PagesFor(FullLength(r))
      BY <2>1, WaitingLength, PagesForMonotone
    <2> HIDE DEF r
    <2> QED BY <2>2, <2>3, TotalPagesAssumption DEF r, Oversized
  <1> QED BY <1>1, <1>2, NextStuckInv, ServiceInvariant, PTL DEF Spec
=============================================================================
