------------------------------ MODULE MeshProofs ------------------------------
(***************************************************************************)
(* Proofs about Mesh.tla for any topology, any roles and any numbers of    *)
(* commands, bridge messages and lost connections.                         *)
(***************************************************************************)
EXTENDS Mesh, FiniteSetTheorems, SequenceTheorems, TLAPS

LEMMA MessageFacts ==
  /\ \A t \in Tasks : Task(t) \in Messages /\ Task(t).kind = "Task" /\ Task(t).task = t
  /\ \A t \in Tasks, n \in Nodes :
       /\ Result(t, n) \in Messages /\ Result(t, n).kind = "Result"
       /\ Result(t, n).task = t /\ Result(t, n).worker = n
  /\ Notice \in Messages /\ Notice.kind = "Notice"
  /\ \A m \in Messages :
       /\ m.kind = "Task" => m.task \in Tasks /\ m = Task(m.task)
       /\ m.kind = "Result" =>
            m.task \in Tasks /\ m.worker \in Nodes /\ m = Result(m.task, m.worker)
  <1>1. \A t \in Tasks : Task(t) \in Messages /\ Task(t).kind = "Task" /\ Task(t).task = t
    BY DEF Messages, Task
  <1>2. \A t \in Tasks, n \in Nodes :
          /\ Result(t, n) \in Messages /\ Result(t, n).kind = "Result"
          /\ Result(t, n).task = t /\ Result(t, n).worker = n
    BY DEF Messages, Result
  <1>3. Notice \in Messages /\ Notice.kind = "Notice"
    BY DEF Messages, Notice
  <1>4. ASSUME NEW m \in Messages
        PROVE  /\ m.kind = "Task" => m.task \in Tasks /\ m = Task(m.task)
               /\ m.kind = "Result" =>
                    m.task \in Tasks /\ m.worker \in Nodes /\ m = Result(m.task, m.worker)
    <2>1. CASE m \in {Task(t) : t \in Tasks}
      BY <1>1, <2>1
    <2>2. CASE m \in {Result(t, n) : t \in Tasks, n \in Nodes}
      BY <1>2, <2>2
    <2>3. CASE m = Notice
      BY <1>3, <2>3
    <2> QED BY <2>1, <2>2, <2>3 DEF Messages
  <1> QED BY <1>1, <1>2, <1>3, <1>4

\* What publish adds to the network is now in the publisher's own cache.
LEMMA PublishFacts ==
  ASSUME TypeOK, NEW n \in Nodes, NEW ms \in SUBSET Messages, Publish(n, ms)
  PROVE  /\ net' \subseteq Nodes \X Nodes \X Nodes \X Messages
         /\ DOMAIN seen' = Nodes
         /\ \A q \in Nodes : seen[q] \subseteq seen'[q]
         /\ \A c \in net' \ net : c[4] \in ms /\ c[4] \in seen'[n]
  <1> DEFINE sent == Published(n, ms)
             copies == Copies(n, Peers(n), n, sent)
  <1>1. /\ net' = net \cup copies
        /\ seen' = [seen EXCEPT ![n] = @ \cup sent]
    BY DEF Publish, MessageId
  <1>2. sent \subseteq ms /\ Peers(n) \subseteq Nodes
    BY DEF Published, Peers
  <1> HIDE DEF sent
  <1>3. ASSUME NEW c \in copies
        PROVE  c \in Nodes \X Nodes \X Nodes \X Messages /\ c[4] \in sent
    BY <1>2 DEF Copies
  <1> HIDE DEF copies
  <1>4. /\ DOMAIN seen' = Nodes /\ seen'[n] = seen[n] \cup sent
        /\ \A q \in Nodes : q # n => seen'[q] = seen[q]
    BY <1>1 DEF TypeOK
  <1> QED BY <1>1, <1>2, <1>3, <1>4 DEF TypeOK

-----------------------------------------------------------------------------
LEMMA LinkFacts ==
  ASSUME NEW n \in Nodes, NEW q \in Nodes, n # q
  PROVE  {n, q} \subseteq Nodes /\ Cardinality({n, q}) = 2
  <1>1. IsFiniteSet({n}) /\ Cardinality({n}) = 1
    BY FS_Singleton
  <1>2. {n, q} = {n} \cup {q} /\ q \notin {n}
    OBVIOUS
  <1> QED BY <1>1, <1>2, FS_AddElement

LEMMA InitTypeOK == Init => TypeOK
  <1> SUFFICES ASSUME Init PROVE TypeOK
    OBVIOUS
  <1>1. <<>> \in Seq(Messages) /\ <<>> \in Seq(BridgeMessages)
    OBVIOUS
  <1> QED BY <1>1, BoundsAssumption DEF Init, TypeOK

LEMMA ReceiveFacts ==
  ASSUME TypeOK, NEW c \in net, Receive(c)
  PROVE  /\ c[1] \in Nodes /\ c[2] \in Nodes /\ c[3] \in Nodes /\ c[4] \in Messages
         /\ net' \subseteq Nodes \X Nodes \X Nodes \X Messages
         /\ \A d \in net' : d \in net \/ d[4] = c[4]
         /\ \/ c[4] \in seen[c[2]] /\ UNCHANGED <<seen, events>>
            \/ /\ c[4] \notin seen[c[2]]
               /\ seen' = [seen EXCEPT ![c[2]] = @ \cup {c[4]}]
               /\ events' = [events EXCEPT ![c[2]] = Append(@, c[4])]
  <1> DEFINE n == c[2]
             copies == Copies(n, Peers(n) \ {c[1], c[3]}, c[3], {c[4]})
  <1>1. c[1] \in Nodes /\ n \in Nodes /\ c[3] \in Nodes /\ c[4] \in Messages
    BY DEF TypeOK
  <1>2. net' \subseteq net \cup copies
    BY DEF Receive
  <1>3. Peers(n) \subseteq Nodes
    BY DEF Peers
  <1>4. \A d \in copies : d \in Nodes \X Nodes \X Nodes \X Messages /\ d[4] = c[4]
    BY <1>1, <1>3 DEF Copies
  <1>5. \/ c[4] \in seen[n] /\ UNCHANGED <<seen, events>>
        \/ /\ c[4] \notin seen[n]
           /\ seen' = [seen EXCEPT ![n] = @ \cup {c[4]}]
           /\ events' = [events EXCEPT ![n] = Append(@, c[4])]
    BY DEF Receive, MessageId
  <1> HIDE DEF copies
  <1> QED BY <1>1, <1>2, <1>4, <1>5 DEF TypeOK

LEMMA HandleFacts ==
  ASSUME TypeOK, NEW n \in Nodes, Handle(n)
  PROVE  LET m == Head(events[n])
         IN  /\ m \in Messages /\ Tail(events[n]) \in Seq(Messages)
             /\ Len(events[n]) \in Nat /\ 1 \in 1 .. Len(events[n]) /\ m = events[n][1]
             /\ Len(Tail(events[n])) = Len(events[n]) - 1
             /\ \A k \in 1 .. (Len(events[n]) - 1) : Tail(events[n])[k] = events[n][k + 1]
             /\ events' = [events EXCEPT ![n] = Tail(@)]
             /\ ledger' = [ledger EXCEPT ![n] = @ \ Resolved(m)]
             /\ awaited' = [awaited EXCEPT ![n] = @ \ Resolved(m)]
             /\ HandleTask(n, m) \/ HandleOther(n, m)
  <1> DEFINE s == events[n]
  <1>1. s \in Seq(Messages) /\ s # <<>>
    BY DEF Handle, TypeOK
  <1>2. events' = [events EXCEPT ![n] = Tail(@)]
    BY DEF Handle
  <1>3. /\ ledger' = [ledger EXCEPT ![n] = @ \ Resolved(Head(s))]
        /\ awaited' = [awaited EXCEPT ![n] = @ \ Resolved(Head(s))]
        /\ HandleTask(n, Head(s)) \/ HandleOther(n, Head(s))
    BY DEF Handle
  <1> HIDE DEF s
  <1>4. /\ Head(s) \in Messages /\ Tail(s) \in Seq(Messages)
        /\ Len(Tail(s)) = Len(s) - 1
        /\ \A k \in 1 .. Len(Tail(s)) : Tail(s)[k] = s[k + 1]
    BY <1>1, HeadTailProperties
  <1>5. Len(s) \in Nat /\ Len(s) # 0 /\ Head(s) = s[1]
    BY <1>1, EmptySeq, LenProperties
  <1>6. /\ 1 \in 1 .. Len(s)
        /\ \A k \in 1 .. (Len(s) - 1) : Tail(s)[k] = s[k + 1]
    BY <1>4, <1>5
  <1> QED BY <1>2, <1>3, <1>4, <1>5, <1>6 DEF s

\* Counting one more command stays within the bound.
LEMMA CommandCounted ==
  ASSUME TypeOK, NEW n \in Nodes, typed[n] < MaxTyped[n],
         typed' = [typed EXCEPT ![n] = @ + 1]
  PROVE  typed' \in [Nodes -> Nat] /\ \A q \in Nodes : typed'[q] <= MaxTyped[q]
  <1>1. typed \in [Nodes -> Nat] /\ MaxTyped \in [Nodes -> Nat]
    BY BoundsAssumption DEF TypeOK
  <1>2. typed' \in [Nodes -> Nat]
    BY <1>1
  <1>3. ASSUME NEW q \in Nodes PROVE typed'[q] <= MaxTyped[q]
    <2>1. CASE q = n
      BY <1>1, <2>1
    <2>2. CASE q # n
      BY <1>1, <2>2 DEF TypeOK
    <2> QED BY <2>1, <2>2
  <1> QED BY <1>2, <1>3

LEMMA NextTypeOK == TypeOK /\ [Next]_vars => TypeOK'
  <1> SUFFICES ASSUME TypeOK, [Next]_vars PROVE TypeOK'
    OBVIOUS
  <1>1. ASSUME NEW n \in Nodes, Orchestrate(n) PROVE TypeOK'
    <2> DEFINE ms == {Task(t) : t \in Tasks}
    <2>1. ms \in SUBSET Messages /\ \A m \in ms : m.task \in Tasks
      BY MessageFacts
    <2>2. /\ Publish(n, ms) /\ ledger' = [ledger EXCEPT ![n] = @ \cup Tasks]
          /\ awaited' = [awaited EXCEPT ![n] = @ \cup {m.task : m \in Published(n, ms)}]
          /\ typed[n] < MaxTyped[n] /\ typed' = [typed EXCEPT ![n] = @ + 1]
      BY <1>1 DEF Orchestrate, LedgerKey
    <2>3. Published(n, ms) \subseteq ms
      BY DEF Published
    <2> HIDE DEF ms
    <2>4. {m.task : m \in Published(n, ms)} \subseteq Tasks
      BY <2>1, <2>3
    <2>5. awaited' \in [Nodes -> SUBSET Tasks] /\ ledger' \in [Nodes -> SUBSET Tasks]
      BY <2>2, <2>4 DEF TypeOK
    <2>6. net' \subseteq Nodes \X Nodes \X Nodes \X Messages /\ DOMAIN seen' = Nodes
      BY <2>1, <2>2, PublishFacts
    <2>7. typed' \in [Nodes -> Nat] /\ \A q \in Nodes : typed'[q] <= MaxTyped[q]
      BY <2>2, CommandCounted
    <2> QED BY <1>1, <2>5, <2>6, <2>7 DEF Orchestrate, TypeOK
  <1>2. ASSUME NEW n \in Nodes, Signal(n) PROVE TypeOK'
    <2>1. Publish(n, {Notice}) /\ {Notice} \in SUBSET Messages
      BY <1>2, MessageFacts DEF Signal
    <2>2. net' \subseteq Nodes \X Nodes \X Nodes \X Messages /\ DOMAIN seen' = Nodes
      BY <2>1, PublishFacts
    <2>3. typed' \in [Nodes -> Nat] /\ \A q \in Nodes : typed'[q] <= MaxTyped[q]
      BY <1>2, CommandCounted DEF Signal
    <2> QED BY <1>2, <2>2, <2>3 DEF Signal, TypeOK
  <1>3. ASSUME NEW n \in Nodes, BridgeAccept(n) PROVE TypeOK'
    <2>1. bridge' \in [Nodes -> Seq(BridgeMessages)]
      <3>1. PICK m \in BridgeMessages : bridge' = [bridge EXCEPT ![n] = Append(@, m)]
        BY <1>3 DEF BridgeAccept
      <3>2. Append(bridge[n], m) \in Seq(BridgeMessages)
        BY AppendProperties DEF TypeOK
      <3> QED BY <3>1, <3>2 DEF TypeOK
    <2>2. bridged' \in [Nodes -> 0 .. MaxBridged]
      BY <1>3, BoundsAssumption DEF BridgeAccept, TypeOK
    <2> QED BY <1>3, <2>1, <2>2 DEF BridgeAccept, network, TypeOK
  <1>4. ASSUME NEW n \in Nodes, BridgeForward(n) PROVE TypeOK'
    <2>1. /\ bridge[n] \in Seq(BridgeMessages) /\ bridge[n] # <<>>
          /\ Publish(n, {Head(bridge[n])}) /\ bridge' = [bridge EXCEPT ![n] = Tail(@)]
      BY <1>4 DEF BridgeForward, TypeOK
    <2>2. Head(bridge[n]) \in BridgeMessages /\ Tail(bridge[n]) \in Seq(BridgeMessages)
      BY <2>1, HeadTailProperties
    <2>3. {Head(bridge[n])} \in SUBSET Messages
      BY <2>2, BridgeAssumption
    <2>4. net' \subseteq Nodes \X Nodes \X Nodes \X Messages /\ DOMAIN seen' = Nodes
      BY <2>1, <2>3, PublishFacts
    <2>5. bridge' \in [Nodes -> Seq(BridgeMessages)]
      BY <2>1, <2>2 DEF TypeOK
    <2> QED BY <1>4, <2>4, <2>5 DEF BridgeForward, history, TypeOK
  <1>5. ASSUME NEW n \in Nodes, NEW q \in Nodes, Discovered(n, q) PROVE TypeOK'
    <2>1. links' = links \cup {{n, q}} /\ n # q
      BY <1>5 DEF Discovered
    <2>2. \A l \in links' : l \subseteq Nodes /\ Cardinality(l) = 2
      BY <2>1, LinkFacts DEF TypeOK
    <2>3. explicit' \in [Nodes -> SUBSET Nodes] /\ \A x \in Nodes : x \notin explicit'[x]
      BY <1>5 DEF Discovered, TypeOK
    <2> QED BY <1>5, <2>2, <2>3 DEF Discovered, history, TypeOK
  <1>6. ASSUME NEW n \in Nodes, NEW q \in Nodes, Expired(n, q) PROVE TypeOK'
    <2>1. explicit' \in [Nodes -> SUBSET Nodes] /\ \A x \in Nodes : x \notin explicit'[x]
      BY <1>6 DEF Expired, TypeOK
    <2> QED BY <1>6, <2>1 DEF Expired, history, TypeOK
  <1>7. ASSUME NEW n \in Nodes, NEW q \in Nodes, Disconnect(n, q) PROVE TypeOK'
    <2>1. drops' \in 0 .. MaxDrops
      BY <1>7, BoundsAssumption DEF Disconnect, TypeOK
    <2> QED BY <1>7, <2>1 DEF Disconnect, TypeOK
  <1>8. ASSUME NEW n \in Nodes, NEW q \in Nodes, Redial(n, q) PROVE TypeOK'
    <2>1. links' = links \cup {{n, q}} /\ n # q
      BY <1>8 DEF Redial, TypeOK
    <2>2. \A l \in links' : l \subseteq Nodes /\ Cardinality(l) = 2
      BY <2>1, LinkFacts DEF TypeOK
    <2> QED BY <1>8, <2>2 DEF Redial, history, TypeOK
  <1>9. ASSUME NEW c \in net, Receive(c) PROVE TypeOK'
    <2>1. DOMAIN seen' = Nodes
      BY <1>9, ReceiveFacts DEF TypeOK
    <2>2. events' \in [Nodes -> Seq(Messages)]
      <3>1. Append(events[c[2]], c[4]) \in Seq(Messages)
        BY <1>9, ReceiveFacts, AppendProperties DEF TypeOK
      <3>2. c[2] \in Nodes
        BY <1>9, ReceiveFacts
      <3>3. events' = events \/ events' = [events EXCEPT ![c[2]] = Append(@, c[4])]
        BY <1>9, ReceiveFacts
      <3> QED BY <3>1, <3>2, <3>3 DEF TypeOK
    <2>3. net' \subseteq Nodes \X Nodes \X Nodes \X Messages
      BY <1>9, ReceiveFacts
    <2> QED BY <1>9, <2>1, <2>2, <2>3 DEF Receive, history, TypeOK
  <1>10. ASSUME NEW n \in Nodes, Handle(n) PROVE TypeOK'
    <2> DEFINE m == Head(events[n])
    <2>1. /\ m \in Messages /\ Tail(events[n]) \in Seq(Messages)
          /\ events' = [events EXCEPT ![n] = Tail(@)]
          /\ ledger' = [ledger EXCEPT ![n] = @ \ Resolved(m)]
          /\ awaited' = [awaited EXCEPT ![n] = @ \ Resolved(m)]
          /\ HandleTask(n, m) \/ HandleOther(n, m)
      BY <1>10, HandleFacts
    <2> HIDE DEF m
    <2>2. /\ events' \in [Nodes -> Seq(Messages)]
          /\ ledger' \in [Nodes -> SUBSET Tasks] /\ awaited' \in [Nodes -> SUBSET Tasks]
      <3>1. events' \in [Nodes -> Seq(Messages)]
        BY <2>1 DEF TypeOK
      <3>2. ledger' \in [Nodes -> SUBSET Tasks]
        BY <2>1 DEF TypeOK
      <3>3. awaited' \in [Nodes -> SUBSET Tasks]
        BY <2>1 DEF TypeOK
      <3> QED BY <3>1, <3>2, <3>3
    <2>3. /\ net' \subseteq Nodes \X Nodes \X Nodes \X Messages /\ DOMAIN seen' = Nodes
          /\ runs' \in [Nodes -> [Tasks -> Nat]]
      <3>1. CASE HandleTask(n, m)
        <4>a. /\ m.kind = "Task" /\ runs' = [runs EXCEPT ![n][m.task] = @ + 1]
              /\ Publish(n, {Result(m.task, n)})
          BY <3>1 DEF HandleTask
        <4>b. m.task \in Tasks
          BY <2>1, <4>a, MessageFacts
        <4>c. Result(m.task, n) \in Messages
          BY <4>b, MessageFacts
        <4>1. /\ m.task \in Tasks /\ runs' = [runs EXCEPT ![n][m.task] = @ + 1]
              /\ Publish(n, {Result(m.task, n)}) /\ {Result(m.task, n)} \in SUBSET Messages
          BY <4>a, <4>b, <4>c
        <4>2. runs' \in [Nodes -> [Tasks -> Nat]]
          BY <4>1 DEF TypeOK
        <4> QED BY <4>1, <4>2, PublishFacts
      <3>2. CASE HandleOther(n, m)
        BY <3>2 DEF HandleOther, TypeOK
      <3> QED BY <2>1, <3>1, <3>2
    <2> QED BY <1>10, <2>2, <2>3 DEF Handle, TypeOK
  <1>11. CASE UNCHANGED vars
    BY <1>11 DEF vars, network, history, TypeOK
  <1> QED BY <1>1, <1>2, <1>3, <1>4, <1>5, <1>6, <1>7, <1>8, <1>9, <1>10, <1>11
          DEF Next, LoopStep, Input, Discovery, Connection, Arrival

\* Every variable keeps its type; in particular a connection is always one
\* of two different nodes of the mesh.
THEOREM TypeCorrect == Spec => []TypeOK
  <1> QED BY InitTypeOK, NextTypeOK, PTL DEF Spec

-----------------------------------------------------------------------------
\* Why a node runs a task once: each message is queued for its loop at most
\* once, because it is in the duplicate cache from then on; and a task that
\* was run is no longer queued.
ReceivedOnce ==
  \A n \in Nodes :
    /\ \A k \in 1 .. Len(events[n]) : events[n][k] \in seen[n]
    /\ \A j, k \in 1 .. Len(events[n]) : events[n][j] = events[n][k] => j = k

RunLeavesQueue ==
  \A n \in Nodes, t \in Tasks :
    runs[n][t] > 0 =>
      /\ runs[n][t] = 1
      /\ Task(t) \in seen[n]
      /\ \A k \in 1 .. Len(events[n]) : events[n][k] # Task(t)

OnceInv == TypeOK /\ ReceivedOnce /\ RunLeavesQueue

\* The steps that queue, run and resolve nothing; a cache only grows, and
\* results come from a bridge only.
Silent ==
  /\ UNCHANGED <<events, runs>>
  /\ \A n \in Nodes : seen[n] \subseteq seen'[n]
  /\ \A n \in Nodes : ledger[n] \subseteq ledger'[n]
  /\ \A c \in net' \ net : c[4].kind = "Result" => c[4] \in BridgeMessages

LEMMA StepKinds ==
  ASSUME TypeOK, [Next]_vars
  PROVE  \/ Silent
         \/ \E c \in net : Receive(c)
         \/ \E n \in Nodes : Handle(n)
  <1>1. ASSUME NEW n \in Nodes, Orchestrate(n) PROVE Silent
    <2> DEFINE ms == {Task(t) : t \in Tasks}
    <2>1. ms \in SUBSET Messages /\ \A m \in ms : m.kind # "Result"
      BY MessageFacts
    <2>2. /\ Publish(n, ms) /\ UNCHANGED <<events, runs>>
          /\ ledger' = [ledger EXCEPT ![n] = @ \cup {LedgerKey(t) : t \in Tasks}]
      BY <1>1 DEF Orchestrate
    <2> HIDE DEF ms
    <2>3. \A q \in Nodes : ledger[q] \subseteq ledger'[q]
      BY <2>2 DEF TypeOK
    <2>4. /\ \A q \in Nodes : seen[q] \subseteq seen'[q]
          /\ \A c \in net' \ net : c[4] \in ms
      BY <2>1, <2>2, PublishFacts
    <2> QED BY <2>1, <2>2, <2>3, <2>4 DEF Silent
  <1>2. ASSUME NEW n \in Nodes, Signal(n) PROVE Silent
    <2>1. {Notice} \in SUBSET Messages /\ Notice.kind # "Result"
      BY MessageFacts
    <2>2. /\ \A q \in Nodes : seen[q] \subseteq seen'[q]
          /\ \A c \in net' \ net : c[4] \in {Notice}
      BY <1>2, <2>1, PublishFacts DEF Signal
    <2> QED BY <1>2, <2>1, <2>2 DEF Signal, Silent
  <1>3. ASSUME NEW n \in Nodes, BridgeForward(n) PROVE Silent
    <2>1. bridge[n] \in Seq(BridgeMessages) /\ bridge[n] # <<>>
      BY <1>3 DEF BridgeForward, TypeOK
    <2>2. Head(bridge[n]) \in BridgeMessages /\ {Head(bridge[n])} \in SUBSET Messages
      BY <2>1, HeadTailProperties, BridgeAssumption
    <2>3. /\ \A q \in Nodes : seen[q] \subseteq seen'[q]
          /\ \A c \in net' \ net : c[4] \in {Head(bridge[n])}
      BY <1>3, <2>2, PublishFacts DEF BridgeForward
    <2> QED BY <1>3, <2>2, <2>3 DEF BridgeForward, history, Silent
  <1>4. CASE (\E n \in Nodes : BridgeAccept(n)) \/ Discovery \/ Connection
             \/ UNCHANGED vars
    BY <1>4 DEF BridgeAccept, Discovery, Connection, Discovered, Expired, Disconnect,
                Redial, vars, network, history, Silent
  <1> QED BY <1>1, <1>2, <1>3, <1>4 DEF Next, LoopStep, Input, Arrival

LEMMA NextOnce == OnceInv /\ [Next]_vars => ReceivedOnce' /\ RunLeavesQueue'
  <1> SUFFICES ASSUME TypeOK, ReceivedOnce, RunLeavesQueue, [Next]_vars
               PROVE  ReceivedOnce' /\ RunLeavesQueue'
    BY DEF OnceInv
  <1>1. CASE Silent
    BY <1>1 DEF Silent, ReceivedOnce, RunLeavesQueue
  <1>2. ASSUME NEW c \in net, Receive(c) PROVE ReceivedOnce' /\ RunLeavesQueue'
    <2> DEFINE n == c[2]
               m == c[4]
    <2>1. runs' = runs
      BY <1>2 DEF Receive, history
    <2>2. n \in Nodes /\ m \in Messages
      BY <1>2, ReceiveFacts
    <2>3. \/ UNCHANGED <<seen, events>>
          \/ /\ m \notin seen[n]
             /\ seen' = [seen EXCEPT ![n] = @ \cup {m}]
             /\ events' = [events EXCEPT ![n] = Append(@, m)]
      BY <1>2, ReceiveFacts
    <2> HIDE DEF n, m
    <2>4. CASE UNCHANGED <<seen, events>>
      BY <2>1, <2>4 DEF ReceivedOnce, RunLeavesQueue
    <2>5. CASE /\ m \notin seen[n]
               /\ seen' = [seen EXCEPT ![n] = @ \cup {m}]
               /\ events' = [events EXCEPT ![n] = Append(@, m)]
      <3>1. /\ seen'[n] = seen[n] \cup {m}
            /\ \A q \in Nodes : q # n => seen'[q] = seen[q] /\ events'[q] = events[q]
        BY <2>2, <2>5 DEF TypeOK
      <3>2. /\ Len(events[n]) \in Nat /\ Len(events'[n]) = Len(events[n]) + 1
            /\ \A k \in 1 .. Len(events[n]) : events'[n][k] = events[n][k]
            /\ events'[n][Len(events[n]) + 1] = m
        <4>1. events[n] \in Seq(Messages) /\ events'[n] = Append(events[n], m)
          BY <2>2, <2>5 DEF TypeOK
        <4>2. Len(events[n]) \in Nat
          BY <4>1, LenProperties
        <4> QED BY <2>2, <4>1, <4>2, AppendProperties
      <3>3. \A k \in 1 .. Len(events[n]) : events[n][k] # m
        BY <2>2, <2>5 DEF ReceivedOnce
      <3>4. ReceivedOnce'
        <4>1. /\ \A k \in 1 .. Len(events'[n]) : events'[n][k] \in seen'[n]
              /\ \A j, k \in 1 .. Len(events'[n]) : events'[n][j] = events'[n][k] => j = k
          <5>1. \A k \in 1 .. Len(events'[n]) :
                  k \in 1 .. Len(events[n]) \/ k = Len(events[n]) + 1
            BY <3>2
          <5>2. /\ \A k \in 1 .. Len(events[n]) : events[n][k] \in seen[n]
                /\ \A j, k \in 1 .. Len(events[n]) : events[n][j] = events[n][k] => j = k
            BY <2>2 DEF ReceivedOnce
          <5>3. \A k \in 1 .. Len(events'[n]) : events'[n][k] \in seen'[n]
            BY <3>1, <3>2, <5>1, <5>2
          <5>4. \A j, k \in 1 .. Len(events'[n]) : events'[n][j] = events'[n][k] => j = k
            BY <3>2, <3>3, <5>1, <5>2
          <5> QED BY <5>3, <5>4
        <4>2. ASSUME NEW q \in Nodes, q # n
              PROVE  seen'[q] = seen[q] /\ events'[q] = events[q]
          BY <3>1, <4>2
        <4> QED BY <4>1, <4>2 DEF ReceivedOnce
      <3>5. \A t \in Tasks : Task(t) = m => ~ (runs[n][t] > 0)
        BY <2>2, <2>5 DEF RunLeavesQueue
      <3>6. ASSUME NEW q \in Nodes, NEW t \in Tasks, runs'[q][t] > 0
            PROVE  /\ runs'[q][t] = 1 /\ Task(t) \in seen'[q]
                   /\ \A k \in 1 .. Len(events'[q]) : events'[q][k] # Task(t)
        <4>1. CASE q = n
          <5>1. /\ Task(t) # m /\ Task(t) \in seen[n] /\ runs[n][t] = 1
                /\ \A k \in 1 .. Len(events[n]) : events[n][k] # Task(t)
            BY <2>1, <2>2, <3>5, <3>6, <4>1 DEF RunLeavesQueue
          <5> QED BY <2>1, <3>1, <3>2, <4>1, <5>1
        <4>2. CASE q # n
          BY <2>1, <3>1, <3>6, <4>2 DEF RunLeavesQueue
        <4> QED BY <4>1, <4>2
      <3> QED BY <3>4, <3>6 DEF RunLeavesQueue
    <2> QED BY <2>3, <2>4, <2>5
  <1>3. ASSUME NEW n \in Nodes, Handle(n) PROVE ReceivedOnce' /\ RunLeavesQueue'
    <2> DEFINE m == Head(events[n])
    <2>1. /\ m \in Messages /\ m = events[n][1] /\ 1 \in 1 .. Len(events[n])
          /\ Len(events[n]) \in Nat
          /\ HandleTask(n, m) \/ HandleOther(n, m)
      BY <1>3, HandleFacts
    <2>2. /\ Len(events'[n]) = Len(events[n]) - 1
          /\ \A k \in 1 .. (Len(events[n]) - 1) : events'[n][k] = events[n][k + 1]
          /\ \A q \in Nodes : q # n => events'[q] = events[q]
      <3>1. /\ events' = [events EXCEPT ![n] = Tail(@)]
            /\ Len(Tail(events[n])) = Len(events[n]) - 1
            /\ \A k \in 1 .. (Len(events[n]) - 1) : Tail(events[n])[k] = events[n][k + 1]
        BY <1>3, HandleFacts
      <3>2. events'[n] = Tail(events[n]) /\ \A q \in Nodes : q # n => events'[q] = events[q]
        BY <3>1 DEF TypeOK
      <3> QED BY <3>1, <3>2
    <2> HIDE DEF m
    <2>3. /\ \A q \in Nodes : seen[q] \subseteq seen'[q]
          /\ \A q \in Nodes, t \in Tasks :
               runs'[q][t] = IF q = n /\ m = Task(t) THEN runs[q][t] + 1 ELSE runs[q][t]
      <3>1. CASE HandleTask(n, m)
        <4>1. /\ m.kind = "Task" /\ runs' = [runs EXCEPT ![n][m.task] = @ + 1]
              /\ Publish(n, {Result(m.task, n)})
          BY <3>1 DEF HandleTask
        <4>2. m.task \in Tasks /\ m = Task(m.task)
          BY <2>1, <4>1, MessageFacts
        <4>3. {Result(m.task, n)} \in SUBSET Messages
          BY <4>2, MessageFacts
        <4>4. \A t \in Tasks : m = Task(t) <=> t = m.task
          BY <4>2, MessageFacts
        <4>5. \A q \in Nodes, t \in Tasks :
                runs'[q][t] = IF q = n /\ t = m.task THEN runs[q][t] + 1 ELSE runs[q][t]
          BY <4>1, <4>2 DEF TypeOK
        <4> QED BY <4>1, <4>3, <4>4, <4>5, PublishFacts
      <3>2. CASE HandleOther(n, m)
        <4>1. \A t \in Tasks : m # Task(t)
          BY <3>2, MessageFacts DEF HandleOther
        <4> QED BY <3>2, <4>1 DEF HandleOther
      <3> QED BY <2>1, <3>1, <3>2
    <2>4. ReceivedOnce'
      <3>1. ASSUME NEW q \in Nodes
            PROVE  /\ \A k \in 1 .. Len(events'[q]) : events'[q][k] \in seen'[q]
                   /\ \A j, k \in 1 .. Len(events'[q]) :
                        events'[q][j] = events'[q][k] => j = k
        <4>1. CASE q = n
          <5>1. /\ \A k \in 1 .. Len(events[n]) : events[n][k] \in seen[n]
                /\ \A j, k \in 1 .. Len(events[n]) : events[n][j] = events[n][k] => j = k
            BY DEF ReceivedOnce
          <5>2. \A k \in 1 .. Len(events'[n]) :
                  k + 1 \in 1 .. Len(events[n]) /\ events'[n][k] = events[n][k + 1]
            BY <2>1, <2>2
          <5>3. \A k \in 1 .. Len(events'[n]) : events'[n][k] \in seen'[n]
            BY <2>3, <5>1, <5>2
          <5>4. \A j, k \in 1 .. Len(events'[n]) : events'[n][j] = events'[n][k] => j = k
            BY <5>1, <5>2
          <5> QED BY <4>1, <5>3, <5>4
        <4>2. CASE q # n
          BY <2>2, <2>3, <4>2 DEF ReceivedOnce
        <4> QED BY <4>1, <4>2
      <3> QED BY <3>1 DEF ReceivedOnce
    <2>5. \A k \in 1 .. Len(events'[n]) : events'[n][k] # m
      BY <2>1, <2>2 DEF ReceivedOnce
    <2>6. ASSUME NEW q \in Nodes, NEW t \in Tasks, runs'[q][t] > 0
          PROVE  /\ runs'[q][t] = 1 /\ Task(t) \in seen'[q]
                 /\ \A k \in 1 .. Len(events'[q]) : events'[q][k] # Task(t)
      <3>1. CASE q = n /\ m = Task(t)
        <4>1. Task(t) \in seen[n]
          <5>1. events[n][1] \in seen[n]
            BY <2>1 DEF ReceivedOnce
          <5> QED BY <2>1, <3>1, <5>1
        <4>2. runs[n][t] \in Nat /\ ~ (runs[n][t] > 0)
          <5>1. events[n][1] = Task(t)
            BY <2>1, <3>1
          <5>2. ~ (runs[n][t] > 0)
            BY <2>1, <5>1 DEF RunLeavesQueue
          <5> QED BY <5>2 DEF TypeOK
        <4> QED BY <2>3, <2>5, <3>1, <4>1, <4>2
      <3>2. CASE ~ (q = n /\ m = Task(t))
        <4>1. /\ runs[q][t] > 0 /\ runs'[q][t] = 1 /\ Task(t) \in seen'[q]
              /\ \A k \in 1 .. Len(events[q]) : events[q][k] # Task(t)
          BY <2>3, <2>6, <3>2 DEF RunLeavesQueue
        <4>2. CASE q = n
          <5>1. \A k \in 1 .. (Len(events[n]) - 1) : k + 1 \in 1 .. Len(events[n])
            BY <2>1
          <5>2. \A k \in 1 .. Len(events'[n]) : events'[n][k] # Task(t)
            BY <2>2, <4>1, <4>2, <5>1
          <5> QED BY <4>1, <4>2, <5>2
        <4>3. CASE q # n
          BY <2>2, <4>1, <4>3
        <4> QED BY <4>1, <4>2, <4>3
      <3> QED BY <3>1, <3>2
    <2> QED BY <2>4, <2>6 DEF RunLeavesQueue
  <1> QED BY <1>1, <1>2, <1>3, StepKinds

LEMMA OnceInvariant == Spec => []OnceInv
  <1>1. Init => OnceInv
    <2>1. Len(<<>>) = 0
      OBVIOUS
    <2> QED BY <2>1, InitTypeOK DEF Init, OnceInv, ReceivedOnce, RunLeavesQueue
  <1>2. OnceInv /\ [Next]_vars => OnceInv'
    BY NextTypeOK, NextOnce DEF OnceInv
  <1> QED BY <1>1, <1>2, PTL DEF Spec

\* In any topology, under any loss of connections, a node runs a task at most
\* once while ids stay in its duplicate cache.
THEOREM TaskRunsOnce == Spec => []RunsOnce
  <1>1. ASSUME OnceInv, NEW n \in Nodes, NEW t \in Tasks PROVE runs[n][t] <= 1
    <2>1. runs[n][t] \in Nat
      BY <1>1 DEF OnceInv, TypeOK
    <2>2. runs[n][t] > 0 => runs[n][t] = 1
      BY <1>1 DEF OnceInv, RunLeavesQueue
    <2> QED BY <2>1, <2>2
  <1>2. OnceInv => RunsOnce
    BY <1>1 DEF RunsOnce
  <1> QED BY <1>2, OnceInvariant, PTL

-----------------------------------------------------------------------------
\* Why only a task that was run is resolved: a result on its way, or queued,
\* comes from a node that ran the task, and its author cannot receive it,
\* because the author has its id in the cache.
ResultsReal ==
  /\ \A c \in net : c[4].kind = "Result" =>
       runs[c[4].worker][c[4].task] > 0 /\ c[4] \in seen[c[4].worker]
  /\ \A n \in Nodes : \A k \in 1 .. Len(events[n]) : events[n][k].kind = "Result" =>
       runs[events[n][k].worker][events[n][k].task] > 0 /\ events[n][k].worker # n

NoBridgedResults == \A m \in BridgeMessages : m.kind # "Result"

LEMMA RunsGrow ==
  ASSUME TypeOK, NEW n \in Nodes, Handle(n)
  PROVE  LET m == Head(events[n])
         IN  /\ \A q \in Nodes, t \in Tasks : runs[q][t] > 0 => runs'[q][t] > 0
             /\ \A q \in Nodes : seen[q] \subseteq seen'[q]
             /\ \A c \in net' \ net :
                  /\ m.task \in Tasks /\ c[4] = Result(m.task, n)
                  /\ runs'[n][m.task] > 0 /\ c[4] \in seen'[n]
  <1> DEFINE m == Head(events[n])
  <1>1. m \in Messages /\ (HandleTask(n, m) \/ HandleOther(n, m))
    BY HandleFacts
  <1> HIDE DEF m
  <1>2. CASE HandleTask(n, m)
    <2>1. /\ m.kind = "Task" /\ runs' = [runs EXCEPT ![n][m.task] = @ + 1]
          /\ Publish(n, {Result(m.task, n)})
      BY <1>2 DEF HandleTask
    <2>2. m.task \in Tasks /\ Result(m.task, n) \in Messages
      <3>1. m.task \in Tasks
        BY <1>1, <2>1, MessageFacts
      <3> QED BY <3>1, MessageFacts
    <2>3. \A q \in Nodes, t \in Tasks :
            /\ runs[q][t] \in Nat
            /\ runs'[q][t] = IF q = n /\ t = m.task THEN runs[q][t] + 1 ELSE runs[q][t]
      BY <2>1, <2>2 DEF TypeOK
    <2>4. /\ \A q \in Nodes : seen[q] \subseteq seen'[q]
          /\ \A c \in net' \ net : c[4] \in {Result(m.task, n)} /\ c[4] \in seen'[n]
      <3>1. {Result(m.task, n)} \in SUBSET Messages
        BY <2>2
      <3> QED BY <2>1, <3>1, PublishFacts
    <2>5. \A q \in Nodes, t \in Tasks : runs[q][t] > 0 => runs'[q][t] > 0
      BY <2>3
    <2>6. runs'[n][m.task] > 0
      BY <2>2, <2>3
    <2> QED BY <2>2, <2>4, <2>5, <2>6 DEF m
  <1>3. CASE HandleOther(n, m)
    BY <1>3 DEF HandleOther, m
  <1> QED BY <1>1, <1>2, <1>3

LEMMA NextResultsReal ==
  ASSUME NoBridgedResults, TypeOK, ResultsReal, [Next]_vars
  PROVE  ResultsReal'
  <1>0. \A m \in Messages : m.kind = "Result" => m.task \in Tasks /\ m.worker \in Nodes
    BY MessageFacts
  <1>t. /\ \A c \in net : c[4] \in Messages
        /\ \A n \in Nodes : Len(events[n]) \in Nat
                            /\ \A k \in 1 .. Len(events[n]) : events[n][k] \in Messages
    BY LenProperties, ElementOfSeq DEF TypeOK
  <1>1. CASE Silent
    <2>1. /\ events' = events /\ runs' = runs
          /\ \A n \in Nodes : seen[n] \subseteq seen'[n]
          /\ \A c \in net' : c[4].kind = "Result" => c \in net
      BY <1>1 DEF Silent, NoBridgedResults
    <2>2. ASSUME NEW c \in net', c[4].kind = "Result"
          PROVE  runs'[c[4].worker][c[4].task] > 0 /\ c[4] \in seen'[c[4].worker]
      <3>1. c \in net /\ c[4].worker \in Nodes
        <4>1. c \in net
          BY <2>1, <2>2
        <4>2. c[4] \in Messages
          BY <1>t, <4>1
        <4> QED BY <1>0, <2>2, <4>1, <4>2
      <3> QED BY <2>1, <2>2, <3>1 DEF ResultsReal
    <2> QED BY <2>1, <2>2 DEF ResultsReal
  <1>2. ASSUME NEW c \in net, Receive(c) PROVE ResultsReal'
    <2> DEFINE n == c[2]
               m == c[4]
    <2>1. runs' = runs
      BY <1>2 DEF Receive, history
    <2>2. /\ n \in Nodes /\ m \in Messages
          /\ \A d \in net' : d \in net \/ d[4] = m
      BY <1>2, ReceiveFacts
    <2>3. \/ UNCHANGED <<seen, events>>
          \/ /\ m \notin seen[n]
             /\ seen' = [seen EXCEPT ![n] = @ \cup {m}]
             /\ events' = [events EXCEPT ![n] = Append(@, m)]
      BY <1>2, ReceiveFacts
    <2>4. m.kind = "Result" =>
            /\ m.worker \in Nodes
            /\ runs[m.worker][m.task] > 0 /\ m \in seen[m.worker]
      BY <1>0, <2>2 DEF ResultsReal
    <2> HIDE DEF n, m
    <2>5. \A q \in Nodes : seen[q] \subseteq seen'[q]
      <3>1. CASE seen' = seen
        BY <3>1
      <3>2. CASE seen' = [seen EXCEPT ![n] = @ \cup {m}]
        BY <2>2, <3>2 DEF TypeOK
      <3> QED BY <2>3, <3>1, <3>2
    <2>6. ASSUME NEW d \in net', d[4].kind = "Result"
          PROVE  runs'[d[4].worker][d[4].task] > 0 /\ d[4] \in seen'[d[4].worker]
      <3>1. CASE d \in net
        <4>1. d[4].worker \in Nodes
          BY <1>0, <1>t, <2>6, <3>1
        <4> QED BY <2>1, <2>5, <2>6, <3>1, <4>1 DEF ResultsReal
      <3>2. CASE d[4] = m
        BY <2>1, <2>4, <2>5, <2>6, <3>2
      <3> QED BY <2>2, <3>1, <3>2
    <2>7. ASSUME NEW q \in Nodes, NEW k \in 1 .. Len(events'[q]),
                 events'[q][k].kind = "Result"
          PROVE  /\ runs'[events'[q][k].worker][events'[q][k].task] > 0
                 /\ events'[q][k].worker # q
      <3>1. \/ k \in 1 .. Len(events[q]) /\ events'[q][k] = events[q][k]
            \/ q = n /\ m \notin seen[n] /\ events'[q][k] = m
        <4>1. CASE events' = events
          BY <4>1
        <4>2. CASE q # n
          <5>1. events'[q] = events[q]
            BY <2>2, <2>3, <4>2 DEF TypeOK
          <5> QED BY <5>1
        <4>3. CASE q = n /\ m \notin seen[n] /\ events' = [events EXCEPT ![n] = Append(@, m)]
          <5>1. events[n] \in Seq(Messages) /\ events'[n] = Append(events[n], m)
            BY <2>2, <4>3 DEF TypeOK
          <5>2. /\ Len(events'[n]) = Len(events[n]) + 1 /\ Len(events[n]) \in Nat
                /\ \A j \in 1 .. Len(events[n]) : events'[n][j] = events[n][j]
                /\ events'[n][Len(events[n]) + 1] = m
            BY <2>2, <5>1, AppendProperties, LenProperties
          <5>3. k \in 1 .. Len(events[n]) \/ k = Len(events[n]) + 1
            BY <4>3, <5>2
          <5> QED BY <4>3, <5>2, <5>3
        <4> QED BY <2>3, <4>1, <4>2, <4>3
      <3>2. CASE k \in 1 .. Len(events[q]) /\ events'[q][k] = events[q][k]
        BY <2>1, <2>7, <3>2 DEF ResultsReal
      <3>3. CASE q = n /\ m \notin seen[n] /\ events'[q][k] = m
        BY <2>1, <2>4, <2>7, <3>3
      <3> QED BY <3>1, <3>2, <3>3
    <2> QED BY <2>6, <2>7 DEF ResultsReal
  <1>3. ASSUME NEW n \in Nodes, Handle(n) PROVE ResultsReal'
    <2> DEFINE m == Head(events[n])
    <2>1. /\ \A q \in Nodes, t \in Tasks : runs[q][t] > 0 => runs'[q][t] > 0
          /\ \A q \in Nodes : seen[q] \subseteq seen'[q]
          /\ \A c \in net' \ net :
               /\ m.task \in Tasks /\ c[4] = Result(m.task, n)
               /\ runs'[n][m.task] > 0 /\ c[4] \in seen'[n]
      BY <1>3, RunsGrow
    <2>2. \A q \in Nodes : \A k \in 1 .. Len(events'[q]) :
            \E j \in 1 .. Len(events[q]) : events'[q][k] = events[q][j]
      <3>1. /\ events' = [events EXCEPT ![n] = Tail(@)]
            /\ Len(Tail(events[n])) = Len(events[n]) - 1 /\ Len(events[n]) \in Nat
            /\ \A k \in 1 .. (Len(events[n]) - 1) : Tail(events[n])[k] = events[n][k + 1]
        BY <1>3, HandleFacts
      <3>2. events'[n] = Tail(events[n]) /\ \A q \in Nodes : q # n => events'[q] = events[q]
        BY <3>1 DEF TypeOK
      <3>3. \A k \in 1 .. Len(events'[n]) :
              k + 1 \in 1 .. Len(events[n]) /\ events'[n][k] = events[n][k + 1]
        <4>1. Len(events'[n]) = Len(events[n]) - 1
          BY <3>1, <3>2
        <4>2. \A k \in 1 .. (Len(events[n]) - 1) :
                k + 1 \in 1 .. Len(events[n]) /\ events'[n][k] = events[n][k + 1]
          <5>1. \A k \in 1 .. (Len(events[n]) - 1) : k + 1 \in 1 .. Len(events[n])
            BY <3>1
          <5> QED BY <3>1, <3>2, <5>1
        <4> QED BY <4>1, <4>2
      <3>4. ASSUME NEW q \in Nodes, NEW k \in 1 .. Len(events'[q])
            PROVE  \E j \in 1 .. Len(events[q]) : events'[q][k] = events[q][j]
        <4>1. CASE q = n
          BY <3>3, <3>4, <4>1
        <4>2. CASE q # n
          <5>1. events'[q] = events[q]
            BY <3>2, <4>2
          <5>2. k \in 1 .. Len(events[q]) /\ events'[q][k] = events[q][k]
            BY <5>1
          <5> QED BY <5>2
        <4> QED BY <4>1, <4>2
      <3> QED BY <3>4
    <2> HIDE DEF m
    <2>3. ASSUME NEW c \in net', c[4].kind = "Result"
          PROVE  runs'[c[4].worker][c[4].task] > 0 /\ c[4] \in seen'[c[4].worker]
      <3>1. CASE c \in net
        <4>1. c[4].worker \in Nodes /\ c[4].task \in Tasks
          BY <1>0, <1>t, <2>3, <3>1
        <4> QED BY <2>1, <2>3, <3>1, <4>1 DEF ResultsReal
      <3>2. CASE c \notin net
        <4>1. /\ c[4] = Result(m.task, n) /\ m.task \in Tasks
              /\ runs'[n][m.task] > 0 /\ c[4] \in seen'[n]
          BY <2>1, <3>2
        <4>2. c[4].worker = n /\ c[4].task = m.task
          BY <4>1, MessageFacts
        <4> QED BY <4>1, <4>2
      <3> QED BY <3>1, <3>2
    <2>4. ASSUME NEW q \in Nodes, NEW k \in 1 .. Len(events'[q]),
                 events'[q][k].kind = "Result"
          PROVE  /\ runs'[events'[q][k].worker][events'[q][k].task] > 0
                 /\ events'[q][k].worker # q
      <3>1. PICK j \in 1 .. Len(events[q]) : events'[q][k] = events[q][j]
        BY <2>2
      <3> DEFINE e == events[q][j]
      <3>2. e.worker \in Nodes /\ e.task \in Tasks
        BY <1>0, <1>t, <2>4, <3>1
      <3>3. runs[e.worker][e.task] > 0 /\ e.worker # q
        BY <2>4, <3>1 DEF ResultsReal
      <3> QED BY <2>1, <3>1, <3>2, <3>3
    <2> QED BY <2>3, <2>4 DEF ResultsReal
  <1> QED BY <1>1, <1>2, <1>3, StepKinds

LEMMA ResolvedStep ==
  ASSUME TypeOK, ResultsReal, [Next]_vars,
         NEW n \in Nodes, NEW t \in ledger[n] \ ledger'[n]
  PROVE  \E q \in Nodes \ {n} : runs[q][t] > 0
  <1>1. CASE Silent
    BY <1>1 DEF Silent
  <1>2. ASSUME NEW c \in net, Receive(c) PROVE FALSE
    BY <1>2 DEF Receive
  <1>3. ASSUME NEW x \in Nodes, Handle(x)
        PROVE  \E q \in Nodes \ {n} : runs[q][t] > 0
    <2> DEFINE m == Head(events[x])
    <2>1. /\ m \in Messages /\ m = events[x][1] /\ 1 \in 1 .. Len(events[x])
          /\ ledger' = [ledger EXCEPT ![x] = @ \ Resolved(m)]
      BY <1>3, HandleFacts
    <2> HIDE DEF m
    <2>2. x = n /\ t \in Resolved(m)
      BY <2>1 DEF TypeOK
    <2>3. m.kind = "Result" /\ t = m.task
      BY <2>2 DEF Resolved
    <2>4. m.worker \in Nodes
      BY <2>1, <2>3, MessageFacts
    <2>5. events[n][1].kind = "Result" /\ 1 \in 1 .. Len(events[n])
      BY <2>1, <2>2, <2>3
    <2>6. runs[m.worker][m.task] > 0 /\ m.worker # n
      BY <2>1, <2>2, <2>5 DEF ResultsReal
    <2> QED BY <2>3, <2>4, <2>6
  <1> QED BY <1>1, <1>2, <1>3, StepKinds

\* If the bridge injects no results, a task leaves the ledger of a node only
\* after another node has run it, whatever the order, the duplicates and the
\* losses of messages.
THEOREM ResolvedOnlyAfterRun ==
  ASSUME NoBridgedResults
  PROVE  Spec => ResolvedWasRun
  <1>1. Init => ResultsReal
    <2>1. Len(<<>>) = 0
      OBVIOUS
    <2> QED BY <2>1 DEF Init, ResultsReal
  <1>2. TypeOK /\ ResultsReal /\ [Next]_vars => ResultsReal'
    BY NextResultsReal
  <1>3. TypeOK /\ ResultsReal /\ [Next]_vars =>
          [\A n \in Nodes : \A t \in ledger[n] \ ledger'[n] :
             \E q \in Nodes \ {n} : runs[q][t] > 0]_vars
    BY ResolvedStep
  <1> QED BY <1>1, <1>2, <1>3, TypeCorrect, PTL DEF Spec, ResolvedWasRun

-----------------------------------------------------------------------------
(***************************************************************************)
(* Why no published task vanishes while nothing disturbs the mesh: a task  *)
(* goes straight to a peer, that peer is still connected when it answers,  *)
(* and its answer comes straight back, whatever is forwarded besides.      *)
(***************************************************************************)
Queued(n, m) == \E k \in 1 .. Len(events[n]) : events[n][k] = m

BridgesCounted ==
  \A n \in Nodes : bridge[n] # <<>> => n \in Bridges /\ bridged[n] > 0

\* Only n has sent tasks, and only who has run a task has sent a result.
OnlyFrom(n) ==
  /\ \A t \in Tasks : Task(t) \notin seen[n] =>
       /\ \A q \in Nodes : Task(t) \notin seen[q]
       /\ \A c \in net : c[4] # Task(t)
  /\ \A t \in Tasks, x \in Nodes : runs[x][t] = 0 =>
       /\ \A q \in Nodes : Result(t, x) \notin seen[q]
       /\ \A c \in net : c[4] # Result(t, x)

\* The worker q has the task of n, or will get it, or n has its answer, or
\* will get it.
Served(n, t, q) ==
  \/ Task(t) \notin seen[q] /\ <<n, q, n, Task(t)>> \in net
  \/ Queued(q, Task(t))
  \/ Result(t, q) \notin seen[n] /\ <<q, n, q, Result(t, q)>> \in net
  \/ Queued(n, Result(t, q))

SomeoneServes(n, t) ==
  \E q \in Nodes \ {n} : {n, q} \in links /\ Served(n, t, q)

QuietInv ==
  \A n \in Nodes : Undisturbed(n) =>
    OnlyFrom(n) /\ \A t \in awaited[n] : SomeoneServes(n, t)

LEMMA PublishSends ==
  ASSUME TypeOK, NEW n \in Nodes, NEW ms \in SUBSET Messages, Publish(n, ms)
  PROVE  /\ net \subseteq net'
         /\ \A c \in net' : c \in net \/ c[4] \in Published(n, ms)
         /\ \A q \in Peers(n), m \in Published(n, ms) : <<n, q, n, m>> \in net'
         /\ seen'[n] = seen[n] \cup Published(n, ms)
         /\ \A q \in Nodes : q # n => seen'[q] = seen[q]
  <1> DEFINE sent == Published(n, ms)
             copies == Copies(n, Peers(n), n, sent)
  <1>1. /\ net' = net \cup copies
        /\ seen' = [seen EXCEPT ![n] = @ \cup sent]
    BY DEF Publish, MessageId
  <1> HIDE DEF sent
  <1>2. /\ \A c \in copies : c[4] \in sent
        /\ \A q \in Peers(n), m \in sent : <<n, q, n, m>> \in copies
    BY DEF Copies
  <1> HIDE DEF copies
  <1>3. seen'[n] = seen[n] \cup sent /\ \A q \in Nodes : q # n => seen'[q] = seen[q]
    BY <1>1 DEF TypeOK
  <1> QED BY <1>1, <1>2, <1>3 DEF sent

LEMMA LinkedPeers ==
  ASSUME NEW n \in Nodes, NEW q \in Nodes
  PROVE  q \in Peers(n) <=> q # n /\ {n, q} \in links
  BY DEF Peers

\* What a step leaves in the queues.
LEMMA ReceiveQueues ==
  ASSUME TypeOK, NEW c \in net, Receive(c), NEW n \in Nodes, NEW m
  PROVE  /\ Queued(n, m) => Queued(n, m)'
         /\ n = c[2] /\ m = c[4] /\ m \notin seen[n] => Queued(n, m)'
         /\ Queued(n, m)' => Queued(n, m) \/ (n = c[2] /\ m = c[4])
  <1>1. /\ c[2] \in Nodes /\ c[4] \in Messages
        /\ \/ c[4] \in seen[c[2]] /\ events' = events
           \/ events' = [events EXCEPT ![c[2]] = Append(@, c[4])]
    BY ReceiveFacts
  <1>2. CASE events' = events /\ c[4] \in seen[c[2]]
    BY <1>2 DEF Queued
  <1>3. CASE events' = [events EXCEPT ![c[2]] = Append(@, c[4])]
    <2>1. CASE n # c[2]
      <3>1. events'[n] = events[n]
        BY <1>1, <1>3, <2>1 DEF TypeOK
      <3> QED BY <2>1, <3>1 DEF Queued
    <2>2. CASE n = c[2]
      <3>1. events[n] \in Seq(Messages) /\ events'[n] = Append(events[n], c[4])
        BY <1>1, <1>3, <2>2 DEF TypeOK
      <3>2. /\ Len(events'[n]) = Len(events[n]) + 1 /\ Len(events[n]) \in Nat
            /\ \A j \in 1 .. Len(events[n]) : events'[n][j] = events[n][j]
            /\ events'[n][Len(events[n]) + 1] = c[4]
        BY <1>1, <3>1, AppendProperties, LenProperties
      <3>3. Queued(n, m) => Queued(n, m)'
        BY <3>2 DEF Queued
      <3>4. Queued(n, c[4])'
        <4>1. Len(events[n]) + 1 \in 1 .. Len(events'[n])
          BY <3>2
        <4> QED BY <3>2, <4>1 DEF Queued
      <3>5. Queued(n, m)' => Queued(n, m) \/ m = c[4]
        <4>1. \A k \in 1 .. Len(events'[n]) : k \in 1 .. Len(events[n]) \/ k = Len(events[n]) + 1
          BY <3>2
        <4> QED BY <3>2, <4>1 DEF Queued
      <3> QED BY <2>2, <3>3, <3>4, <3>5
    <2> QED BY <2>1, <2>2
  <1> QED BY <1>1, <1>2, <1>3

LEMMA HandleQueues ==
  ASSUME TypeOK, NEW q \in Nodes, Handle(q), NEW n \in Nodes, NEW m, Queued(n, m)
  PROVE  Queued(n, m)' \/ (n = q /\ m = Head(events[q]))
  <1>1. /\ events' = [events EXCEPT ![q] = Tail(@)] /\ Len(events[q]) \in Nat
        /\ Head(events[q]) = events[q][1] /\ Len(Tail(events[q])) = Len(events[q]) - 1
        /\ \A k \in 1 .. (Len(events[q]) - 1) : Tail(events[q])[k] = events[q][k + 1]
    BY HandleFacts
  <1>2. PICK k \in 1 .. Len(events[n]) : events[n][k] = m
    BY DEF Queued
  <1>3. CASE n # q
    <2>1. events'[n] = events[n]
      BY <1>1, <1>3 DEF TypeOK
    <2> QED BY <1>2, <2>1 DEF Queued
  <1>4. CASE n = q
    <2>1. events'[n] = Tail(events[n])
      BY <1>1, <1>4 DEF TypeOK
    <2>2. CASE k = 1
      BY <1>1, <1>2, <1>4, <2>2
    <2>3. CASE k # 1
      <3>1. k - 1 \in 1 .. (Len(events[n]) - 1) /\ (k - 1) + 1 = k
        BY <1>1, <1>4, <2>3
      <3>2. events'[n][k - 1] = m /\ k - 1 \in 1 .. Len(events'[n])
        BY <1>1, <1>2, <1>4, <2>1, <3>1
      <3> QED BY <3>2 DEF Queued
    <2> QED BY <2>2, <2>3
  <1> QED BY <1>3, <1>4

\* The steps that leave the mesh undisturbed.
LEMMA QuietKinds ==
  ASSUME TypeOK, BridgesCounted, NEW n \in Nodes, Undisturbed(n)', [Next]_vars
  PROVE  /\ Undisturbed(n)
         /\ \/ /\ UNCHANGED <<net, seen, events, runs, awaited>>
               /\ links \subseteq links'
            \/ n \in Ceos /\ Orchestrate(n)
            \/ \E q \in Nodes : Signal(q)
            \/ \E c \in net : Receive(c)
            \/ \E q \in Nodes : Handle(q)
  <1>1. /\ drops' = 0 /\ \A q \in Ceos \ {n} : typed'[q] = 0
        /\ \A q \in Bridges : bridged'[q] = 0
    BY DEF Undisturbed
  <1>2. Ceos \subseteq Nodes /\ Bridges \subseteq Nodes
    BY RolesAssumption
  <1>3. ASSUME UNCHANGED <<drops, typed, bridged>> PROVE Undisturbed(n)
    BY <1>3 DEF Undisturbed
  <1>4. ASSUME NEW q \in Nodes, Orchestrate(q) PROVE Undisturbed(n) /\ q = n /\ n \in Ceos
    <2>1. /\ q \in Ceos /\ typed' = [typed EXCEPT ![q] = @ + 1] /\ drops' = drops
          /\ bridged' = bridged
      BY <1>4 DEF Orchestrate
    <2>2. typed[q] \in Nat /\ typed'[q] = typed[q] + 1
          /\ \A x \in Nodes : x # q => typed'[x] = typed[x]
      BY <2>1 DEF TypeOK
    <2>3. q = n
      BY <1>1, <2>1, <2>2
    <2> QED BY <1>1, <1>2, <2>1, <2>2, <2>3 DEF Undisturbed
  <1>5. ASSUME NEW q \in Nodes, Signal(q) PROVE Undisturbed(n)
    <2>1. typed' = [typed EXCEPT ![q] = @ + 1] /\ drops' = drops /\ bridged' = bridged
      BY <1>5 DEF Signal
    <2>2. ASSUME NEW x \in Ceos \ {n} PROVE typed[x] = 0
      <3>1. typed[x] \in Nat /\ typed'[x] \in {typed[x], typed[x] + 1}
        BY <1>2, <2>1 DEF TypeOK
      <3> QED BY <1>1, <3>1
    <2> QED BY <1>1, <2>1, <2>2 DEF Undisturbed
  <1>6. ASSUME NEW q \in Nodes PROVE ~ BridgeAccept(q)
    <2> SUFFICES ASSUME BridgeAccept(q) PROVE FALSE
      OBVIOUS
    <2>1. q \in Bridges /\ bridged' = [bridged EXCEPT ![q] = @ + 1]
      BY DEF BridgeAccept
    <2>2. bridged[q] \in Nat /\ bridged'[q] = bridged[q] + 1
      BY <2>1, BoundsAssumption DEF TypeOK
    <2> QED BY <1>1, <2>1, <2>2
  <1>7. ASSUME NEW q \in Nodes PROVE ~ BridgeForward(q)
    <2> SUFFICES ASSUME BridgeForward(q) PROVE FALSE
      OBVIOUS
    <2>1. bridge[q] # <<>> /\ bridged' = bridged
      BY DEF BridgeForward, history
    <2>2. q \in Bridges /\ bridged[q] > 0
      BY <2>1 DEF BridgesCounted
    <2> QED BY <1>1, <2>1, <2>2
  <1>8. ASSUME NEW x \in Nodes, NEW y \in Nodes PROVE ~ Disconnect(x, y)
    <2>1. drops \in Nat
      BY BoundsAssumption DEF TypeOK
    <2> QED BY <1>1, <2>1 DEF Disconnect
  <1>9. CASE \E x, y \in Nodes : Discovered(x, y) \/ Expired(x, y) \/ Redial(x, y)
    <2>1. /\ UNCHANGED <<net, seen, events, runs, awaited, drops, typed, bridged>>
          /\ links \subseteq links'
      BY <1>9 DEF Discovered, Expired, Redial, history
    <2> QED BY <1>3, <2>1
  <1>10. CASE UNCHANGED vars
    <2>1. /\ UNCHANGED <<net, seen, events, runs, awaited, drops, typed, bridged>>
          /\ links \subseteq links'
      BY <1>10 DEF vars, network, history
    <2> QED BY <1>3, <2>1
  <1>11. ASSUME NEW c \in net, Receive(c) PROVE Undisturbed(n)
    BY <1>3, <1>11 DEF Receive, history
  <1>12. ASSUME NEW q \in Nodes, Handle(q) PROVE Undisturbed(n)
    BY <1>3, <1>12 DEF Handle
  <1> QED BY <1>4, <1>5, <1>6, <1>7, <1>8, <1>9, <1>10, <1>11, <1>12
          DEF Next, LoopStep, Input, Discovery, Connection, Arrival

LEMMA NextBridgesCounted == TypeOK /\ BridgesCounted /\ [Next]_vars => BridgesCounted'
  <1> SUFFICES ASSUME TypeOK, BridgesCounted, [Next]_vars PROVE BridgesCounted'
    OBVIOUS
  <1>1. ASSUME NEW n \in Nodes, BridgeAccept(n) PROVE BridgesCounted'
    <2>1. n \in Bridges /\ bridged' = [bridged EXCEPT ![n] = @ + 1]
      BY <1>1 DEF BridgeAccept
    <2>2. \A q \in Nodes : q # n => bridge'[q] = bridge[q]
      BY <1>1 DEF BridgeAccept, TypeOK
    <2>3. \A q \in Nodes : bridged[q] \in Nat
      BY BoundsAssumption DEF TypeOK
    <2>4. \A q \in Nodes : bridged'[q] = IF q = n THEN bridged[q] + 1 ELSE bridged[q]
      BY <2>1 DEF TypeOK
    <2> QED BY <2>1, <2>2, <2>3, <2>4 DEF BridgesCounted
  <1>2. ASSUME NEW n \in Nodes, BridgeForward(n) PROVE BridgesCounted'
    <2>1. bridge[n] # <<>> /\ bridged' = bridged
          /\ \A q \in Nodes : q # n => bridge'[q] = bridge[q]
      BY <1>2 DEF BridgeForward, history, TypeOK
    <2> QED BY <2>1 DEF BridgesCounted
  <1>3. CASE UNCHANGED <<bridge, bridged>>
    BY <1>3 DEF BridgesCounted
  <1> QED BY <1>1, <1>2, <1>3
          DEF Next, LoopStep, Input, Discovery, Connection, Arrival, Orchestrate, Signal,
              Discovered, Expired, Disconnect, Redial, Receive, Handle, vars, history

\* The messages of the different kinds are different.
LEMMA MessagesDiffer ==
  ASSUME NEW t \in Tasks, NEW u \in Tasks, NEW x \in Nodes, NEW y \in Nodes
  PROVE  /\ Task(t) # Result(u, x) /\ Task(t) # Notice /\ Result(t, x) # Notice
         /\ Task(t) = Task(u) => t = u
         /\ Result(t, x) = Result(u, y) => t = u /\ x = y
  BY MessageFacts

\* What a step that handles a message adds, and to whose cache.
LEMMA HandleSends ==
  ASSUME TypeOK, NEW q \in Nodes, Handle(q)
  PROVE  LET m == Head(events[q])
         IN  \/ /\ m.kind # "Task" /\ UNCHANGED <<runs, net, seen>>
             \/ \E u \in Tasks :
                  /\ m = Task(u) /\ Publish(q, {Result(u, q)})
                  /\ {Result(u, q)} \in SUBSET Messages
                  /\ \A y \in Nodes, t \in Tasks :
                       runs'[y][t] = IF y = q /\ t = u THEN runs[y][t] + 1 ELSE runs[y][t]
  <1> DEFINE m == Head(events[q])
  <1>1. m \in Messages /\ (HandleTask(q, m) \/ HandleOther(q, m))
    BY HandleFacts
  <1> HIDE DEF m
  <1>2. CASE HandleOther(q, m)
    BY <1>2 DEF HandleOther, m
  <1>3. CASE HandleTask(q, m)
    <2>1. /\ m.kind = "Task" /\ runs' = [runs EXCEPT ![q][m.task] = @ + 1]
          /\ Publish(q, {Result(m.task, q)})
      BY <1>3 DEF HandleTask
    <2>2. m.task \in Tasks /\ m = Task(m.task)
      BY <1>1, <2>1, MessageFacts
    <2>3. {Result(m.task, q)} \in SUBSET Messages
      BY <2>2, MessageFacts
    <2>4. \A y \in Nodes, t \in Tasks :
            runs'[y][t] = IF y = q /\ t = m.task THEN runs[y][t] + 1 ELSE runs[y][t]
      BY <2>1, <2>2 DEF TypeOK
    <2> QED BY <2>1, <2>2, <2>3, <2>4 DEF m
  <1> QED BY <1>1, <1>2, <1>3

\* A node that publishes has what it published in its cache.
LEMMA PublishKeepsOrigin ==
  ASSUME TypeOK, NEW n \in Nodes, OnlyFrom(n), NEW q \in Nodes, NEW ms \in SUBSET Messages,
         Publish(q, ms),
         \A t \in Tasks : Task(t) \in ms => q = n,
         \A t \in Tasks, x \in Nodes : Result(t, x) \in ms => runs'[x][t] # 0,
         \A t \in Tasks, x \in Nodes : runs'[x][t] = 0 => runs[x][t] = 0
  PROVE  OnlyFrom(n)'
  <1>1. /\ \A c \in net' : c \in net \/ c[4] \in Published(q, ms)
        /\ seen'[q] = seen[q] \cup Published(q, ms)
        /\ \A y \in Nodes : y # q => seen'[y] = seen[y]
    BY PublishSends
  <1>2. Published(q, ms) \subseteq ms
    BY DEF Published
  <1>3. ASSUME NEW t \in Tasks, Task(t) \notin seen'[n]
        PROVE  /\ \A y \in Nodes : Task(t) \notin seen'[y]
               /\ \A c \in net' : c[4] # Task(t)
    <2>1. Task(t) \notin seen[n] /\ Task(t) \notin Published(q, ms)
      BY <1>1, <1>2, <1>3
    <2>2. /\ \A y \in Nodes : Task(t) \notin seen[y]
          /\ \A c \in net : c[4] # Task(t)
      BY <2>1 DEF OnlyFrom
    <2> QED BY <1>1, <2>1, <2>2
  <1>4. ASSUME NEW t \in Tasks, NEW x \in Nodes, runs'[x][t] = 0
        PROVE  /\ \A y \in Nodes : Result(t, x) \notin seen'[y]
               /\ \A c \in net' : c[4] # Result(t, x)
    <2>1. Result(t, x) \notin Published(q, ms) /\ runs[x][t] = 0
      BY <1>2, <1>4
    <2>2. /\ \A y \in Nodes : Result(t, x) \notin seen[y]
          /\ \A c \in net : c[4] # Result(t, x)
      BY <2>1 DEF OnlyFrom
    <2> QED BY <1>1, <2>1, <2>2
  <1> QED BY <1>3, <1>4 DEF OnlyFrom

LEMMA ReceiveSees ==
  ASSUME TypeOK, NEW c \in net, Receive(c)
  PROVE  /\ net \ {c} \subseteq net' /\ runs' = runs /\ awaited' = awaited /\ links' = links
         /\ \A y \in Nodes : /\ seen[y] \subseteq seen'[y]
                             /\ \A m \in seen'[y] : m \in seen[y] \/ (y = c[2] /\ m = c[4])
  <1>1. /\ net \ {c} \subseteq net' /\ runs' = runs /\ awaited' = awaited /\ links' = links
    BY DEF Receive, history
  <1>2. /\ c[2] \in Nodes
        /\ seen' = seen \/ seen' = [seen EXCEPT ![c[2]] = @ \cup {c[4]}]
    BY ReceiveFacts
  <1>3. CASE seen' = seen
    BY <1>1, <1>3
  <1>4. CASE seen' = [seen EXCEPT ![c[2]] = @ \cup {c[4]}]
    <2>1. \A y \in Nodes : seen'[y] = IF y = c[2] THEN seen[y] \cup {c[4]} ELSE seen[y]
      BY <1>2, <1>4 DEF TypeOK
    <2> QED BY <1>1, <2>1
  <1> QED BY <1>2, <1>3, <1>4

LEMMA NextOnlyFrom ==
  ASSUME TypeOK, BridgesCounted, NEW n \in Nodes, OnlyFrom(n), Undisturbed(n)', [Next]_vars
  PROVE  OnlyFrom(n)'
  <1>1. CASE UNCHANGED <<net, seen, runs>>
    BY <1>1 DEF OnlyFrom
  <1>2. CASE n \in Ceos /\ Orchestrate(n)
    <2> DEFINE ms == {Task(t) : t \in Tasks}
    <2>1. Publish(n, ms) /\ runs' = runs
      BY <1>2 DEF Orchestrate
    <2>2. ms \in SUBSET Messages
      BY MessageFacts
    <2>3. \A t \in Tasks, x \in Nodes : Result(t, x) \notin ms
      BY MessagesDiffer
    <2> HIDE DEF ms
    <2> QED BY <2>1, <2>2, <2>3, PublishKeepsOrigin
  <1>3. ASSUME NEW q \in Nodes, Signal(q) PROVE OnlyFrom(n)'
    <2>1. Publish(q, {Notice}) /\ runs' = runs
      BY <1>3 DEF Signal
    <2>2. {Notice} \in SUBSET Messages
      BY MessageFacts
    <2>3. \A t \in Tasks, x \in Nodes : Task(t) \notin {Notice} /\ Result(t, x) \notin {Notice}
      BY MessagesDiffer
    <2>4. \A t \in Tasks : Task(t) # Notice
      BY MessageFacts
    <2> QED BY <2>1, <2>2, <2>3, <2>4, PublishKeepsOrigin
  <1>4. ASSUME NEW c \in net, Receive(c) PROVE OnlyFrom(n)'
    <2>1. /\ \A d \in net' : d \in net \/ d[4] = c[4]
          /\ c[2] \in Nodes
      BY <1>4, ReceiveFacts
    <2>2. runs' = runs
          /\ \A y \in Nodes : /\ seen[y] \subseteq seen'[y]
                             /\ \A m \in seen'[y] : m \in seen[y] \/ (y = c[2] /\ m = c[4])
      BY <1>4, ReceiveSees
    <2>3. ASSUME NEW t \in Tasks, Task(t) \notin seen'[n]
          PROVE  /\ \A y \in Nodes : Task(t) \notin seen'[y]
                 /\ \A d \in net' : d[4] # Task(t)
      <3>1. Task(t) \notin seen[n]
        BY <2>2, <2>3
      <3>2. /\ \A y \in Nodes : Task(t) \notin seen[y]
            /\ \A d \in net : d[4] # Task(t)
        BY <3>1 DEF OnlyFrom
      <3> QED BY <2>1, <2>2, <3>2
    <2>4. ASSUME NEW t \in Tasks, NEW x \in Nodes, runs'[x][t] = 0
          PROVE  /\ \A y \in Nodes : Result(t, x) \notin seen'[y]
                 /\ \A d \in net' : d[4] # Result(t, x)
      <3>1. /\ \A y \in Nodes : Result(t, x) \notin seen[y]
            /\ \A d \in net : d[4] # Result(t, x)
        BY <2>2, <2>4 DEF OnlyFrom
      <3> QED BY <2>1, <2>2, <3>1
    <2> QED BY <2>3, <2>4 DEF OnlyFrom
  <1>5. ASSUME NEW q \in Nodes, Handle(q) PROVE OnlyFrom(n)'
    <2>1. CASE UNCHANGED <<runs, net, seen>>
      BY <1>1, <2>1
    <2>2. ASSUME NEW u \in Tasks, Publish(q, {Result(u, q)}),
                 {Result(u, q)} \in SUBSET Messages,
                 \A y \in Nodes, t \in Tasks :
                   runs'[y][t] = IF y = q /\ t = u THEN runs[y][t] + 1 ELSE runs[y][t]
          PROVE  OnlyFrom(n)'
      <3>1. \A t \in Tasks : Task(t) \notin {Result(u, q)}
        BY MessagesDiffer
      <3>2. \A y \in Nodes, t \in Tasks : runs[y][t] \in Nat
        BY DEF TypeOK
      <3>3. \A t \in Tasks, x \in Nodes : Result(t, x) \in {Result(u, q)} => runs'[x][t] # 0
        BY <2>2, <3>2, MessagesDiffer
      <3>4. \A t \in Tasks, x \in Nodes : runs'[x][t] = 0 => runs[x][t] = 0
        BY <2>2, <3>2
      <3> QED BY <2>2, <3>1, <3>3, <3>4, PublishKeepsOrigin
    <2> QED BY <1>5, <2>1, <2>2, HandleSends
  <1> QED BY <1>1, <1>2, <1>3, <1>4, <1>5, QuietKinds

\* What is on its way stays so when a node publishes something else.
Coming(n, t, q) == Task(t) \notin seen[q] /\ <<n, q, n, Task(t)>> \in net
Returning(n, t, q) == Result(t, q) \notin seen[n] /\ <<q, n, q, Result(t, q)>> \in net

LEMMA PublishKeepsWay ==
  ASSUME TypeOK, NEW p \in Nodes, NEW ms \in SUBSET Messages, Publish(p, ms),
         NEW n \in Nodes, NEW q \in Nodes, NEW t \in Tasks,
         p = q => Task(t) \notin ms,
         p = n => Result(t, q) \notin ms
  PROVE  /\ Coming(n, t, q) => Coming(n, t, q)'
         /\ Returning(n, t, q) => Returning(n, t, q)'
  <1>1. /\ net \subseteq net' /\ seen'[p] = seen[p] \cup Published(p, ms)
        /\ \A x \in Nodes : x # p => seen'[x] = seen[x]
    BY PublishSends
  <1>2. Published(p, ms) \subseteq ms
    BY DEF Published
  <1> QED BY <1>1, <1>2 DEF Coming, Returning

\* A received copy is queued if it is new, and the others stay on their way.
LEMMA ReceiveKeepsServed ==
  ASSUME TypeOK, NEW c \in net, Receive(c), NEW n \in Nodes, NEW q \in Nodes,
         NEW t \in Tasks, Served(n, t, q)
  PROVE  Served(n, t, q)'
  <1>1. /\ net \ {c} \subseteq net'
        /\ \A y \in Nodes : \A m \in seen'[y] : m \in seen[y] \/ (y = c[2] /\ m = c[4])
    BY ReceiveSees
  <1>2. ASSUME NEW y \in Nodes, NEW x \in Nodes, NEW m, m \notin seen[y], <<x, y, x, m>> \in net
        PROVE  (m \notin seen'[y] /\ <<x, y, x, m>> \in net') \/ Queued(y, m)'
    <2>1. CASE y = c[2] /\ m = c[4]
      BY <1>2, <2>1, ReceiveQueues
    <2>2. CASE ~ (y = c[2] /\ m = c[4])
      <3>1. <<x, y, x, m>> # c
        BY <2>2
      <3> QED BY <1>1, <1>2, <2>2, <3>1
    <2> QED BY <2>1, <2>2
  <1>3. Queued(q, Task(t)) => Queued(q, Task(t))'
    BY ReceiveQueues
  <1>4. Queued(n, Result(t, q)) => Queued(n, Result(t, q))'
    BY ReceiveQueues
  <1>5. CASE Task(t) \notin seen[q] /\ <<n, q, n, Task(t)>> \in net
    BY <1>2, <1>5 DEF Served
  <1>6. CASE Result(t, q) \notin seen[n] /\ <<q, n, q, Result(t, q)>> \in net
    BY <1>2, <1>6 DEF Served
  <1> QED BY <1>3, <1>4, <1>5, <1>6 DEF Served

\* The worker answers straight to the node it has the task of; that node
\* takes the answer and waits no longer.
LEMMA HandleKeepsServed ==
  ASSUME OnceInv, NEW x \in Nodes, Handle(x), NEW n \in Nodes, NEW q \in Nodes, OnlyFrom(n),
         q # n, {n, q} \in links, NEW t \in Tasks, Served(n, t, q), t \in awaited'[n]
  PROVE  Served(n, t, q)'
  <1> DEFINE m == Head(events[x])
  <1>1. TypeOK /\ RunLeavesQueue
    BY DEF OnceInv
  <1>2. /\ m \in Messages /\ awaited' = [awaited EXCEPT ![x] = @ \ Resolved(m)]
    BY <1>1, HandleFacts
  <1>3. \/ m.kind # "Task" /\ UNCHANGED <<runs, net, seen>>
        \/ \E u \in Tasks :
             m = Task(u) /\ Publish(x, {Result(u, x)}) /\ {Result(u, x)} \in SUBSET Messages
    BY <1>1, HandleSends
  <1>4. /\ Queued(q, Task(t)) => Queued(q, Task(t))' \/ (q = x /\ Task(t) = m)
        /\ Queued(n, Result(t, q)) => Queued(n, Result(t, q))' \/ (n = x /\ Result(t, q) = m)
    BY <1>1, HandleQueues
  <1> HIDE DEF m
  <1>5. ~ (n = x /\ Result(t, q) = m)
    <2> SUFFICES ASSUME n = x, Result(t, q) = m PROVE FALSE
      OBVIOUS
    <2>1. Resolved(m) = {t}
      BY MessageFacts DEF Resolved
    <2>2. awaited'[n] = awaited[n] \ {t}
      BY <1>1, <1>2, <2>1 DEF TypeOK
    <2> QED BY <2>2
  <1>6. (Coming(n, t, q) => Coming(n, t, q)') /\ (Returning(n, t, q) => Returning(n, t, q)')
    <2>1. CASE UNCHANGED <<net, seen>>
      BY <2>1 DEF Coming, Returning
    <2>2. ASSUME NEW u \in Tasks, Publish(x, {Result(u, x)}),
                 {Result(u, x)} \in SUBSET Messages
          PROVE  (Coming(n, t, q) => Coming(n, t, q)') /\ (Returning(n, t, q) => Returning(n, t, q)')
      <3>1. Task(t) \notin {Result(u, x)}
        BY MessagesDiffer
      <3>2. x = n => Result(t, q) \notin {Result(u, x)}
        BY MessagesDiffer
      <3> QED BY <1>1, <2>2, <3>1, <3>2, PublishKeepsWay
    <2> QED BY <1>3, <2>1, <2>2
  <1>7. CASE q = x /\ Task(t) = m /\ Queued(q, Task(t))
    <2>1. m.kind = "Task"
      BY <1>7, MessageFacts
    <2>2. Publish(q, {Result(t, q)}) /\ {Result(t, q)} \in SUBSET Messages
      <3>1. PICK u \in Tasks :
              m = Task(u) /\ Publish(x, {Result(u, x)}) /\ {Result(u, x)} \in SUBSET Messages
        BY <1>3, <2>1
      <3>2. u = t
        BY <1>7, <3>1, MessagesDiffer
      <3> QED BY <1>7, <3>1, <3>2
    <2>3. runs[q][t] = 0
      <3>1. runs[q][t] \in Nat
        BY <1>1 DEF TypeOK
      <3>2. ~ (runs[q][t] > 0)
        BY <1>1, <1>7 DEF RunLeavesQueue, Queued
      <3> QED BY <3>1, <3>2
    <2>4. Result(t, q) \notin seen[q] /\ Result(t, q) \notin seen[n]
      BY <2>3 DEF OnlyFrom
    <2>5. n \in Peers(q)
      <3>1. {q, n} = {n, q}
        OBVIOUS
      <3> QED BY <3>1, LinkedPeers
    <2>6. Result(t, q) \in Published(q, {Result(t, q)})
      BY <2>4, <2>5 DEF Published, MessageId
    <2>7. <<q, n, q, Result(t, q)>> \in net' /\ seen'[n] = seen[n]
      BY <1>1, <2>2, <2>5, <2>6, PublishSends
    <2> QED BY <2>4, <2>7 DEF Served
  <1> QED BY <1>4, <1>5, <1>6, <1>7 DEF Served, Coming, Returning

LEMMA NextServed ==
  ASSUME OnceInv, BridgesCounted, NEW n \in Nodes, OnlyFrom(n), Undisturbed(n)', [Next]_vars,
         NEW q \in Nodes, q # n, {n, q} \in links, NEW t \in Tasks, Served(n, t, q),
         t \in awaited'[n]
  PROVE  {n, q} \in links' /\ Served(n, t, q)'
  <1>1. TypeOK
    BY DEF OnceInv
  <1>2. CASE UNCHANGED <<net, seen, events>> /\ links \subseteq links'
    BY <1>2 DEF Served, Queued
  <1>3. ASSUME NEW p \in Nodes, NEW ms \in SUBSET Messages, Publish(p, ms),
               p = q => Task(t) \notin ms, Result(t, q) \notin ms,
               UNCHANGED <<events, links>>
        PROVE  {n, q} \in links' /\ Served(n, t, q)'
    <2>1. /\ Coming(n, t, q) => Coming(n, t, q)'
          /\ Returning(n, t, q) => Returning(n, t, q)'
      BY <1>1, <1>3, PublishKeepsWay
    <2>2. /\ Queued(q, Task(t)) => Queued(q, Task(t))'
          /\ Queued(n, Result(t, q)) => Queued(n, Result(t, q))'
      BY <1>3 DEF Queued
    <2> QED BY <1>3, <2>1, <2>2 DEF Served, Coming, Returning
  <1>4. CASE n \in Ceos /\ Orchestrate(n)
    <2> DEFINE ms == {Task(u) : u \in Tasks}
    <2>1. Publish(n, ms) /\ UNCHANGED <<events, links>>
      BY <1>4 DEF Orchestrate
    <2>2. ms \in SUBSET Messages
      BY MessageFacts
    <2>3. Result(t, q) \notin ms
      BY MessagesDiffer
    <2> HIDE DEF ms
    <2> QED BY <1>3, <2>1, <2>2, <2>3
  <1>5. ASSUME NEW p \in Nodes, Signal(p) PROVE {n, q} \in links' /\ Served(n, t, q)'
    <2>1. Publish(p, {Notice}) /\ UNCHANGED <<events, links>>
      BY <1>5 DEF Signal
    <2>2. {Notice} \in SUBSET Messages
      BY MessageFacts
    <2>3. Task(t) \notin {Notice} /\ Result(t, q) \notin {Notice}
      BY MessagesDiffer
    <2> QED BY <1>3, <2>1, <2>2, <2>3
  <1>6. ASSUME NEW c \in net, Receive(c) PROVE {n, q} \in links' /\ Served(n, t, q)'
    BY <1>1, <1>6, ReceiveSees, ReceiveKeepsServed
  <1>7. ASSUME NEW x \in Nodes, Handle(x) PROVE {n, q} \in links' /\ Served(n, t, q)'
    <2>1. links' = links
      BY <1>7 DEF Handle
    <2> QED BY <1>7, <2>1, HandleKeepsServed
  <1> QED BY <1>1, <1>2, <1>4, <1>5, <1>6, <1>7, QuietKinds

\* A new dispatch: the id is in no cache, so every peer gets the task.
LEMMA DispatchServed ==
  ASSUME TypeOK, NEW n \in Nodes, OnlyFrom(n), Orchestrate(n),
         NEW t \in Tasks, t \in awaited'[n], t \notin awaited[n]
  PROVE  SomeoneServes(n, t)'
  <1> DEFINE ms == {Task(u) : u \in Tasks}
             sent == Published(n, ms)
  <1>1. /\ Publish(n, ms) /\ links' = links
        /\ awaited' = [awaited EXCEPT ![n] = @ \cup {m.task : m \in sent}]
    BY DEF Orchestrate
  <1>2. ms \in SUBSET Messages
    BY MessageFacts
  <1>3. \E m \in sent : t = m.task
    <2> HIDE DEF sent
    <2>1. awaited'[n] = awaited[n] \cup {m.task : m \in sent}
      BY <1>1 DEF TypeOK
    <2> QED BY <2>1
  <1>4. Task(t) \in sent
    <2>1. PICK m \in sent : t = m.task
      BY <1>3
    <2>2. PICK u \in Tasks : m = Task(u)
      BY <2>1 DEF Published
    <2>3. u = t
      BY <2>1, <2>2, MessageFacts
    <2> QED BY <2>1, <2>2, <2>3
  <1>5. Peers(n) # {} /\ Task(t) \notin seen[n]
    BY <1>4 DEF Published, MessageId
  <1>6. PICK q \in Peers(n) : TRUE
    BY <1>5
  <1>7. q \in Nodes
    BY DEF Peers
  <1>8. q # n /\ {n, q} \in links
    BY <1>7, LinkedPeers
  <1>9. Task(t) \notin seen[q]
    BY <1>5, <1>7 DEF OnlyFrom
  <1> HIDE DEF ms
  <1>10. <<n, q, n, Task(t)>> \in net' /\ seen'[q] = seen[q]
    BY <1>1, <1>2, <1>4, <1>7, <1>8, PublishSends
  <1>11. Served(n, t, q)' /\ q \in Nodes \ {n} /\ {n, q} \in links'
    BY <1>1, <1>7, <1>8, <1>9, <1>10 DEF Served
  <1> QED BY <1>11 DEF SomeoneServes

\* Nothing but a directive makes a node wait for one more task.
LEMMA WaitsByDirective ==
  ASSUME TypeOK, BridgesCounted, NEW n \in Nodes, Undisturbed(n)', [Next]_vars,
         NEW t, t \in awaited'[n], t \notin awaited[n]
  PROVE  Orchestrate(n)
  <1>1. ASSUME NEW q \in Nodes, Signal(q) PROVE FALSE
    BY <1>1 DEF Signal
  <1>2. ASSUME NEW c \in net, Receive(c) PROVE FALSE
    BY <1>2, ReceiveSees
  <1>3. ASSUME NEW q \in Nodes, Handle(q) PROVE FALSE
    <2> DEFINE gone == Resolved(Head(events[q]))
    <2>1. awaited' = [awaited EXCEPT ![q] = @ \ gone]
      BY <1>3, HandleFacts
    <2> HIDE DEF gone
    <2> QED BY <2>1 DEF TypeOK
  <1> QED BY <1>1, <1>2, <1>3, QuietKinds

LEMMA NextQuiet == OnceInv /\ BridgesCounted /\ QuietInv /\ [Next]_vars => QuietInv'
  <1> SUFFICES ASSUME OnceInv, BridgesCounted, QuietInv, [Next]_vars,
                      NEW n \in Nodes, Undisturbed(n)'
               PROVE  OnlyFrom(n)' /\ \A t \in awaited'[n] : SomeoneServes(n, t)'
    BY DEF QuietInv
  <1>1. TypeOK /\ TypeOK'
    BY NextTypeOK DEF OnceInv
  <1>2. Undisturbed(n)
    BY <1>1, QuietKinds
  <1>3. OnlyFrom(n) /\ \A t \in awaited[n] : SomeoneServes(n, t)
    BY <1>2 DEF QuietInv
  <1>4. ASSUME NEW t \in awaited'[n] PROVE SomeoneServes(n, t)'
    <2>1. t \in Tasks
      BY <1>1 DEF TypeOK
    <2>2. CASE t \in awaited[n]
      <3>1. PICK q \in Nodes \ {n} : {n, q} \in links /\ Served(n, t, q)
        BY <1>3, <2>2 DEF SomeoneServes
      <3>2. {n, q} \in links' /\ Served(n, t, q)'
        BY <1>3, <2>1, <3>1, NextServed
      <3> QED BY <3>2 DEF SomeoneServes
    <2>3. CASE t \notin awaited[n]
      BY <1>1, <1>3, <2>1, <2>3, WaitsByDirective, DispatchServed
    <2> QED BY <2>2, <2>3
  <1>5. OnlyFrom(n)'
    BY <1>1, <1>3, NextOnlyFrom
  <1> QED BY <1>4, <1>5

\* In any topology, while no connection has ended and nobody else has
\* dispatched anything, no published task vanishes: one that stays in the
\* ledger without a trace in the mesh was never published.
THEOREM PublishedNeverVanishes == Spec => []OnlyUnpublishedStay
  <1>1. Init => BridgesCounted /\ QuietInv
    BY DEF Init, BridgesCounted, QuietInv, OnlyFrom
  <1>2. TypeOK /\ BridgesCounted /\ [Next]_vars => BridgesCounted'
    BY NextBridgesCounted
  <1>3. OnceInv /\ BridgesCounted /\ QuietInv /\ [Next]_vars => QuietInv'
    BY NextQuiet
  <1>4. ASSUME NEW n \in Nodes, NEW t \in Tasks, NEW q \in Nodes, Served(n, t, q)
        PROVE  InFlight(t)
    <2>1. /\ Task(t).kind # "Notice" /\ Task(t).task = t
          /\ Result(t, q).kind # "Notice" /\ Result(t, q).task = t
      BY MessageFacts
    <2>2. ASSUME NEW x, NEW y, NEW m, <<x, y, x, m>> \in net, m.kind # "Notice", m.task = t
          PROVE  InFlight(t)
      BY <2>2 DEF InFlight
    <2>3. ASSUME NEW x \in Nodes, NEW m, Queued(x, m), m.kind # "Notice", m.task = t
          PROVE  InFlight(t)
      BY <2>3 DEF InFlight, Queued
    <2> QED BY <1>4, <2>1, <2>2, <2>3 DEF Served
  <1>5. TypeOK /\ QuietInv => OnlyUnpublishedStay
    <2> SUFFICES ASSUME TypeOK, QuietInv, NEW n \in Ceos, NEW t \in ledger[n],
                        Undisturbed(n), t \in awaited[n]
                 PROVE  InFlight(t)
      BY DEF OnlyUnpublishedStay
    <2>1. n \in Nodes /\ t \in Tasks
      BY RolesAssumption DEF TypeOK
    <2>2. PICK q \in Nodes \ {n} : Served(n, t, q)
      BY <2>1 DEF QuietInv, SomeoneServes
    <2> QED BY <1>4, <2>1, <2>2
  <1> QED BY <1>1, <1>2, <1>3, <1>5, TypeCorrect, OnceInvariant, PTL DEF Spec
=============================================================================
