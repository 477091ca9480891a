--------------------------------- MODULE Mesh ---------------------------------
(***************************************************************************)
(* The swarm of mesh nodes (src/mesh/src/main.rs).  Every node runs one    *)
(* select! loop over its terminal, its bridge channel and its network      *)
(* events; an arm of the loop runs to its end before the next one starts,  *)
(* so each arm is one action.                                              *)
(*                                                                         *)
(* The gossipsub and mDNS behaviours of libp2p are external.  They are     *)
(* modelled from how the node uses them: publish fails if no peer is       *)
(* connected or if the message id is in the duplicate cache; a received    *)
(* message whose id is new is forwarded to the other peers and queued for  *)
(* the loop; copies overtake each other, and are lost when their           *)
(* connection ends.  Ids stay in the cache (libp2p keeps them a minute).   *)
(*                                                                         *)
(* Of the SwarmMessage variants only OrchestratedTask and TaskResult do    *)
(* more than print; all others are one "Notice".  check_timeouts is not    *)
(* here, because nothing calls it.                                         *)
(***************************************************************************)
EXTENDS Naturals, Sequences, FiniteSets

CONSTANTS Nodes,
          Ceos,           \* the nodes whose users type "orchestrate"
          Signallers,     \* the nodes whose users type "signal"
          Discoverable,   \* the pairs <<n, q>> such that mDNS can show q to n
          Tasks,          \* the task_ids of fragment_directive (T-01, T-02, T-03)
          Bridges,        \* the nodes that could bind the port of the TCP bridge
          BridgeMessages, \* what its clients send
          MaxTyped,       \* bound, per node: commands typed at its terminal
          MaxBridged,     \* bound: messages that arrive at one bridge
          MaxDrops        \* bound: connections that end

\* fragment_directive gives each task_id one payload, so the id stands for the
\* message.  One of the same id with another payload, which a client of a bridge
\* could write, has another hash: it is another message and would be run too.
Task(t) == [kind |-> "Task", task |-> t]
Result(t, n) == [kind |-> "Result", task |-> t, worker |-> n]
Notice == [kind |-> "Notice"]

Messages == {Task(t) : t \in Tasks} \cup {Result(t, n) : t \in Tasks, n \in Nodes}
              \cup {Notice}

ASSUME RolesAssumption == Ceos \cup Signallers \cup Bridges \subseteq Nodes
ASSUME DiscoverableAssumption == Discoverable \subseteq Nodes \X Nodes
ASSUME BridgeAssumption == BridgeMessages \subseteq Messages
ASSUME BoundsAssumption ==
  MaxTyped \in [Nodes -> Nat] /\ MaxBridged \in Nat /\ MaxDrops \in Nat

VARIABLES
  explicit,    \* per node: its explicit peers
  links,       \* the connections that are up, as sets of two nodes
  seen,        \* per node: the ids in its duplicate cache
  net,         \* copies on the way: <<from, to, author, message>>
  events,      \* per node: messages queued for its select! loop
  bridge,      \* per node: the channel from the TCP bridge
  ledger,      \* per node: the keys of orchestrator.active_tasks
  typed,       \* per node: how many commands its terminal has read
  bridged,     \* per node: how many messages its bridge has accepted
  drops,       \* how many connections have ended
  runs,        \* history, per node: how often it has run each task
  awaited      \* history, per node: tasks it dispatched and has no result for

network == <<explicit, links, net>>
history == <<typed, bridged, drops, runs>>
vars == <<network, seen, events, bridge, ledger, history, awaited>>

Init ==
  /\ explicit = [n \in Nodes |-> {}]
  /\ links = {}
  /\ seen = [n \in Nodes |-> {}]
  /\ net = {}
  /\ events = [n \in Nodes |-> <<>>]
  /\ bridge = [n \in Nodes |-> <<>>]
  /\ ledger = [n \in Nodes |-> {}]
  /\ typed = [n \in Nodes |-> 0]
  /\ bridged = [n \in Nodes |-> 0]
  /\ drops = 0
  /\ runs = [n \in Nodes |-> [t \in Tasks |-> 0]]
  /\ awaited = [n \in Nodes |-> {}]

-----------------------------------------------------------------------------
\* message_id_fn: a hash of the data alone, the author plays no part.
MessageId_Authored(m, author) == <<m, author>>    \* fault: one id per author
MessageId_OfTask(m, author) ==                    \* fault: only the task is hashed
  IF m.kind = "Notice" THEN m ELSE m.task
MessageId(m, author) == m

Peers(n) == {q \in Nodes : {n, q} \in links /\ q # n}

\* gossipsub.publish by n: the messages of ms it accepts, the rest fails.
Published(n, ms) ==
  {m \in ms : Peers(n) # {} /\ MessageId(m, n) \notin seen[n]}
Copies(n, peers, author, ms) == {<<n, q, author, m>> : q \in peers, m \in ms}

Publish(n, ms) ==
  LET sent == Published(n, ms)
  IN  /\ net' = net \cup Copies(n, Peers(n), n, sent)
      /\ seen' = [seen EXCEPT ![n] = @ \cup {MessageId(m, n) : m \in sent}]

-----------------------------------------------------------------------------
\* fragment_directive: active_tasks is keyed by task_id.
LedgerKey_Message(t) == Task(t)       \* fault: keyed by the message
LedgerKey(t) == t

\* The terminal: "orchestrate" puts every sub-task in the ledger and then
\* publishes them one after the other, whether or not that succeeds.
Orchestrate(n) ==
  /\ n \in Ceos
  /\ typed[n] < MaxTyped[n]
  /\ typed' = [typed EXCEPT ![n] = @ + 1]
  /\ ledger' = [ledger EXCEPT ![n] = @ \cup {LedgerKey(t) : t \in Tasks}]
  /\ Publish(n, {Task(t) : t \in Tasks})
  /\ awaited' = [awaited EXCEPT ![n] =
                   @ \cup {m.task : m \in Published(n, {Task(t) : t \in Tasks})}]
  /\ UNCHANGED <<explicit, links, events, bridge, bridged, drops, runs>>

\* The terminal: "signal".
Signal(n) ==
  /\ n \in Signallers
  /\ typed[n] < MaxTyped[n]
  /\ typed' = [typed EXCEPT ![n] = @ + 1]
  /\ Publish(n, {Notice})
  /\ UNCHANGED <<explicit, links, events, bridge, ledger, bridged, drops, runs, awaited>>

\* A connection to the bridge sends one message over the channel, and the
\* loop publishes it later.
BridgeAccept(n) ==
  /\ n \in Bridges
  /\ bridged[n] < MaxBridged
  /\ bridged' = [bridged EXCEPT ![n] = @ + 1]
  /\ \E m \in BridgeMessages : bridge' = [bridge EXCEPT ![n] = Append(@, m)]
  /\ UNCHANGED <<network, seen, events, ledger, typed, drops, runs, awaited>>

BridgeForward(n) ==
  /\ bridge[n] # <<>>
  /\ Publish(n, {Head(bridge[n])})
  /\ bridge' = [bridge EXCEPT ![n] = Tail(@)]
  /\ UNCHANGED <<explicit, links, events, ledger, history, awaited>>

-----------------------------------------------------------------------------
\* mDNS events: a discovered peer becomes an explicit peer, to which
\* gossipsub connects; an expired one stops being explicit, but stays
\* connected until the connection ends.
Discovered(n, q) ==
  /\ n # q
  /\ <<n, q>> \in Discoverable
  /\ q \notin explicit[n]
  /\ explicit' = [explicit EXCEPT ![n] = @ \cup {q}]
  /\ links' = links \cup {{n, q}}
  /\ UNCHANGED <<seen, net, events, bridge, ledger, history, awaited>>

Expired(n, q) ==
  /\ q \in explicit[n]
  /\ explicit' = [explicit EXCEPT ![n] = @ \ {q}]
  /\ UNCHANGED <<links, seen, net, events, bridge, ledger, history, awaited>>

\* External: a connection ends, and what was on its way over it is lost.
Disconnect(n, q) ==
  /\ {n, q} \in links
  /\ drops < MaxDrops
  /\ drops' = drops + 1
  /\ links' = links \ {{n, q}}
  /\ net' = {c \in net : {c[1], c[2]} # {n, q}}
  /\ UNCHANGED <<explicit, seen, events, bridge, ledger, typed, bridged, runs, awaited>>

\* External: gossipsub dials its explicit peers again.
Redial(n, q) ==
  /\ q \in explicit[n]
  /\ {n, q} \notin links
  /\ links' = links \cup {{n, q}}
  /\ UNCHANGED <<explicit, seen, net, events, bridge, ledger, history, awaited>>

\* External: gossipsub receives a copy.
Receive(c) ==
  LET n == c[2]
      id == MessageId(c[4], c[3])
  IN  /\ c \in net
      /\ IF id \in seen[n]
           THEN net' = net \ {c} /\ UNCHANGED <<seen, events>>
           ELSE /\ net' = (net \ {c}) \cup
                            Copies(n, Peers(n) \ {c[1], c[3]}, c[3], {c[4]})
                /\ seen' = [seen EXCEPT ![n] = @ \cup {id}]
                /\ events' = [events EXCEPT ![n] = Append(@, c[4])]
      /\ UNCHANGED <<explicit, links, bridge, ledger, history, awaited>>

-----------------------------------------------------------------------------
\* The next message event of the loop.  A task is run at once and its result
\* published; a result takes the task out of the ledger.
Resolved_Mentioned(m) ==              \* fault: a task message resolves it too
  IF m.kind = "Notice" THEN {} ELSE {m.task}
Resolved(m) == IF m.kind = "Result" THEN {m.task} ELSE {}

HandleTask(n, m) ==
  /\ m.kind = "Task"
  /\ runs' = [runs EXCEPT ![n][m.task] = @ + 1]
  /\ Publish(n, {Result(m.task, n)})

HandleOther(n, m) ==
  /\ m.kind # "Task"
  /\ UNCHANGED <<runs, net, seen>>

Handle(n) ==
  /\ events[n] # <<>>
  /\ LET m == Head(events[n])
     IN  /\ HandleTask(n, m) \/ HandleOther(n, m)
         /\ ledger' = [ledger EXCEPT ![n] = @ \ Resolved(m)]
         /\ awaited' = [awaited EXCEPT ![n] = @ \ Resolved(m)]
  /\ events' = [events EXCEPT ![n] = Tail(@)]
  /\ UNCHANGED <<explicit, links, bridge, typed, bridged, drops>>

-----------------------------------------------------------------------------
LoopStep(n) == Handle(n) \/ BridgeForward(n)
Input(n) == Orchestrate(n) \/ Signal(n) \/ BridgeAccept(n)

Discovery == \E n, q \in Nodes : Discovered(n, q) \/ Expired(n, q)
Connection == \E n, q \in Nodes : Disconnect(n, q) \/ Redial(n, q)
Arrival == \E c \in net : Receive(c)

Next == (\E n \in Nodes : LoopStep(n) \/ Input(n)) \/ Discovery \/ Connection \/ Arrival

Spec == Init /\ [][Next]_vars

\* select! gives every ready arm its turn, and what is on its way arrives or
\* is lost with its connection.
FairSpec ==
  /\ Spec
  /\ \A n \in Nodes : WF_vars(Handle(n))
  /\ \A n \in Bridges : WF_vars(BridgeForward(n))
  /\ WF_vars(Arrival)

-----------------------------------------------------------------------------
TypeOK ==
  /\ explicit \in [Nodes -> SUBSET Nodes]
  /\ \A n \in Nodes : n \notin explicit[n]
  /\ \A l \in links : l \subseteq Nodes /\ Cardinality(l) = 2
  /\ DOMAIN seen = Nodes
  /\ net \subseteq Nodes \X Nodes \X Nodes \X Messages
  /\ events \in [Nodes -> Seq(Messages)]
  /\ bridge \in [Nodes -> Seq(BridgeMessages)]
  /\ ledger \in [Nodes -> SUBSET Tasks]
  /\ typed \in [Nodes -> Nat]
  /\ \A n \in Nodes : typed[n] <= MaxTyped[n]
  /\ bridged \in [Nodes -> 0 .. MaxBridged]
  /\ drops \in 0 .. MaxDrops
  /\ runs \in [Nodes -> [Tasks -> Nat]]
  /\ awaited \in [Nodes -> SUBSET Tasks]

\* While ids stay in the cache, a node runs a task at most once, although
\* copies reach it over several paths, after reconnections, from several nodes
\* and bridges that dispatch the same sub-tasks, and by repeated directives.
RunsOnce == \A n \in Nodes, t \in Tasks : runs[n][t] <= 1

\* A task leaves the ledger of a node only after another node has run it (as
\* long as the bridge injects no results).
ResolvedWasRun ==
  [][\A n \in Nodes : \A t \in ledger[n] \ ledger'[n] :
       \E q \in Nodes \ {n} : runs[q][t] > 0]_vars

\* A message that is about the task is on its way or queued.
InFlight(t) ==
  \/ \E c \in net : c[4].kind # "Notice" /\ c[4].task = t
  \/ \E n \in Nodes : \E k \in 1 .. Len(events[n]) :
       events[n][k].kind # "Notice" /\ events[n][k].task = t

\* No connection has ended, and nobody but n has dispatched anything.
Undisturbed(n) ==
  /\ drops = 0
  /\ \A q \in Ceos \ {n} : typed[q] = 0
  /\ \A q \in Bridges : bridged[q] = 0

\* Undisturbed, every task that was published comes back: publishing,
\* forwarding, running and answering lose nothing, whatever joins the mesh
\* meanwhile.
DispatchedReturns ==
  \A n \in Ceos, t \in Tasks :
    t \in awaited[n] ~> t \notin awaited[n] \/ ~ Undisturbed(n)

\* Undisturbed, a task that stays in the ledger without a trace in the mesh is
\* one whose publication failed, for want of peers or because a directive was
\* repeated while its ids were in the cache: no published task vanishes, and
\* no late answer to an earlier directive hides one.
OnlyUnpublishedStay ==
  \A n \in Ceos : \A t \in ledger[n] :
    Undisturbed(n) /\ ~ InFlight(t) => t \notin awaited[n]

\* "Scan for dead nodes and return tasks that need to be aggressively
\* reassigned" (main.rs:96): a task that was dispatched and whose last trace
\* is gone is resolved or dispatched again.
LostTaskRetried ==
  \A n \in Ceos, t \in Tasks :
    t \in ledger[n] \cap awaited[n] /\ ~ InFlight(t)
      ~> t \notin ledger[n] \/ InFlight(t)
=============================================================================
