------------------------------- MODULE Serving -------------------------------
(***************************************************************************)
(* The engine and who drives it.  Two clients call AegisEngine:            *)
(*                                                                         *)
(*  - the driver of src/src/bin/run_model.rs submits one request and calls *)
(*    step_forward in a loop, printing what it returns, until an EOS       *)
(*    token, its turn limit, or no sequence running;                       *)
(*  - a host program calls the C interface of src/src/ffi.rs: it adds      *)
(*    sequences when it likes and steps the engine until it frees it.      *)
(*                                                                         *)
(* Both see a call of step_forward as a whole: the steps of Scheduler.tla  *)
(* in between are the engine's.  The host keeps to the interface: it uses  *)
(* no handle after aegis_free.  The arrays and texts it is given are its   *)
(* own to free, once, which no state of the engine depends on; they are    *)
(* left out, as are the texts of tokens: of a token counts only whether it *)
(* is EOS.  Failures of aegis_init and of the tokenizer change nothing and *)
(* are left out.                                                           *)
(***************************************************************************)
EXTENDS Scheduler, FiniteSets

CONSTANTS DriverLimit,  \* max_new_tokens and turn limit of run_model (128)
          HostSizes     \* what a host submits: prompt lengths and quotas

ASSUME DriverAssumption == DriverLimit \in Nat \ {0}
ASSUME HostAssumption == HostSizes \subseteq Sizes

VARIABLES
  client,   \* "run_model" or "host"
  pc,       \* of the client: "start", "ready", "called", "stopped"
  before,   \* delivered as it was when step_forward was called
  turns,    \* generated, the loop counter of run_model
  printed,  \* how many tokens run_model has printed
  eos       \* whether run_model has met an EOS token

driver == <<turns, printed, eos>>
svars == <<vars, client, pc, before, driver>>

ServingInit ==
  /\ Init
  /\ client \in {"run_model", "host"}
  /\ pc = "start"
  /\ before = delivered
  /\ turns = 0 /\ printed = 0 /\ eos = FALSE

-----------------------------------------------------------------------------
\* Both clients call step_forward; the engine goes through its phases.
Call ==
  /\ pc = "ready"
  /\ client = "run_model" => turns < DriverLimit
  /\ CallStep
  /\ pc' = "called"
  /\ before' = delivered
  /\ UNCHANGED <<client, driver>>

Engine ==
  /\ PromoteStep \/ NothingRunning \/ StepBatch \/ ApplyOutput \/ FilterOutputs \/ CleanupStep
  /\ UNCHANGED <<client, pc, before, driver>>

\* The call has returned: these requests have an output in its result.
Returning == pc = "called" /\ phase = "idle"
Outputs == {r \in Requests : delivered[r] # before[r]}

-----------------------------------------------------------------------------
\* run_model
DriverSubmit ==
  /\ client = "run_model" /\ pc = "start"
  /\ \E r \in Requests : AddRequest(r) /\ maxNew'[r] = DriverLimit
  /\ pc' = "ready"
  /\ UNCHANGED <<client, before, driver>>

\* Nothing is running any more: break, before the outputs are printed.
NothingLeft == active = <<>>

DriverBreaks ==
  /\ client = "run_model" /\ Returning
  /\ NothingLeft
  /\ pc' = "stopped"
  /\ UNCHANGED <<vars, client, before, driver>>

\* Print the outputs and count the turn; EOS sets the counter to the limit and
\* is not printed.
CountAtEos_Reset == 0               \* fault: the counter is not set to the limit
CountAtEos == DriverLimit

DriverPrints ==
  /\ client = "run_model" /\ Returning
  /\ ~ NothingLeft
  /\ \/ /\ turns' = turns + 1
        /\ printed' = printed + Cardinality(Outputs)
        /\ UNCHANGED eos
     \/ /\ Outputs # {}
        /\ turns' = CountAtEos + 1
        /\ eos' = TRUE
        /\ UNCHANGED printed
  /\ pc' = "ready"
  /\ UNCHANGED <<vars, client, before>>

DriverEnds ==
  /\ client = "run_model" /\ pc = "ready"
  /\ turns >= DriverLimit
  /\ pc' = "stopped"
  /\ UNCHANGED <<vars, client, before, driver>>

-----------------------------------------------------------------------------
\* aegis_init, aegis_add_sequence
HostInit ==
  /\ client = "host" /\ pc = "start"
  /\ pc' = "ready"
  /\ UNCHANGED <<vars, client, before, driver>>

HostAdd(r) ==
  /\ client = "host" /\ pc = "ready"
  /\ AddRequest(r)
  /\ <<promptLen'[r], maxNew'[r]>> \in HostSizes
  /\ UNCHANGED <<client, pc, before, driver>>

\* aegis_step_forward hands out the results of the call.
HostReceives ==
  /\ client = "host" /\ Returning
  /\ pc' = "ready"
  /\ UNCHANGED <<vars, client, before, driver>>

\* aegis_free drops the engine, with whatever still waits or runs in it.  The
\* slab of its pool is not given back: PagePool has no Drop.
HostFreesEngine ==
  /\ client = "host" /\ pc = "ready"
  /\ pc' = "stopped"
  /\ UNCHANGED <<vars, client, before, driver>>

-----------------------------------------------------------------------------
DriverStep == DriverSubmit \/ DriverBreaks \/ DriverPrints \/ DriverEnds
HostStep == HostInit \/ HostReceives
Serve == Call \/ Engine \/ DriverStep \/ HostStep

Stopped == pc = "stopped" /\ UNCHANGED svars

ServingNext ==
  Serve \/ HostFreesEngine \/ Stopped \/ \E r \in Requests : HostAdd(r)

ServingSpec == ServingInit /\ [][ServingNext]_svars

\* The driver is a sequential program.  A host keeps stepping its engine until
\* it frees it; nothing makes it add a sequence or free the engine.
FairServing == ServingSpec /\ WF_svars(Serve)

-----------------------------------------------------------------------------
\* All that a host learns from a call is the outputs it returns.  One without
\* any is the end of the work: nothing runs, and nothing waits that the pool
\* could ever serve.  While a sequence runs every call has an output for it,
\* although step_forward filters the outputs of a prefill, and although the
\* cleanup may take every sequence out before the call returns.
EmptyBatchMeansDone ==
  Returning /\ Outputs = {} =>
    /\ active = <<>>
    /\ waiting = <<>> \/ Oversized(Head(waiting))

\* How run_model ends: after an EOS, having printed all before it, or when its
\* request is finished or can never be, having lost the outputs of the last
\* call, one token at most.  The turn limit alone never ends it.
DriverStopsRight ==
  client = "run_model" /\ pc = "stopped" =>
    \E r \in Requests :
      /\ status[r] # "New"
      /\ IF eos THEN printed = delivered[r] - 1
         ELSE /\ status[r] = "Finished" \/ Oversized(r)
              /\ printed + Cardinality(Outputs) = delivered[r]

\* Every accepted request is finished in the end, unless an oversized one
\* wedges the queue or the client stops: preemption to the front of the queue
\* starves nobody.
AcceptedFinishes ==
  \A r \in Requests :
    status[r] = "Waiting" ~>
      \/ status[r] = "Finished" \/ pc = "stopped"
      \/ Wedged /\ Oversized(Head(waiting))
=============================================================================
