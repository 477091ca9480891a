-------------------------- MODULE GenerationService --------------------------
(***************************************************************************)
(* What the inference engine promises about one request, whatever the      *)
(* scheduler does with pages, batches and preemption                       *)
(* (src/src/scheduler/batching.rs, src/src/engine/mod.rs): it is submitted *)
(* once with a quota, produces tokens only while running, may be suspended *)
(* and resumed but never loses or repeats a token, and is completed        *)
(* exactly when its quota is used up.  Scheduler.tla implements it for     *)
(* requests with distinct seq_ids.                                         *)
(*                                                                         *)
(* The quota of a request with max_new_tokens = 0 is one token: the engine *)
(* looks at the quota only after a step.                                   *)
(***************************************************************************)
EXTENDS Naturals

CONSTANTS Requests,
          Quotas      \* the values of max_new_tokens that are submitted

VARIABLES status,     \* New, Waiting, Running or Finished
          maxNew,     \* max_new_tokens of a submitted request
          generated   \* tokens produced so far

vars == <<status, maxNew, generated>>

Init == /\ status = [r \in Requests |-> "New"]
        /\ maxNew = [r \in Requests |-> 0]
        /\ generated = [r \in Requests |-> 0]

Move(r, from, to) ==
  /\ status[r] = from
  /\ status' = [status EXCEPT ![r] = to]

Submit(r) == /\ Move(r, "New", "Waiting")
             /\ \E m \in Quotas : maxNew' = [maxNew EXCEPT ![r] = m]
             /\ UNCHANGED generated

Start(r) == /\ Move(r, "Waiting", "Running")
            /\ UNCHANGED <<maxNew, generated>>

Emit(r) == /\ status[r] = "Running"
           /\ generated[r] = 0 \/ generated[r] < maxNew[r]
           /\ generated' = [generated EXCEPT ![r] = @ + 1]
           /\ UNCHANGED <<status, maxNew>>

Suspend(r) == /\ generated[r] < maxNew[r]
              /\ Move(r, "Running", "Waiting")
              /\ UNCHANGED <<maxNew, generated>>

Complete(r) == /\ generated[r] >= maxNew[r] /\ generated[r] > 0
               /\ Move(r, "Running", "Finished")
               /\ UNCHANGED <<maxNew, generated>>

Next == \E r \in Requests :
          Submit(r) \/ Start(r) \/ Emit(r) \/ Suspend(r) \/ Complete(r)

Spec == Init /\ [][Next]_vars
=============================================================================
