---------------------------- MODULE PagePoolCalls ----------------------------
(***************************************************************************)
(* What a None answer of alloc_page (src/src/kv_cache/page_pool.rs) tells  *)
(* its caller.  The scan looks at one word at a time, so the answer speaks *)
(* of several instants of the call.  Two history variables record, for the *)
(* current or last call of each thread, what was true at its instants; no  *)
(* step of PagePool.tla reads them.                                        *)
(***************************************************************************)
EXTENDS PagePool

VARIABLES taken,      \* taken[t]: the pages that were in use at some instant
          exhausted   \* exhausted[t]: at some instant no page was free

callVars == <<taken, exhausted>>

CInit == /\ Init
         /\ taken = [t \in Threads |-> {}]
         /\ exhausted = [t \in Threads |-> FALSE]

Begins(t) == pc[t] = "idle" /\ pc'[t] = "load"
Inside(t) == pc[t] \in InCall

Observe ==
  /\ taken' = [t \in Threads |->
        IF Begins(t) THEN Pages \ FreePages'
        ELSE IF Inside(t) THEN taken[t] \cup (Pages \ FreePages')
        ELSE taken[t]]
  /\ exhausted' = [t \in Threads |->
        IF Begins(t) THEN FreePages' = {}
        ELSE exhausted[t] \/ (Inside(t) /\ FreePages' = {})]

CNext == Next /\ Observe

CSpec == CInit /\ [][CNext]_<<vars, callVars>>

\* The fairness of PagePool's FairSpec.
CFairSpec ==
  CSpec /\ \A t \in Threads : WF_<<vars, callVars>>(AllocStep(t) /\ Observe)

-----------------------------------------------------------------------------
\* What alloc_page really guarantees when it answers None, with any number
\* of handlers: every single page was in use at some instant of the call
\* (not necessarily all at the same one).
NoneMeansEachTaken ==
  \A t \in Threads : pc[t] = "none" => taken[t] = Pages

\* What its comment says, "None if pool exhausted" (page_pool.rs:82): at
\* some instant of the call no page at all was free.
NoneMeansExhausted ==
  \A t \in Threads : pc[t] = "none" => exhausted[t]
=============================================================================
