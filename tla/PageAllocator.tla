---------------------------- MODULE PageAllocator ----------------------------
(***************************************************************************)
(* What PagePool (src/src/kv_cache/page_pool.rs) promises its clients: a   *)
(* page is either free or owned by exactly one client, a client receives a *)
(* free page, and only its owner gives a page back.  Allocation and        *)
(* release are single steps here; PagePool.tla implements them with loads  *)
(* and compare-and-swaps on the words of a bitmap.                         *)
(*                                                                         *)
(* An allocation that answers None changes nothing, so it is a stuttering  *)
(* step of this specification.  What such an answer may mean is the        *)
(* subject of PagePoolCalls.tla.                                           *)
(***************************************************************************)

CONSTANTS Clients,   \* the threads that share the pool
          Pages      \* the physical page indices

VARIABLES free,      \* the pages nobody owns
          owned      \* owned[c]: the pages client c was given and still has

vars == <<free, owned>>

Init == /\ free = Pages
        /\ owned = [c \in Clients |-> {}]

Alloc(c) ==
  \E p \in free :
    /\ free' = free \ {p}
    /\ owned' = [owned EXCEPT ![c] = @ \cup {p}]

Release(c) ==
  \E p \in owned[c] :
    /\ free' = free \cup {p}
    /\ owned' = [owned EXCEPT ![c] = @ \ {p}]

Next == \E c \in Clients : Alloc(c) \/ Release(c)

Spec == Init /\ [][Next]_vars
=============================================================================
