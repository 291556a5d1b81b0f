------------------------------ MODULE PagePool -------------------------------
(***************************************************************************)
(* What a page allocator promises: a pool of pages, each owned by at most  *)
(* one client, and a request refused only if the pool was empty when it    *)
(* was made.  Pages may come back while a request is open.                 *)
(***************************************************************************)
CONSTANT Pages

CONSTANT Refusal  \* the reply to a request that is refused

VARIABLES pool,     \* pages that may be handed out
          owned,    \* pages the clients hold
          request,  \* "none", "open", or "hopeless": made on an empty pool
          reply     \* the reply to the last request that ended

Init == pool = Pages /\ owned = {} /\ request = "none" /\ reply = Refusal

Ask == /\ request = "none"
       /\ request' = IF pool = {} THEN "hopeless" ELSE "open"
       /\ UNCHANGED <<pool, owned, reply>>

Take == \E p \in pool : /\ request # "none"
                       /\ pool' = pool \ {p}
                       /\ owned' = owned \cup {p}
                       /\ reply' = p
                       /\ request' = "none"

Refuse == /\ request = "hopeless"
          /\ reply' = Refusal /\ request' = "none"
          /\ UNCHANGED <<pool, owned>>

Return == \E p \in owned : /\ pool' = pool \cup {p}
                          /\ owned' = owned \ {p}
                          /\ UNCHANGED <<request, reply>>

Next == Ask \/ Take \/ Refuse \/ Return

Spec == Init /\ [][Next]_<<pool, owned, request, reply>>
==============================================================================
