------------------------------ MODULE TimeShare ------------------------------
(***************************************************************************)
(* What the scheduler of kernel/sched_simple.c promises, without lists,    *)
(* flags or counters of the implementation: threads share the CPU in       *)
(* rounds.  In a round every ready thread may use up its slice; the round  *)
(* ends, and slices are refilled, only when every ready one has done so.   *)
(***************************************************************************)
EXTENDS Naturals

CONSTANTS Clients,     \* threads that may exist
          boot,        \* what runs first; it is never ready again
          Full,        \* Full[t]: the slice t has after a refill
          Yielders     \* threads that may give up the CPU or stop being ready

VARIABLES ready, slice, running,
          turn         \* "runs", or "over": the next thread is being chosen

Init ==
  /\ ready = {} /\ slice = [t \in Clients |-> 0]
  /\ running = boot /\ turn = "runs"

(* A new thread is given a part of a slice, and becomes ready later.       *)
Grant ==
  /\ \E t \in Clients \ ready : \E n \in 0 .. Full[t] : slice' = [slice EXCEPT ![t] = n]
  /\ UNCHANGED <<ready, running, turn>>

Admit ==
  /\ turn = "runs"
  /\ \E t \in Clients \ ready : ready' = ready \cup {t}
  /\ UNCHANGED <<slice, running, turn>>

(* Only the thread that runs uses its slice.                               *)
Tick ==
  /\ turn = "runs" /\ running \in Clients /\ slice[running] > 0
  /\ slice' = [slice EXCEPT ![running] = @ - 1]
  /\ UNCHANGED <<ready, running, turn>>

(* The CPU is taken only from a thread whose slice is used up.             *)
EndTurn ==
  /\ turn = "runs" /\ turn' = "over"
  /\ running = boot \/ running \in Yielders \/ slice[running] = 0
  /\ \/ UNCHANGED ready
     \/ running \in Yielders /\ ready' = ready \ {running}
  /\ UNCHANGED <<slice, running>>

(* A new round: threads that are not ready may be refilled with the others.*)
Refill ==
  /\ turn = "over" /\ ready # {} /\ \A t \in ready : slice[t] = 0
  /\ \E S \in SUBSET Clients :
       /\ ready \subseteq S
       /\ slice' = [t \in Clients |-> IF t \in S THEN Full[t] ELSE slice[t]]
  /\ UNCHANGED <<ready, running, turn>>

Dispatch ==
  /\ turn = "over" /\ turn' = "runs"
  /\ \E t \in ready : /\ slice[t] > 0 /\ \A u \in ready : slice[t] >= slice[u]
                      /\ running' = t
  /\ UNCHANGED <<ready, slice>>

Next == Grant \/ Admit \/ Tick \/ EndTurn \/ Refill \/ Dispatch

Spec == Init /\ [][Next]_<<ready, slice, running, turn>>
==============================================================================
