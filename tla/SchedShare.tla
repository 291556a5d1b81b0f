----------------------------- MODULE SchedShare ------------------------------
(***************************************************************************)
(* The scheduler core of module Sched implements module TimeShare.         *)
(***************************************************************************)
EXTENDS SchedProps

(* The tasks that the for_each_task of reset_score has still to come to.   *)
ToReset ==
  IF pick.at = "reset"
  THEN Walk([links.next EXCEPT ![init_task] = pick.tmp], init_task) ELSE {}

full == [t \in Page |-> DEF_COUNTER + priority(t)]

(* reset_score goes from task to task with IRQs masked: a task it has not  *)
(* come to yet counts as refilled from the start.                          *)
TS == INSTANCE TimeShare WITH
        Clients <- Page, boot <- init_task, Full <- full, Yielders <- Voluntary,
        ready   <- OnQueue,
        slice   <- [t \in Page |-> IF t \in ToReset THEN full[t] ELSE count[t]],
        running <- cur,
        turn    <- IF pick.at = "none" THEN "runs" ELSE "over"

(* The tick, __schedule, the pick with its reset_score, and the switch,    *)
(* list by list and flag by flag, share the CPU in rounds: the CPU is      *)
(* taken only from a thread whose slice is used up or that asked for it,   *)
(* it goes to the ready thread with the most slice left, slices are        *)
(* refilled only when no ready thread has any left, and a preemption       *)
(* inside do_fork, wake_up_process or schedule() changes nothing of it.    *)
ImplementsTimeShare == TS!Spec
==============================================================================
