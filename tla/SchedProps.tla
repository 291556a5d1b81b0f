----------------------------- MODULE SchedProps ------------------------------
(***************************************************************************)
(* What the scheduler core of module Sched must satisfy.                   *)
(***************************************************************************)
EXTENDS Sched

BasePC == {"main", "body", "sched_enter", "sched_leave", "f_page", "f_slot",
           "f_count", "f_load", "f_store", "f_table", "link1", "link2",
           "link3", "link4", "wake", "add1", "add2", "add3", "add4",
           "nr_running"}

Pointer == Node \cup {NULL, LIST_POISON}

TypeOK ==
  /\ mem_map \in [PA!MapIndex -> {0, 1}]
  /\ g_task \in [0 .. NR_TASK - 1 -> Task \cup {NULL}]
  /\ forks \in Nat
  /\ state \in [Task -> {TASK_RUNNING, TASK_INTERRUPTIBLE}]
  /\ count \in [Task -> Nat]
  /\ need_resched \in [Task -> {0, 1}]
  /\ preempt_count \in [Task -> Int]
  /\ links \in [next : [Task -> Task \cup {NULL}],
                prev : [Task -> Task \cup {NULL}]]
  /\ run_list \in [next : [Node -> Pointer], prev : [Node -> Pointer]]
  /\ nr_running \in Int
  /\ rq_curr \in Task \cup {NULL}
  /\ ctx \in [Task -> {"none", "ret_from_fork", "switched"}]
  /\ base \in [Task -> BasePC]
  /\ traps \in [Task -> Seq({"enter", "leave"})]
  /\ loc \in [Task -> [p : Page \cup {NULL}, pid : 0 .. NR_TASK - 1,
                       given : Nat, reg : Nat, next : Pointer]]
  /\ cur \in Task
  /\ irqOn \in BOOLEAN
  /\ pick \in [at : {"none", "scan", "reset", "switch"},
               tmp : Pointer, c : Int, next : Task \cup {UNINIT}]
  /\ mode \in {"ok", "wild", "fault"}

(* A walk of forward pointers nx from head does not leave S.               *)
Closed(nx, head, S) == \A n \in S \cup {head} : nx[n] \in Page => nx[n] \in S

(* The tasks a walk of forward pointers nx from head comes to.             *)
Walk(nx, head) ==
  LET closed == {S \in SUBSET Page : Closed(nx, head, S)}
  IN  {t \in Page : \A S \in closed : t \in S}

OnQueue  == Walk(run_list.next, rq_head)
OnList   == Walk(links.next, init_task)
Threads  == {g_task[i] : i \in DOMAIN g_task} \ {NULL, init_task}
InFlight == {loc[t].p : t \in Task}

(* pick_next_task_simple and reset_score: neither loop follows a pointer   *)
(* that was not written yet, wherever in do_fork and its wake_up_process   *)
(* the interrupt came, nor one that list_del has poisoned, in whatever     *)
(* order threads sleep and wake each other.                                *)
NoFault == mode # "fault"

(* pick_next_task_simple: `next`, which starts uninitialised, is returned  *)
(* unwritten only when the run queue is empty; a goto repeat never brings  *)
(* that about.                                                             *)
UninitOnlyWhenEmpty == mode = "wild" => run_list.next[rq_head] = rq_head

(* __schedule's dequeue, wake_up_process: a thread is on the run queue     *)
(* exactly when it may run, so none is lost and none is queued twice.  The *)
(* one that runs stays queued until __schedule sees its state.             *)
QueueHoldsRunnable ==
  \A t \in Threads \ InFlight :
    t \in OnQueue <=> \/ state[t] = TASK_RUNNING
                      \/ t = cur /\ pick.at = "none"

(* rq->nr_running: it counts the queue, but for an enqueue that was        *)
(* interrupted between list_add and the increment.                         *)
NrRunningExact ==
  nr_running + Cardinality({t \in Task : base[t] = "nr_running"})
    = Cardinality(OnQueue)

Disabled(t) == IF base[t] \in {"sched_enter", "sched_leave"} THEN 1 ELSE 0

(* preempt_disable / preempt_enable: preempt_count is the number of        *)
(* scheduler calls on the task's stack, whatever interrupted what.         *)
PreemptBalance ==
  \A t \in Task : preempt_count[t] = Disabled(t) + Len(traps[t])

(* schedule_debug: "BUG: scheduling while atomic" is never printed, every  *)
(* __schedule starts with preempt_count 1.                                 *)
NotAtomic ==
  InPreempt("enter") \/ Running("sched_enter") => preempt_count[cur] = 1

Calling(t) == base[t] \notin {"main", "body", "sched_enter", "sched_leave"}

(* schedule_tail, eret: outside the scheduler IRQs are masked only in a    *)
(* thread that uses schedule(), in a caller that masked them or at the end *)
(* of preempt_schedule_irq; no switch carries the mask over to a thread    *)
(* that never asked for the scheduler.                                     *)
MaskConfined ==
  mode = "ok" /\ pick.at = "none" /\ ~irqOn =>
    \/ cur \in Voluntary
    \/ CallersMask /\ Calling(cur)
    \/ traps[cur] = <<"leave">>

(* do_fork: parent and child together never hold more of the slice than    *)
(* the parent had, ticks between the two assignments included.             *)
ForkSharesSlice ==
  base[cur] \in {"f_table", "link1", "link2", "link3", "link4"}
    => count[child] + count[cur] <= loc[cur].given

(* do_fork's error path: a page that is neither free, nor a thread's, nor  *)
(* held by a do_fork that has not returned, is lost only when the task     *)
(* table is full.  A do_fork that init_task never comes back to holds its  *)
(* page for ever; that page is not counted as lost.                        *)
LeakOnlyWhenFull ==
  Page \ (PA!FreePages \cup Threads \cup InFlight) # {}
    => \A i \in DOMAIN g_task : g_task[i] # NULL

(* pick_next_task_simple: init_task is never queued, so once it is         *)
(* switched out kernel_main never runs again.                              *)
InitNeverResumes == [][cur # init_task => cur' # init_task]_vars

(* pick_next_task_simple: the jump back to repeat is not taken for ever.   *)
ScheduleEnds == pick.at # "none" ~> pick.at = "none" \/ mode # "ok"

(* task_tick_simple and the pick: no queued thread waits for ever.         *)
NoStarvation == \A t \in Page : t \in OnQueue ~> cur = t

(* DEF_COUNTER, "100ms time": a task does not keep the CPU for ever while  *)
(* another one is queued.                                                  *)
SliceExpires ==
  \A t \in Task : cur = t /\ OnQueue \ {t} # {} ~> cur # t \/ mode # "ok"
==============================================================================
