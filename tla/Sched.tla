-------------------------------- MODULE Sched --------------------------------
(***************************************************************************)
(* The scheduler core of the kernel on its one running CPU: kernel/sched.c *)
(* kernel/sched_simple.c, kernel/fork.c, the run queue and the task list,  *)
(* and the parts of arch/arm64/core/entry.S that preempt and switch.       *)
(*                                                                         *)
(* A step of the model is a stretch of code that no interrupt can split,   *)
(* or one store of a stretch that an interrupt can split.  Every task has  *)
(* its own control: base is where its own code stands, traps the frames    *)
(* that preempt_schedule_irq has on its stack.                             *)
(***************************************************************************)
EXTENDS Integers, Sequences, FiniteSets, ListOps

CONSTANTS NR_PAGES, LOW_MEMORY,
          NR_TASK,       \* entries of g_task
          DEF_COUNTER,   \* ticks in a slice
          Forks,         \* do_fork calls kernel_main makes
          TickWired,     \* does the timer interrupt call tick_handle_periodic?
          Voluntary,     \* threads that sleep, wake others and call schedule()
          CallersMask    \* do callers of do_fork and wake_up_process mask IRQs?

ASSUME SchedAssumption ==
  /\ NR_PAGES \in Nat /\ LOW_MEMORY \in Nat \ {0}
  /\ NR_TASK \in Nat \ {0} /\ DEF_COUNTER \in Nat \ {0} /\ Forks \in Nat
  /\ TickWired \in BOOLEAN /\ CallersMask \in BOOLEAN

VARIABLES
  mem_map, g_task, forks,
  links,                         \* next_task and prev_task of the tasks
  run_list, nr_running,          \* the run queue: list, length,
  rq_curr,                       \*   and rq->curr
  state, count, need_resched, preempt_count,  \* fields of task_struct
  ctx,      \* what cpu_context resumes: a new thread or a switched-out task
  base, traps, loc,              \* control and locals of every task
  cur,      \* sp_el0, the current task
  irqOn,    \* PSTATE.I is clear
  pick,     \* control and locals of the __schedule that runs with IRQs off
  mode      \* "ok", or how the kernel left the model

PA == INSTANCE PageAlloc

NULL      == 0
init_task == -1
rq_head   == -2
UNINIT    == -4          \* an uninitialised pointer variable

Page == PA!Page
Task == Page \cup {init_task}
Node == Task \cup {rq_head}

TASK_RUNNING       == 0
TASK_INTERRUPTIBLE == 1

priority(t) == IF t = init_task THEN 1 ELSE 2

fork  == <<mem_map, g_task, forks, links>>
queue == <<run_list, nr_running>>
who   == <<cur, ctx, rq_curr>>
vars  == <<mem_map, g_task, forks, links, run_list, nr_running, rq_curr, state,
           count, need_resched, preempt_count, ctx, base, traps, loc, cur,
           irqOn, pick, mode>>

NoLocals == [p |-> NULL, pid |-> 0, given |-> 0, reg |-> 0, next |-> NULL]
NoPick   == [at |-> "none", tmp |-> NULL, c |-> 0, next |-> UNINIT]

Unlinked(nodes) == [next |-> [n \in nodes |-> NULL], prev |-> [n \in nodes |-> NULL]]

sched_init == INIT_LIST_HEAD(Unlinked(Node), rq_head)

(* init_task's initialiser, the static g_task, and sched_init().           *)
Init ==
  /\ PA!mem_map_init
  /\ g_task = [i \in 0 .. NR_TASK - 1 |-> IF i = 0 THEN init_task ELSE NULL]
  /\ forks = Forks
  /\ links = INIT_LIST_HEAD(Unlinked(Task), init_task)
  /\ run_list = sched_init
  /\ nr_running = 0
  /\ rq_curr = NULL
  /\ state = [t \in Task |-> TASK_RUNNING]
  /\ count = [t \in Task |-> IF t = init_task THEN DEF_COUNTER ELSE 0]
  /\ need_resched = [t \in Task |-> 0]
  /\ preempt_count = [t \in Task |-> 0]
  /\ ctx = [t \in Task |-> "none"]
  /\ base = [t \in Task |-> IF t = init_task THEN "main" ELSE "body"]
  /\ traps = [t \in Task |-> <<>>]
  /\ loc = [t \in Task |-> NoLocals]
  /\ cur = init_task
  /\ irqOn = TRUE
  /\ pick = NoPick
  /\ mode = "ok"
------------------------------------------------------------------------------
(* cur executes its own code, at pc.                                       *)
Running(pc) == /\ mode = "ok" /\ pick.at = "none"
               /\ traps[cur] = <<>> /\ base[cur] = pc

(* cur executes preempt_schedule_irq: before or after its __schedule().    *)
InPreempt(pc) == /\ mode = "ok" /\ pick.at = "none"
                 /\ traps[cur] # <<>> /\ Head(traps[cur]) = pc

Goto(pc) == base' = [base EXCEPT ![cur] = pc]

preempt_disable == preempt_count' = [preempt_count EXCEPT ![cur] = @ + 1]

(* Slip: the count is left as it was.                                      *)
preempt_left_disabled == UNCHANGED preempt_count

preempt_enable == preempt_count' = [preempt_count EXCEPT ![cur] = @ - 1]

(* Slip: a used-up slice does not ask for a reschedule.                    *)
tick_unmarked(p) ==
  /\ count' = [count EXCEPT ![p] = IF @ <= 1 THEN 0 ELSE @ - 1]
  /\ UNCHANGED need_resched

task_tick_simple(p) ==
  LET c == count[p] - 1 IN
  /\ count' = [count EXCEPT ![p] = IF c <= 0 THEN 0 ELSE c]
  /\ need_resched' = [need_resched EXCEPT ![p] = IF c <= 0 THEN 1 ELSE @]

(* do_irq() for the timer interrupt.  handle_timer_irq only re-arms the    *)
(* timer; TickWired adds the call of tick_handle_periodic.                 *)
do_irq == IF TickWired THEN task_tick_simple(cur)
                       ELSE UNCHANGED <<count, need_resched>>

(* Slip: the preempt_count test is dropped.                                *)
preempts_always == need_resched'[cur] # 0

(* The two tests of el1_irq, after the handler.                            *)
el1_preempts == preempt_count[cur] = 0 /\ need_resched'[cur] # 0

(* el1_irq: the handler, then back to the interrupted code or into         *)
(* preempt_schedule_irq up to its raw_local_irq_enable().                  *)
el1_irq ==
  /\ mode = "ok" /\ irqOn
  /\ do_irq
  /\ \/ /\ el1_preempts
        /\ preempt_disable
        /\ traps' = [traps EXCEPT ![cur] = <<"enter">> \o @]
     \/ ~el1_preempts /\ UNCHANGED <<preempt_count, traps>>
  /\ UNCHANGED <<fork, queue, who, state, base, loc, irqOn, pick, mode>>

(* The end of preempt_schedule_irq, trap_exit and eret: the interrupted    *)
(* code had IRQs enabled, and SPSR_EL1 enables them again.                 *)
preempt_return ==
  /\ InPreempt("leave")
  /\ preempt_enable
  /\ traps' = [traps EXCEPT ![cur] = Tail(@)]
  /\ irqOn' = TRUE
  /\ UNCHANGED <<fork, queue, who, state, count, need_resched, base, loc, pick,
                 mode>>
------------------------------------------------------------------------------
(* __schedule().                                                           *)

dequeue_task_simple(p) ==
  /\ nr_running' = nr_running - 1
  /\ run_list' = list_del(run_list, p)

(* Slip: a task that was preempted is not dequeued.                        *)
blocks_unless_preempted(p) == state[p] # TASK_RUNNING /\ traps[p] = <<>>

blocks(p) == state[p] # TASK_RUNNING

(* Slip: the running maximum starts at the largest value.                  *)
repeat_from_max(first, next) == [at |-> "scan", tmp |-> first, c |-> 1000, next |-> next]

(* The locals of pick_next_task_simple after its label repeat: tmp at the  *)
(* first node, `next` as it was.                                           *)
repeat(first, next) == [at |-> "scan", tmp |-> first, c |-> -1000, next |-> next]

(* From raw_local_irq_disable() to the first node of the pick loop.  What  *)
(* it leaves in base and traps is where cur goes on once it is resumed.    *)
__schedule ==
  /\ \/ /\ InPreempt("enter")
        /\ traps' = [traps EXCEPT ![cur] = <<"leave">> \o Tail(@)]
        /\ UNCHANGED base
     \/ /\ Running("sched_enter")
        /\ Goto("sched_leave")
        /\ UNCHANGED traps
  /\ irqOn' = FALSE
  /\ IF blocks(cur) THEN dequeue_task_simple(cur) ELSE UNCHANGED queue
  /\ pick' = repeat(run_list'.next[rq_head], UNINIT)
  /\ UNCHANGED <<fork, who, state, count, need_resched, preempt_count, loc, mode>>

goodness(p) == count[p]

(* One round of list_for_each: keep the first task of the largest count.   *)
pick_scan ==
  /\ mode = "ok" /\ pick.at = "scan" /\ pick.tmp # rq_head
  /\ IF pick.tmp \in Task
       THEN /\ LET better == goodness(pick.tmp) > pick.c IN
               pick' = [pick EXCEPT !.c    = IF better THEN goodness(pick.tmp) ELSE @,
                                    !.next = IF better THEN pick.tmp ELSE @,
                                    !.tmp  = run_list.next[pick.tmp]]
            /\ UNCHANGED mode
       ELSE mode' = "fault" /\ UNCHANGED pick
  /\ UNCHANGED <<fork, queue, who, state, count, need_resched, preempt_count,
                 base, traps, loc, irqOn>>

(* Slip: with every slice used up, fall back on init_task.                 *)
idle_when_spent == [pick EXCEPT !.at = "switch", !.next = init_task]

(* if (!c): every slice is used up.                                        *)
when_spent == [pick EXCEPT !.at = "reset", !.tmp = links.next[init_task]]

(* The end of the loop: if (!c), on to reset_score(), else to the switch.  *)
pick_scanned ==
  /\ mode = "ok" /\ pick.at = "scan" /\ pick.tmp = rq_head
  /\ pick' = IF pick.c = 0 THEN when_spent ELSE [pick EXCEPT !.at = "switch"]
  /\ UNCHANGED <<fork, queue, who, state, count, need_resched, preempt_count,
                 base, traps, loc, irqOn, mode>>

(* Slip: the count is not reloaded.                                        *)
stale_score(p) == count[p]

fresh_score(p) == DEF_COUNTER + priority(p)

(* One round of for_each_task, which never comes to init_task itself.      *)
reset_score ==
  /\ mode = "ok" /\ pick.at = "reset" /\ pick.tmp # init_task
  /\ IF pick.tmp \in Task
       THEN /\ count' = [count EXCEPT ![pick.tmp] = fresh_score(pick.tmp)]
            /\ pick' = [pick EXCEPT !.tmp = links.next[pick.tmp]]
            /\ UNCHANGED mode
       ELSE mode' = "fault" /\ UNCHANGED <<count, pick>>
  /\ UNCHANGED <<fork, queue, who, state, need_resched, preempt_count, base,
                 traps, loc, irqOn>>

(* for_each_task is back at init_task: goto repeat.                        *)
reset_done ==
  /\ mode = "ok" /\ pick.at = "reset" /\ pick.tmp = init_task
  /\ pick' = repeat(run_list.next[rq_head], pick.next)
  /\ UNCHANGED <<fork, queue, who, state, count, need_resched, preempt_count,
                 base, traps, loc, irqOn, mode>>

AtSwitch == mode = "ok" /\ pick.at = "switch"

(* Slip: the flag stays set.                                               *)
resched_left_set(p) == UNCHANGED need_resched

clear_task_resched(p) == need_resched' = [need_resched EXCEPT ![p] = 0]

(* rq->curr after the switch: a task that was switched out returns into    *)
(* its __schedule, which sets it; a new thread starts at ret_from_fork.    *)
curr_after(next) == IF ctx[next] = "switched" THEN next ELSE rq_curr

(* Slip: ret_from_fork does not call schedule_tail.                        *)
tail_not_in_fork(next) == ctx[next] = "switched"

(* schedule_tail(), called on both paths, enables IRQs.                    *)
schedule_tail(next) == TRUE

cpu_switch_to ==
  /\ AtSwitch /\ pick.next \in Task \ {cur}
  /\ clear_task_resched(cur)
  /\ cur' = pick.next
  /\ ctx' = [ctx EXCEPT ![cur] = "switched"]
  /\ rq_curr' = curr_after(pick.next)
  /\ irqOn' = schedule_tail(pick.next)
  /\ pick' = NoPick
  /\ UNCHANGED <<fork, queue, state, count, preempt_count, base, traps, loc, mode>>

(* next == prev: switch_to is not called, `last` stays NULL, and           *)
(* schedule_tail with its raw_local_irq_enable() is skipped.               *)
keep_running ==
  /\ AtSwitch /\ pick.next = cur
  /\ clear_task_resched(cur)
  /\ pick' = NoPick
  /\ UNCHANGED <<fork, queue, who, state, count, preempt_count, base, traps,
                 loc, irqOn, mode>>

(* The list was empty: `next` was never written and is dereferenced.       *)
switch_wild ==
  /\ AtSwitch /\ pick.next \notin Task
  /\ clear_task_resched(cur)
  /\ mode' = "wild"
  /\ UNCHANGED <<fork, queue, who, state, count, preempt_count, base, traps,
                 loc, irqOn, pick>>

(* schedule(): preempt_disable(), __schedule(), preempt_enable().          *)
schedule ==
  /\ Running("body") /\ cur \in Voluntary
  /\ preempt_disable
  /\ Goto("sched_enter")
  /\ UNCHANGED <<fork, queue, who, state, count, need_resched, traps, loc,
                 irqOn, pick, mode>>

schedule_return ==
  /\ Running("sched_leave")
  /\ preempt_enable
  /\ Goto("body")
  /\ UNCHANGED <<fork, queue, who, state, count, need_resched, traps, loc,
                 irqOn, pick, mode>>
------------------------------------------------------------------------------
(* do_fork(), by init_task in kernel_main, and wake_up_process().          *)

Home(t) == IF t = init_task THEN "main" ELSE "body"

Mask == irqOn' = IF CallersMask THEN FALSE ELSE irqOn

(* Back to the caller, which unmasks the IRQs it masked.                   *)
Return == /\ Goto(Home(cur))
          /\ loc' = [loc EXCEPT ![cur] = NoLocals]
          /\ irqOn' = IF CallersMask THEN TRUE ELSE irqOn

child == loc[cur].p

kernel_main ==
  /\ Running("main") /\ forks > 0
  /\ forks' = forks - 1
  /\ Goto("f_page")
  /\ Mask
  /\ UNCHANGED <<mem_map, g_task, links, queue, who, state, count, need_resched,
                 preempt_count, traps, loc, pick, mode>>

fork_page ==
  /\ Running("f_page")
  /\ \/ PA!get_free_page(NULL) /\ Return
     \/ \E p \in Page :
          /\ PA!get_free_page(p)
          /\ loc' = [loc EXCEPT ![cur].p = p]
          /\ Goto("f_slot")
          /\ UNCHANGED irqOn
  /\ UNCHANGED <<g_task, forks, links, queue, who, state, count, need_resched,
                 preempt_count, traps, pick, mode>>

(* Slip: the loop stops one entry early.                                   *)
find_empty_short(i) ==
  \/ /\ i \in 0 .. NR_TASK - 2 /\ g_task[i] = NULL
     /\ \A j \in 0 .. i - 1 : g_task[j] # NULL
  \/ i = -1 /\ \A j \in 0 .. NR_TASK - 2 : g_task[j] # NULL

(* find_empty_task() returning i.                                          *)
find_empty_task(i) ==
  \/ /\ i \in 0 .. NR_TASK - 1 /\ g_task[i] = NULL
     /\ \A j \in 0 .. i - 1 : g_task[j] # NULL
  \/ i = -1 /\ \A j \in 0 .. NR_TASK - 1 : g_task[j] # NULL

(* copy_thread() and the other fields of the child but for count.  Nothing *)
(* reaches the child before SET_LINKS, so no one can observe that the code *)
(* writes need_resched and preempt_count only after count.                 *)
copy_thread(p) ==
  /\ ctx' = [ctx EXCEPT ![p] = "ret_from_fork"]
  /\ state' = [state EXCEPT ![p] = TASK_RUNNING]
  /\ need_resched' = [need_resched EXCEPT ![p] = 0]
  /\ preempt_count' = [preempt_count EXCEPT ![p] = 0]

(* With no slot left do_fork returns and the page is not given back.       *)
fork_slot ==
  /\ Running("f_slot")
  /\ \/ /\ find_empty_task(-1) /\ Return
        /\ UNCHANGED <<ctx, state, need_resched, preempt_count>>
     \/ \E pid \in 0 .. NR_TASK - 1 :
          /\ find_empty_task(pid)
          /\ loc' = [loc EXCEPT ![cur].pid = pid]
          /\ copy_thread(child)
          /\ Goto("f_count")
          /\ UNCHANGED irqOn
  /\ UNCHANGED <<fork, queue, cur, rq_curr, count, traps, pick, mode>>

(* p->count = (current->count + 1) >> 1; `given` keeps the count it read.  *)
fork_count ==
  /\ Running("f_count")
  /\ count' = [count EXCEPT ![child] = (count[cur] + 1) \div 2]
  /\ loc' = [loc EXCEPT ![cur].given = count[cur]]
  /\ Goto("f_load")
  /\ UNCHANGED <<fork, queue, who, state, need_resched, preempt_count, traps,
                 irqOn, pick, mode>>

(* current->count >>= 1 is a load and a store; a tick may come between.    *)
fork_load ==
  /\ Running("f_load")
  /\ loc' = [loc EXCEPT ![cur].reg = count[cur]]
  /\ Goto("f_store")
  /\ UNCHANGED <<fork, queue, who, state, count, need_resched, preempt_count,
                 traps, irqOn, pick, mode>>

(* Slip: the parent keeps its whole slice.                                 *)
whole(c) == c

halved(c) == c \div 2

fork_store ==
  /\ Running("f_store")
  /\ count' = [count EXCEPT ![cur] = halved(loc[cur].reg)]
  /\ Goto("f_table")
  /\ UNCHANGED <<fork, queue, who, state, need_resched, preempt_count, traps,
                 loc, irqOn, pick, mode>>

fork_table ==
  /\ Running("f_table")
  /\ g_task' = [g_task EXCEPT ![loc[cur].pid] = child]
  /\ Goto("link1")
  /\ UNCHANGED <<mem_map, forks, links, queue, who, state, count, need_resched,
                 preempt_count, traps, loc, irqOn, pick, mode>>

(* Slip: the last task points to p before p's own pointers are written.    *)
links_published_first(h, p, k) ==
  CASE k = 1 -> [h EXCEPT !.next[h.prev[init_task]] = p]
    [] k = 2 -> [h EXCEPT !.next[p] = init_task]
    [] k = 3 -> [h EXCEPT !.prev[p] = h.prev[init_task]]
    [] k = 4 -> [h EXCEPT !.prev[init_task] = p]

(* The k-th store of SET_LINKS(p).                                         *)
set_links_store(h, p, k) ==
  CASE k = 1 -> [h EXCEPT !.next[p] = init_task]
    [] k = 2 -> [h EXCEPT !.prev[p] = h.prev[init_task]]
    [] k = 3 -> [h EXCEPT !.next[h.prev[init_task]] = p]
    [] k = 4 -> [h EXCEPT !.prev[init_task] = p]

LinkPC == <<"link1", "link2", "link3", "link4", "wake">>

SET_LINKS ==
  \E k \in 1 .. 4 :
    /\ Running(LinkPC[k])
    /\ links' = set_links_store(links, child, k)
    /\ Goto(LinkPC[k + 1])
    /\ UNCHANGED <<mem_map, g_task, forks, queue, who, state, count,
                   need_resched, preempt_count, traps, loc, irqOn, pick, mode>>

(* The assignment to p->state, and head->next read for list_add().  Only   *)
(* a running p looks at p->state, so the two need not be told apart.       *)
wake_up_process ==
  /\ Running("wake")
  /\ state' = [state EXCEPT ![child] = TASK_RUNNING]
  /\ loc' = [loc EXCEPT ![cur].next = run_list.next[rq_head]]
  /\ Goto("add1")
  /\ UNCHANGED <<fork, queue, who, count, need_resched, preempt_count, traps,
                 irqOn, pick, mode>>

AddPC == <<"add1", "add2", "add3", "add4", "nr_running">>

(* enqueue_task_simple(): the stores of list_add(), then the counter.      *)
enqueue_add ==
  \E k \in 1 .. 4 :
    /\ Running(AddPC[k])
    /\ run_list' = list_add_store(run_list, child, rq_head, loc[cur].next, k)
    /\ Goto(AddPC[k + 1])
    /\ UNCHANGED <<fork, nr_running, who, state, count, need_resched,
                   preempt_count, traps, loc, irqOn, pick, mode>>

enqueue_count ==
  /\ Running("nr_running")
  /\ nr_running' = nr_running + 1
  /\ Return
  /\ UNCHANGED <<fork, run_list, who, state, count, need_resched,
                 preempt_count, traps, pick, mode>>
------------------------------------------------------------------------------
(* Threads that use the scheduler's interface.  The kernel's own threads   *)
(* never do (Voluntary = {}): they loop with IRQs enabled.                 *)

set_sleep ==
  /\ Running("body") /\ cur \in Voluntary /\ state[cur] = TASK_RUNNING
  /\ state' = [state EXCEPT ![cur] = TASK_INTERRUPTIBLE]
  /\ UNCHANGED <<fork, queue, who, count, need_resched, preempt_count, base,
                 traps, loc, irqOn, pick, mode>>

(* A caller wakes a task that sleeps, never itself.                        *)
call_wake ==
  /\ Running("body") /\ cur \in Voluntary
  /\ \E p \in Page \ {cur} :
       /\ state[p] # TASK_RUNNING
       /\ loc' = [loc EXCEPT ![cur].p = p]
  /\ Goto("wake")
  /\ Mask
  /\ UNCHANGED <<fork, queue, who, state, count, need_resched, preempt_count,
                 traps, pick, mode>>

(* Nothing is said of a kernel that ran into undefined behaviour.          *)
stopped == mode # "ok" /\ UNCHANGED vars

Kernel == \/ preempt_return \/ __schedule \/ pick_scan \/ pick_scanned
          \/ reset_score \/ reset_done \/ cpu_switch_to \/ keep_running
          \/ switch_wild \/ schedule_return \/ kernel_main \/ fork_page
          \/ fork_slot \/ fork_count \/ fork_load \/ fork_store \/ fork_table
          \/ SET_LINKS \/ wake_up_process \/ enqueue_add \/ enqueue_count

Client == schedule \/ set_sleep \/ call_wake

Next == el1_irq \/ Kernel \/ Client \/ stopped

Spec == Init /\ [][Next]_vars

(* The CPU executes, and the timer, re-armed by every interrupt, fires     *)
(* again whenever IRQs stay enabled.                                       *)
FairSpec == Spec /\ WF_vars(Kernel) /\ WF_vars(el1_irq)
==============================================================================
