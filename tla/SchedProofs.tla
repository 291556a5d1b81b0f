----------------------------- MODULE SchedProofs -----------------------------
(***************************************************************************)
(* The scheduler core of module Sched, for every number of pages, tasks,   *)
(* forks and ticks, and for every set of threads that call schedule():     *)
(* types, init_task stays off the run queue, and preempt_count counts the  *)
(* scheduler calls on a task's stack, of which there is never more than    *)
(* one. The second part is about do_fork and about what a switch leaves    *)
(* behind.                                                                 *)
(***************************************************************************)
EXTENDS SchedProps, TLAPS

(* A leaf that names no prover is one for Zenon.                           *)
USE ZenonT(30)

(* A function keeps its type when one value is replaced.                   *)
LEMMA ExceptType ==
  ASSUME NEW S, NEW T, NEW f \in [S -> T], NEW x, NEW v \in T
  PROVE  [f EXCEPT ![x] = v] \in [S -> T]
  OBVIOUS

LEMMA TypeInit == Init => TypeOK
<1> SUFFICES ASSUME Init PROVE TypeOK
  OBVIOUS
<1>1. /\ init_task \in Task /\ Task \subseteq Node /\ rq_head \in Node
      /\ Node \subseteq Pointer /\ NULL \in Pointer
  BY DEF Task, Node, Pointer
<1>2. /\ links \in [next : [Task -> Task \cup {NULL}],
                    prev : [Task -> Task \cup {NULL}]]
      /\ run_list \in [next : [Node -> Pointer], prev : [Node -> Pointer]]
  BY <1>1 DEF Init, sched_init, INIT_LIST_HEAD, Unlinked
<1>3. /\ mem_map \in [PA!MapIndex -> {0, 1}]
      /\ g_task \in [0 .. NR_TASK - 1 -> Task \cup {NULL}]
  BY <1>1 DEF Init, PA!mem_map_init
<1>4. /\ loc \in [Task -> [p : Page \cup {NULL}, pid : 0 .. NR_TASK - 1,
                           given : Nat, reg : Nat, next : Pointer]]
      /\ pick \in [at : {"none", "scan", "reset", "switch"},
                   tmp : Pointer, c : Int, next : Task \cup {UNINIT}]
  BY <1>1, SchedAssumption, SMTT(30) DEF Init, NoLocals, NoPick
<1>5. /\ state \in [Task -> {TASK_RUNNING, TASK_INTERRUPTIBLE}]
      /\ count \in [Task -> Nat]
      /\ need_resched \in [Task -> {0, 1}]
      /\ preempt_count \in [Task -> Int]
      /\ ctx \in [Task -> {"none", "ret_from_fork", "switched"}]
      /\ base \in [Task -> BasePC]
      /\ traps \in [Task -> Seq({"enter", "leave"})]
  BY <1>1, SchedAssumption, SMTT(30) DEF Init, BasePC
<1> QED
  BY <1>1, <1>2, <1>3, <1>4, <1>5, SchedAssumption DEF Init, TypeOK

(* The interrupt and the way out of preempt_schedule_irq.                  *)
LEMMA TypeIrq ==
  ASSUME TypeOK, el1_irq \/ preempt_return
  PROVE  TypeOK'
<1>1. ASSUME NEW f \in {"enter", "leave"}, NEW s \in Seq({"enter", "leave"})
      PROVE  /\ <<f>> \o s \in Seq({"enter", "leave"})
             /\ s # <<>> => Tail(s) \in Seq({"enter", "leave"})
  BY SMTT(30)
<1>2. CASE el1_irq
  <2>1. count' \in [Task -> Nat] /\ need_resched' \in [Task -> {0, 1}]
    <3>1. /\ cur \in Task /\ count \in [Task -> Nat] /\ count[cur] \in Nat
          /\ need_resched \in [Task -> {0, 1}]
      BY DEF TypeOK
    <3>2. CASE TickWired
      <4>1. task_tick_simple(cur)
        BY <1>2, <3>2 DEF el1_irq, do_irq
      <4> DEFINE c == count[cur] - 1
      <4>2. (IF c <= 0 THEN 0 ELSE c) \in Nat
        BY <3>1, SMTT(30)
      <4>3. count' = [count EXCEPT ![cur] = IF c <= 0 THEN 0 ELSE c]
        BY <4>1 DEF task_tick_simple
      <4> HIDE DEF c
      <4>4. count' \in [Task -> Nat]
        BY <3>1, <4>2, <4>3
      <4>5. need_resched' \in [Task -> {0, 1}]
        BY <3>1, <4>1 DEF task_tick_simple
      <4> QED BY <4>4, <4>5
    <3>3. CASE ~TickWired
      BY <1>2, <3>1, <3>3 DEF el1_irq, do_irq
    <3> QED BY <3>2, <3>3
  <2>2. preempt_count' \in [Task -> Int]
    <3>1. preempt_count \in [Task -> Int] /\ cur \in Task
      BY DEF TypeOK
    <3>2. preempt_count[cur] + 1 \in Int
      BY <3>1, SMTT(30)
    <3> QED BY <1>2, <3>1, <3>2, ExceptType DEF el1_irq, preempt_disable
  <2>3. traps' \in [Task -> Seq({"enter", "leave"})]
    <3>1. /\ cur \in Task /\ traps \in [Task -> Seq({"enter", "leave"})]
          /\ <<"enter">> \o traps[cur] \in Seq({"enter", "leave"})
      BY <1>1 DEF TypeOK
    <3>2. \/ traps' = [traps EXCEPT ![cur] = <<"enter">> \o traps[cur]]
          \/ traps' = traps
      BY <1>2 DEF el1_irq
    <3> QED BY <3>1, <3>2
  <2> QED BY <1>2, <2>1, <2>2, <2>3 DEF TypeOK, el1_irq, fork, queue, who
<1>3. CASE preempt_return
  <2>1. preempt_count' \in [Task -> Int]
    BY <1>3, SMTT(30) DEF TypeOK, preempt_return, preempt_enable
  <2>2. traps' \in [Task -> Seq({"enter", "leave"})]
    BY <1>1, <1>3 DEF TypeOK, preempt_return, InPreempt
  <2> QED
    BY <1>3, <2>1, <2>2 DEF TypeOK, preempt_return, fork, queue, who
<1> QED BY <1>2, <1>3

(* The run list keeps its type whatever list.h does to it.                 *)
LEMMA TypeList ==
  ASSUME TypeOK
  PROVE  /\ \A e \in Task : list_del(run_list, e)
              \in [next : [Node -> Pointer], prev : [Node -> Pointer]]
         /\ \A new \in Page \cup {NULL}, next \in Pointer, k \in 1 .. 4 :
              list_add_store(run_list, new, rq_head, next, k)
                \in [next : [Node -> Pointer], prev : [Node -> Pointer]]
<1>1. /\ run_list \in [next : [Node -> Pointer], prev : [Node -> Pointer]]
      /\ Task \subseteq Node /\ rq_head \in Pointer /\ LIST_POISON \in Pointer
      /\ Page \cup {NULL} \subseteq Pointer
  BY DEF TypeOK, Task, Node, Pointer
<1>2. ASSUME NEW e \in Task
      PROVE  list_del(run_list, e)
               \in [next : [Node -> Pointer], prev : [Node -> Pointer]]
  BY <1>1 DEF list_del, __list_del
<1>3. ASSUME NEW new \in Page \cup {NULL}, NEW next \in Pointer, NEW k \in 1 .. 4
      PROVE  list_add_store(run_list, new, rq_head, next, k)
               \in [next : [Node -> Pointer], prev : [Node -> Pointer]]
  <2>1. k = 1 \/ k = 2 \/ k = 3 \/ k = 4
    BY SMTT(30)
  <2> QED BY <1>1, <2>1 DEF list_add_store
<1> QED BY <1>2, <1>3

(* __schedule() from its entry to the switch.                              *)
LEMMA TypeSchedule ==
  ASSUME TypeOK,
         \/ __schedule \/ pick_scan \/ pick_scanned \/ reset_score \/ reset_done
         \/ cpu_switch_to \/ keep_running \/ switch_wild
  PROVE  TypeOK'
<1>1. /\ cur \in Task /\ rq_head \in Node /\ init_task \in Task
      /\ Task \subseteq Node /\ Node \subseteq Pointer /\ NULL \in Pointer
  BY DEF TypeOK, Task, Node, Pointer
<1>2. pick \in [at : {"none", "scan", "reset", "switch"},
                tmp : Pointer, c : Int, next : Task \cup {UNINIT}]
  BY DEF TypeOK
<1>3. CASE __schedule
  <2>1. run_list' \in [next : [Node -> Pointer], prev : [Node -> Pointer]]
        /\ nr_running' \in Int
    <3>1. CASE blocks(cur)
      <4>1. run_list' = list_del(run_list, cur) /\ nr_running' = nr_running - 1
        BY <1>3, <3>1 DEF __schedule, dequeue_task_simple
      <4>2. list_del(run_list, cur)
              \in [next : [Node -> Pointer], prev : [Node -> Pointer]]
        BY <1>1, TypeList
      <4>3. nr_running - 1 \in Int
        BY SMTT(30) DEF TypeOK
      <4> QED BY <4>1, <4>2, <4>3
    <3>2. CASE ~blocks(cur)
      BY <1>3, <3>2 DEF TypeOK, __schedule, queue
    <3> QED BY <3>1, <3>2
  <2>2. pick' \in [at : {"none", "scan", "reset", "switch"},
                   tmp : Pointer, c : Int, next : Task \cup {UNINIT}]
    BY <1>1, <1>3, <2>1, SMTT(30) DEF __schedule, repeat
  <2>3. traps' \in [Task -> Seq({"enter", "leave"})] /\ base' \in [Task -> BasePC]
    <3>1. CASE Running("sched_enter") /\ Goto("sched_leave") /\ UNCHANGED traps
      BY <3>1 DEF TypeOK, Goto, BasePC
    <3>2. CASE /\ InPreempt("enter") /\ UNCHANGED base
               /\ traps' = [traps EXCEPT ![cur] = <<"leave">> \o Tail(@)]
      <4>1. traps[cur] \in Seq({"enter", "leave"}) /\ traps[cur] # <<>>
        BY <1>1, <3>2 DEF TypeOK, InPreempt
      <4>2. <<"leave">> \o Tail(traps[cur]) \in Seq({"enter", "leave"})
        BY <4>1, SMTT(30)
      <4> QED BY <3>2, <4>2 DEF TypeOK
    <3> QED BY <1>3, <3>1, <3>2 DEF __schedule
  <2> QED BY <1>3, <2>1, <2>2, <2>3 DEF TypeOK, __schedule, fork, who
<1>4. CASE pick_scan
  <2>1. pick.tmp \in Task => /\ count[pick.tmp] \in Int
                             /\ run_list.next[pick.tmp] \in Pointer
    BY <1>1, SMTT(30) DEF TypeOK
  <2>2. pick' \in [at : {"none", "scan", "reset", "switch"},
                   tmp : Pointer, c : Int, next : Task \cup {UNINIT}]
    BY <1>2, <1>4, <2>1 DEF pick_scan, goodness
  <2> QED BY <1>4, <2>2 DEF TypeOK, pick_scan, fork, queue, who
<1>5. CASE pick_scanned
  <2>1. pick' \in [at : {"none", "scan", "reset", "switch"},
                   tmp : Pointer, c : Int, next : Task \cup {UNINIT}]
    BY <1>1, <1>2, <1>5 DEF TypeOK, pick_scanned, when_spent
  <2> QED BY <1>5, <2>1 DEF TypeOK, pick_scanned, fork, queue, who
<1>6. CASE reset_score
  <2>1. \A t \in Task : fresh_score(t) \in Nat
    BY SchedAssumption, SMTT(30) DEF fresh_score, priority
  <2>2. \/ /\ pick.tmp \in Task
           /\ count' = [count EXCEPT ![pick.tmp] = fresh_score(pick.tmp)]
           /\ pick' = [pick EXCEPT !.tmp = links.next[pick.tmp]]
        \/ count' = count /\ pick' = pick
    BY <1>6 DEF reset_score
  <2>3. count' \in [Task -> Nat]
    <3>1. count \in [Task -> Nat]
      BY DEF TypeOK
    <3> QED BY <2>1, <2>2, <3>1
  <2>4. pick.tmp \in Task => links.next[pick.tmp] \in Pointer
    BY <1>1 DEF TypeOK
  <2>5. pick' \in [at : {"none", "scan", "reset", "switch"},
                   tmp : Pointer, c : Int, next : Task \cup {UNINIT}]
    BY <1>2, <2>2, <2>4
  <2> QED BY <1>6, <2>3, <2>5 DEF TypeOK, reset_score, fork, queue, who
<1>7. CASE reset_done
  <2>1. pick' \in [at : {"none", "scan", "reset", "switch"},
                   tmp : Pointer, c : Int, next : Task \cup {UNINIT}]
    BY <1>1, <1>2, <1>7, SMTT(30) DEF TypeOK, reset_done, repeat
  <2> QED BY <1>7, <2>1 DEF TypeOK, reset_done, fork, queue, who
<1>8. need_resched \in [Task -> {0, 1}] /\ NoPick \in
        [at : {"none", "scan", "reset", "switch"},
         tmp : Pointer, c : Int, next : Task \cup {UNINIT}]
  BY <1>1, SMTT(30) DEF TypeOK, NoPick
<1>9. CASE cpu_switch_to
  BY <1>1, <1>8, <1>9 DEF TypeOK, cpu_switch_to, clear_task_resched, curr_after,
     schedule_tail, fork, queue
<1>10. CASE keep_running
  BY <1>1, <1>8, <1>10 DEF TypeOK, keep_running, clear_task_resched, fork, queue, who
<1>11. CASE switch_wild
  BY <1>1, <1>8, <1>11 DEF TypeOK, switch_wild, clear_task_resched, fork, queue, who
<1> QED BY <1>3, <1>4, <1>5, <1>6, <1>7, <1>9, <1>10, <1>11

(* do_fork(), wake_up_process() and schedule() around __schedule().        *)
LEMMA TypeCalls ==
  ASSUME TypeOK,
         \/ kernel_main \/ fork_page \/ fork_slot \/ fork_count \/ fork_load
         \/ fork_store \/ fork_table \/ SET_LINKS \/ wake_up_process
         \/ enqueue_add \/ enqueue_count \/ schedule \/ schedule_return
         \/ set_sleep \/ call_wake
  PROVE  TypeOK'
<1> DEFINE Locals == [p : Page \cup {NULL}, pid : 0 .. NR_TASK - 1,
                      given : Nat, reg : Nat, next : Pointer]
<1>1. /\ cur \in Task /\ init_task \in Task /\ rq_head \in Node
      /\ NULL \in Pointer /\ Page \subseteq Task
      /\ loc \in [Task -> Locals] /\ loc[cur] \in Locals
      /\ child \in Page \cup {NULL}
      /\ count \in [Task -> Nat] /\ count[cur] \in Nat
      /\ irqOn \in BOOLEAN /\ base \in [Task -> BasePC]
  BY DEF TypeOK, Task, Node, Pointer, child
<1>2. ASSUME NEW pc \in BasePC, Goto(pc)
      PROVE  base' \in [Task -> BasePC]
  BY <1>1, <1>2 DEF Goto
<1>3. ASSUME Return
      PROVE  /\ base' \in [Task -> BasePC] /\ loc' \in [Task -> Locals]
             /\ irqOn' \in BOOLEAN
  <2>1. Home(cur) \in BasePC
    BY DEF Home, BasePC
  <2>2. NoLocals \in Locals
    BY <1>1, SchedAssumption, SMTT(30) DEF NoLocals
  <2> QED BY <1>1, <1>2, <1>3, <2>1, <2>2 DEF Return
<1>4. ASSUME Mask PROVE irqOn' \in BOOLEAN
  BY <1>1, <1>4 DEF Mask
<1>5. CASE kernel_main
  <2>1. base' \in [Task -> BasePC]
    BY <1>2, <1>5 DEF kernel_main, BasePC
  <2>2. irqOn' \in BOOLEAN /\ forks' \in Nat
    BY <1>4, <1>5, SMTT(30) DEF TypeOK, kernel_main
  <2> QED BY <1>5, <2>1, <2>2 DEF TypeOK, kernel_main, queue, who
<1>6. CASE fork_page
  <2>1. mem_map' \in [PA!MapIndex -> {0, 1}]
    <3>1. PICK r : PA!get_free_page(r)
      BY <1>6 DEF fork_page
    <3>2. \/ \E i \in PA!MapIndex : mem_map' = [mem_map EXCEPT ![i] = 1]
          \/ mem_map' = mem_map
      BY <3>1 DEF PA!get_free_page
    <3>3. mem_map \in [PA!MapIndex -> {0, 1}]
      BY DEF TypeOK
    <3> QED BY <3>2, <3>3
  <2>2. /\ base' \in [Task -> BasePC] /\ loc' \in [Task -> Locals]
        /\ irqOn' \in BOOLEAN
    <3>1. CASE Return
      BY <1>3, <3>1
    <3>2. ASSUME NEW p \in Page, loc' = [loc EXCEPT ![cur].p = p],
                 Goto("f_slot"), UNCHANGED irqOn
          PROVE  /\ base' \in [Task -> BasePC] /\ loc' \in [Task -> Locals]
                 /\ irqOn' \in BOOLEAN
      BY <1>1, <1>2, <3>2 DEF BasePC
    <3> QED BY <1>6, <3>1, <3>2 DEF fork_page
  <2> QED BY <1>6, <2>1, <2>2 DEF TypeOK, fork_page, queue, who
<1>7. CASE fork_slot
  <2>1. CASE Return /\ UNCHANGED <<ctx, state, need_resched, preempt_count>>
    BY <1>3, <1>7, <2>1 DEF TypeOK, fork_slot, fork, queue
  <2>2. ASSUME NEW pid \in 0 .. NR_TASK - 1, loc' = [loc EXCEPT ![cur].pid = pid],
               copy_thread(child), Goto("f_count"), UNCHANGED irqOn
        PROVE  TypeOK'
    <3>1. base' \in [Task -> BasePC] /\ loc' \in [Task -> Locals]
      BY <1>1, <1>2, <2>2 DEF BasePC
    <3>2. /\ ctx' \in [Task -> {"none", "ret_from_fork", "switched"}]
          /\ state' \in [Task -> {TASK_RUNNING, TASK_INTERRUPTIBLE}]
          /\ need_resched' \in [Task -> {0, 1}]
          /\ preempt_count' \in [Task -> Int]
      <4>1. /\ ctx \in [Task -> {"none", "ret_from_fork", "switched"}]
            /\ state \in [Task -> {TASK_RUNNING, TASK_INTERRUPTIBLE}]
            /\ need_resched \in [Task -> {0, 1}]
            /\ preempt_count \in [Task -> Int]
        BY DEF TypeOK
      <4>2. ctx' \in [Task -> {"none", "ret_from_fork", "switched"}]
        BY <2>2, <4>1 DEF copy_thread
      <4>3. state' \in [Task -> {TASK_RUNNING, TASK_INTERRUPTIBLE}]
        BY <2>2, <4>1 DEF copy_thread
      <4>4. need_resched' \in [Task -> {0, 1}]
        BY <2>2, <4>1 DEF copy_thread
      <4>5. preempt_count' \in [Task -> Int]
        <5>1. preempt_count' = [preempt_count EXCEPT ![child] = 0]
          BY <2>2 DEF copy_thread
        <5>2. preempt_count \in [Task -> Int]
          BY <4>1
        <5>3. [preempt_count EXCEPT ![child] = 0] \in [Task -> Int]
          <6>1. 0 \in Int
            BY SMTT(30)
          <6> QED BY <5>2, <6>1, ExceptType
        <5> QED BY <5>1, <5>3
      <4> QED BY <4>2, <4>3, <4>4, <4>5
    <3> QED BY <1>7, <2>2, <3>1, <3>2 DEF TypeOK, fork_slot, fork, queue
  <2> QED BY <1>7, <2>1, <2>2 DEF fork_slot
<1>8. CASE fork_count
  <2>1. (count[cur] + 1) \div 2 \in Nat
    BY <1>1, SMTT(30)
  <2>2. base' \in [Task -> BasePC] /\ loc' \in [Task -> Locals]
    BY <1>1, <1>2, <1>8 DEF fork_count, BasePC
  <2>3. count' \in [Task -> Nat]
    BY <1>1, <1>8, <2>1 DEF fork_count
  <2> QED BY <1>8, <2>2, <2>3 DEF TypeOK, fork_count, fork, queue, who
<1>9. CASE fork_load
  <2>1. base' \in [Task -> BasePC] /\ loc' \in [Task -> Locals]
    BY <1>1, <1>2, <1>9 DEF fork_load, BasePC
  <2> QED BY <1>9, <2>1 DEF TypeOK, fork_load, fork, queue, who
<1>10. CASE fork_store
  <2>1. halved(loc[cur].reg) \in Nat
    BY <1>1, SMTT(30) DEF halved
  <2>2. base' \in [Task -> BasePC]
    BY <1>2, <1>10 DEF fork_store, BasePC
  <2>3. count' \in [Task -> Nat]
    BY <1>1, <1>10, <2>1 DEF fork_store
  <2> QED BY <1>10, <2>2, <2>3 DEF TypeOK, fork_store, fork, queue, who
<1>11. CASE fork_table
  <2>1. base' \in [Task -> BasePC]
    BY <1>2, <1>11 DEF fork_table, BasePC
  <2>2. g_task' \in [0 .. NR_TASK - 1 -> Task \cup {NULL}]
    BY <1>1, <1>11 DEF TypeOK, fork_table
  <2> QED BY <1>11, <2>1, <2>2 DEF TypeOK, fork_table, queue, who
<1>12. CASE SET_LINKS
  <2>1. PICK k \in 1 .. 4 : /\ links' = set_links_store(links, child, k)
                            /\ Goto(LinkPC[k + 1])
    BY <1>12 DEF SET_LINKS
  <2>2. k = 1 \/ k = 2 \/ k = 3 \/ k = 4
    BY SMTT(30)
  <2>3. base' \in [Task -> BasePC]
    BY <1>2, <2>1, <2>2, SMTT(30) DEF LinkPC, BasePC
  <2>4. links' \in [next : [Task -> Task \cup {NULL}],
                    prev : [Task -> Task \cup {NULL}]]
    BY <1>1, <2>1, <2>2 DEF TypeOK, set_links_store
  <2> QED BY <1>12, <2>3, <2>4 DEF TypeOK, SET_LINKS, queue, who
<1>13. CASE wake_up_process
  <2>1. /\ run_list.next[rq_head] \in Pointer
        /\ state' \in [Task -> {TASK_RUNNING, TASK_INTERRUPTIBLE}]
    BY <1>1, <1>13 DEF TypeOK, wake_up_process
  <2>2. base' \in [Task -> BasePC] /\ loc' \in [Task -> Locals]
    BY <1>1, <1>2, <1>13, <2>1 DEF wake_up_process, BasePC
  <2> QED BY <1>13, <2>1, <2>2 DEF TypeOK, wake_up_process, fork, queue, who
<1>14. CASE enqueue_add
  <2>1. PICK k \in 1 .. 4 :
          /\ run_list' = list_add_store(run_list, child, rq_head, loc[cur].next, k)
          /\ Goto(AddPC[k + 1])
    BY <1>14 DEF enqueue_add
  <2>2. k = 1 \/ k = 2 \/ k = 3 \/ k = 4
    BY SMTT(30)
  <2>3. base' \in [Task -> BasePC]
    BY <1>2, <2>1, <2>2, SMTT(30) DEF AddPC, BasePC
  <2>4. run_list' \in [next : [Node -> Pointer], prev : [Node -> Pointer]]
    BY <1>1, <2>1, TypeList
  <2> QED BY <1>14, <2>3, <2>4 DEF TypeOK, enqueue_add, fork, who
<1>15. CASE enqueue_count
  <2>1. nr_running' \in Int
    BY <1>15, SMTT(30) DEF TypeOK, enqueue_count
  <2> QED BY <1>3, <1>15, <2>1 DEF TypeOK, enqueue_count, fork, who
<1>16. CASE schedule
  <2>1. base' \in [Task -> BasePC] /\ preempt_count' \in [Task -> Int]
    BY <1>2, <1>16, SMTT(30) DEF TypeOK, schedule, preempt_disable, BasePC
  <2> QED BY <1>16, <2>1 DEF TypeOK, schedule, fork, queue, who
<1>17. CASE schedule_return
  <2>1. base' \in [Task -> BasePC] /\ preempt_count' \in [Task -> Int]
    BY <1>2, <1>17, SMTT(30) DEF TypeOK, schedule_return, preempt_enable, BasePC
  <2> QED BY <1>17, <2>1 DEF TypeOK, schedule_return, fork, queue, who
<1>18. CASE set_sleep
  BY <1>18 DEF TypeOK, set_sleep, fork, queue, who
<1>19. CASE call_wake
  <2>1. base' \in [Task -> BasePC] /\ loc' \in [Task -> Locals]
    BY <1>1, <1>2, <1>19, SMTT(30) DEF call_wake, BasePC
  <2>2. irqOn' \in BOOLEAN
    BY <1>4, <1>19 DEF call_wake
  <2> QED BY <1>19, <2>1, <2>2 DEF TypeOK, call_wake, fork, queue, who
<1> QED BY <1>5, <1>6, <1>7, <1>8, <1>9, <1>10, <1>11, <1>12, <1>13, <1>14,
           <1>15, <1>16, <1>17, <1>18, <1>19

(* Every variable keeps its type, for every size of the system.            *)
THEOREM TypeCorrect == Spec => []TypeOK
<1>1. TypeOK /\ [Next]_vars => TypeOK'
  <2>1. ASSUME TypeOK, UNCHANGED vars PROVE TypeOK'
    BY <2>1 DEF TypeOK, vars
  <2>2. stopped => UNCHANGED vars
    BY DEF stopped
  <2> QED BY <2>1, <2>2, TypeIrq, TypeSchedule, TypeCalls DEF Next, Kernel, Client
<1> QED BY <1>1, TypeInit, PTL DEF Spec
------------------------------------------------------------------------------
(* No pointer by which the pick loop moves or chooses is init_task.        *)
InitUnqueued ==
  /\ \A n \in Node : run_list.next[n] # init_task
  /\ \A t \in Task : loc[t].next # init_task
  /\ pick.at = "scan" => pick.tmp # init_task
  /\ pick.next # init_task

LEMMA PageFacts ==
  /\ Page \subseteq Nat \ {0}
  /\ Page \subseteq Task /\ Task \subseteq Node /\ init_task \in Task
  /\ init_task \notin Page /\ rq_head \notin Task /\ rq_head \in Node
  /\ NULL \notin Node /\ UNINIT \notin Node /\ LIST_POISON \notin Node
  BY SchedAssumption, SMTT(30)
  DEF Page, PA!Page, PA!MapIndex, Task, Node, init_task, rq_head, NULL, UNINIT,
      LIST_POISON

LEMMA UnqueuedInit == Init => InitUnqueued
  BY PageFacts, SMTT(30)
  DEF Init, InitUnqueued, sched_init, INIT_LIST_HEAD, Unlinked, NoLocals,
      NoPick, NULL, UNINIT, init_task, rq_head

(* Which steps touch the run list, the locals and the pick loop.           *)
LEMMA Frames ==
  ASSUME [Next]_vars
  PROVE  /\ UNCHANGED run_list \/ __schedule \/ enqueue_add
         /\ \/ UNCHANGED loc \/ fork_page \/ fork_slot \/ fork_count
            \/ fork_load \/ wake_up_process \/ enqueue_count \/ call_wake
         /\ \/ UNCHANGED pick \/ __schedule \/ pick_scan \/ pick_scanned
            \/ reset_score \/ reset_done \/ cpu_switch_to \/ keep_running
         /\ UNCHANGED cur \/ cpu_switch_to
  BY DEF Next, Kernel, Client, vars, fork, queue, who, el1_irq, preempt_return,
     __schedule, pick_scan, pick_scanned, reset_score, reset_done,
     cpu_switch_to, keep_running, switch_wild, schedule_return, kernel_main,
     fork_page, fork_slot, fork_count, fork_load, fork_store, fork_table,
     SET_LINKS, wake_up_process, enqueue_add, enqueue_count, schedule,
     set_sleep, call_wake, stopped

LEMMA UnqueuedStep ==
  ASSUME TypeOK, InitUnqueued, [Next]_vars
  PROVE  InitUnqueued'
<1> DEFINE NextOK == \A n \in Node : run_list'.next[n] # init_task
           LocOK == \A t \in Task : loc'[t].next # init_task
           PickOK == /\ pick'.at = "scan" => pick'.tmp # init_task
                     /\ pick'.next # init_task
<1> SUFFICES NextOK /\ LocOK /\ PickOK
  BY DEF InitUnqueued
<1>1. /\ run_list \in [next : [Node -> Pointer], prev : [Node -> Pointer]]
      /\ cur \in Task /\ child \in Page \cup {NULL}
      /\ loc \in [Task -> [p : Page \cup {NULL}, pid : 0 .. NR_TASK - 1,
                           given : Nat, reg : Nat, next : Pointer]]
      /\ pick \in [at : {"none", "scan", "reset", "switch"},
                   tmp : Pointer, c : Int, next : Task \cup {UNINIT}]
  BY DEF TypeOK, child
<1>2. /\ LIST_POISON # init_task /\ rq_head # init_task /\ UNINIT # init_task
      /\ child # init_task /\ NULL # init_task
  BY <1>1, PageFacts DEF LIST_POISON, rq_head, UNINIT, init_task, NULL
<1>3. NextOK
  <2>1. CASE UNCHANGED run_list
    BY <2>1 DEF InitUnqueued
  <2>2. CASE __schedule
    <3>1. UNCHANGED run_list \/ run_list' = list_del(run_list, cur)
      BY <2>2 DEF __schedule, dequeue_task_simple, queue
    <3>2. ASSUME NEW n \in Node
          PROVE  list_del(run_list, cur).next[n] # init_task
      BY <1>1, <1>2, PageFacts DEF InitUnqueued, list_del, __list_del
    <3> QED BY <2>1, <3>1, <3>2
  <2>3. CASE enqueue_add
    <3>1. PICK k \in 1 .. 4 :
            run_list' = list_add_store(run_list, child, rq_head, loc[cur].next, k)
      BY <2>3 DEF enqueue_add
    <3>2. loc[cur].next # init_task
      BY <1>1 DEF InitUnqueued
    <3>3. k = 1 \/ k = 2 \/ k = 3 \/ k = 4
      BY SMTT(30)
    <3> QED BY <1>1, <1>2, <3>1, <3>2, <3>3 DEF InitUnqueued, list_add_store
  <2> QED BY <2>1, <2>2, <2>3, Frames
<1>4. LocOK
  <2>1. run_list.next[rq_head] # init_task
    BY PageFacts DEF InitUnqueued
  <2>2. NoLocals.next # init_task
    BY <1>2 DEF NoLocals
  <2>3. CASE loc' = [loc EXCEPT ![cur] = NoLocals]
    BY <1>1, <2>2, <2>3 DEF InitUnqueued
  <2>4. CASE wake_up_process
    BY <1>1, <2>1, <2>4 DEF InitUnqueued, wake_up_process
  <2>5. CASE fork_count
    BY <1>1, <2>5 DEF InitUnqueued, fork_count
  <2>6. CASE fork_load
    BY <1>1, <2>6 DEF InitUnqueued, fork_load
  <2>7. ASSUME NEW v, loc' = [loc EXCEPT ![cur].p = v] \/ loc' = [loc EXCEPT ![cur].pid = v]
        PROVE  LocOK
    BY <1>1, <2>7, SMTT(30) DEF InitUnqueued
  <2>8. CASE UNCHANGED loc
    BY <2>8 DEF InitUnqueued
  <2> HIDE DEF LocOK
  <2>9. CASE fork_page \/ fork_slot \/ enqueue_count \/ call_wake
    BY <2>3, <2>7, <2>9 DEF fork_page, fork_slot, enqueue_count, call_wake, Return
  <2> QED BY <2>4, <2>5, <2>6, <2>8, <2>9, Frames
<1>5. PickOK
  <2>1. CASE UNCHANGED pick
    BY <2>1 DEF InitUnqueued
  <2>2. CASE __schedule
    BY <1>2, <1>3, <2>2, PageFacts DEF __schedule, repeat
  <2>3. CASE pick_scan
    <3>1. pick.tmp # init_task /\ pick.next # init_task
      BY <2>3 DEF InitUnqueued, pick_scan
    <3>2. pick.tmp \in Task => run_list.next[pick.tmp] # init_task
      BY PageFacts DEF InitUnqueued
    <3> QED BY <1>1, <2>3, <3>1, <3>2 DEF pick_scan
  <2>4. CASE pick_scanned
    BY <1>1, <2>4 DEF InitUnqueued, pick_scanned, when_spent
  <2>5. CASE reset_score
    BY <1>1, <2>5 DEF InitUnqueued, reset_score
  <2>6. CASE reset_done
    BY <1>1, <2>6, PageFacts DEF InitUnqueued, reset_done, repeat
  <2>7. CASE cpu_switch_to \/ keep_running
    BY <1>2, <2>7, SMTT(30) DEF cpu_switch_to, keep_running, NoPick
  <2> QED BY <2>1, <2>2, <2>3, <2>4, <2>5, <2>6, <2>7, Frames
<1> QED BY <1>3, <1>4, <1>5

(* init_task is never queued, so no switch ever goes back to it: once      *)
(* kernel_main is switched out it does not run again.                      *)
THEOREM InitStaysOut == Spec => InitNeverResumes
<1>1. ASSUME TypeOK, InitUnqueued, [Next]_vars
      PROVE  [cur # init_task => cur' # init_task]_vars
  BY <1>1, Frames DEF InitUnqueued, cpu_switch_to
<1>2. Spec => []InitUnqueued
  BY TypeCorrect, UnqueuedInit, UnqueuedStep, PTL DEF Spec
<1> QED BY <1>1, <1>2, TypeCorrect, PTL DEF Spec, InitNeverResumes
------------------------------------------------------------------------------
(* Pages whose task_struct copy_thread has not written yet.                *)
Fresh == {t \in Page : ctx[t] = "none"}

ForkPC == {"main", "f_page", "f_slot", "f_count", "f_load", "f_store",
           "f_table", "link1", "link2", "link3", "link4"}

(* Where loc[t].p is a task that has been written.                         *)
ChildPC == {"f_count", "f_load", "f_store", "f_table", "link1", "link2",
            "link3", "link4", "wake", "add1", "add2", "add3", "add4",
            "nr_running"}

FreshIdle == \A t \in Fresh : /\ base[t] = "body" /\ traps[t] = <<>>
                              /\ state[t] = TASK_RUNNING

FreeIsFresh == \A i \in PA!MapIndex : mem_map[i] = 0 => LOW_MEMORY + i \in Fresh

(* No fresh page runs, is queued or is about to be picked.                 *)
FreshUnreached ==
  /\ cur \notin Fresh
  /\ \A n \in Node : run_list.next[n] \notin Fresh
  /\ \A t \in Task : links.next[t] \notin Fresh /\ loc[t].next \notin Fresh
  /\ pick.tmp \notin Fresh /\ pick.next \notin Fresh

OnlyInitForks == \A t \in Task : base[t] \in ForkPC => t = init_task

(* The page of a fork in progress: fresh and taken, then written.          *)
ForkedPage ==
  \A t \in Task :
    /\ base[t] = "f_slot" =>
         /\ loc[t].p \in Fresh
         /\ \A i \in PA!MapIndex : loc[t].p = LOW_MEMORY + i => mem_map[i] # 0
    /\ base[t] \in ChildPC => loc[t].p \in Page \ Fresh

(* At most one scheduler call on a stack, and preempt_count says so.       *)
OneFrame ==
  \A t \in Task :
    \/ /\ Disabled(t) = 0
       /\ \/ traps[t] = <<>> /\ preempt_count[t] = 0
          \/ traps[t] \in {<<"enter">>, <<"leave">>} /\ preempt_count[t] = 1
    \/ Disabled(t) = 1 /\ traps[t] = <<>> /\ preempt_count[t] = 1

PreemptInv == /\ TypeOK /\ FreshIdle /\ FreeIsFresh /\ FreshUnreached
              /\ OnlyInitForks /\ ForkedPage /\ OneFrame
------------------------------------------------------------------------------
(* A step moves the control and writes the locals of cur only.             *)
LEMMA OthersStay ==
  ASSUME TypeOK, [Next]_vars, NEW t \in Task, t # cur
  PROVE  base'[t] = base[t] /\ traps'[t] = traps[t] /\ loc'[t] = loc[t]
<1>1. /\ base \in [Task -> BasePC] /\ cur \in Task
      /\ traps \in [Task -> Seq({"enter", "leave"})]
      /\ loc \in [Task -> [p : Page \cup {NULL}, pid : 0 .. NR_TASK - 1,
                           given : Nat, reg : Nat, next : Pointer]]
  BY DEF TypeOK
<1>2. base'[t] = base[t]
  <2>1. UNCHANGED base \/ \E pc : base' = [base EXCEPT ![cur] = pc]
    BY DEF Next, Kernel, Client, vars, fork, queue, who, el1_irq, preempt_return,
     __schedule, pick_scan, pick_scanned, reset_score, reset_done,
     cpu_switch_to, keep_running, switch_wild, schedule_return, kernel_main,
     fork_page, fork_slot, fork_count, fork_load, fork_store, fork_table,
     SET_LINKS, wake_up_process, enqueue_add, enqueue_count, schedule,
     set_sleep, call_wake, stopped, Goto, Return
  <2> QED BY <1>1, <2>1
<1>3. traps'[t] = traps[t]
  <2>1. UNCHANGED traps \/ \E s : traps' = [traps EXCEPT ![cur] = s]
    BY DEF Next, Kernel, Client, vars, fork, queue, who, el1_irq, preempt_return,
     __schedule, pick_scan, pick_scanned, reset_score, reset_done,
     cpu_switch_to, keep_running, switch_wild, schedule_return, kernel_main,
     fork_page, fork_slot, fork_count, fork_load, fork_store, fork_table,
     SET_LINKS, wake_up_process, enqueue_add, enqueue_count, schedule,
     set_sleep, call_wake, stopped
  <2> QED BY <1>1, <2>1
<1>4. loc'[t] = loc[t]
  BY <1>1, Frames DEF fork_page, fork_slot, fork_count, fork_load,
     wake_up_process, enqueue_count, call_wake, Return
<1> QED BY <1>2, <1>3, <1>4

(* More of what a step may touch.                                          *)
LEMMA MoreFrames ==
  ASSUME [Next]_vars
  PROVE  /\ UNCHANGED ctx \/ fork_slot \/ cpu_switch_to
         /\ UNCHANGED mem_map \/ fork_page
         /\ UNCHANGED links \/ SET_LINKS
         /\ UNCHANGED state \/ fork_slot \/ wake_up_process \/ set_sleep
         /\ \/ UNCHANGED preempt_count \/ el1_irq \/ preempt_return \/ fork_slot
            \/ schedule \/ schedule_return
  BY DEF Next, Kernel, Client, vars, fork, queue, who, el1_irq, preempt_return,
     __schedule, pick_scan, pick_scanned, reset_score, reset_done,
     cpu_switch_to, keep_running, switch_wild, schedule_return, kernel_main,
     fork_page, fork_slot, fork_count, fork_load, fork_store, fork_table,
     SET_LINKS, wake_up_process, enqueue_add, enqueue_count, schedule,
     set_sleep, call_wake, stopped

(* A page stops being fresh when copy_thread writes it, and never becomes  *)
(* fresh again.                                                            *)
LEMMA FreshShrinks ==
  ASSUME PreemptInv, [Next]_vars
  PROVE  /\ Fresh' \subseteq Fresh
         /\ \/ Fresh' = Fresh
            \/ /\ fork_slot /\ base[cur] = "f_slot"
               /\ Fresh' = Fresh \ {loc[cur].p}
<1>1. /\ ctx \in [Task -> {"none", "ret_from_fork", "switched"}]
      /\ cur \in Task /\ cur \notin Fresh /\ Page \subseteq Task
  BY PageFacts DEF PreemptInv, TypeOK, FreshUnreached
<1>2. CASE UNCHANGED ctx
  BY <1>2 DEF Fresh
<1>3. CASE cpu_switch_to
  <2>1. ctx' = [ctx EXCEPT ![cur] = "switched"]
    BY <1>3 DEF cpu_switch_to
  <2> QED BY <1>1, <2>1 DEF Fresh
<1>4. CASE fork_slot
  <2>1. UNCHANGED ctx \/ ctx' = [ctx EXCEPT ![loc[cur].p] = "ret_from_fork"]
    BY <1>4 DEF fork_slot, copy_thread, child
  <2>2. base[cur] = "f_slot"
    BY <1>4 DEF fork_slot, Running
  <2> QED BY <1>1, <1>2, <1>4, <2>1, <2>2 DEF Fresh
<1> QED BY <1>2, <1>3, <1>4, MoreFrames

LEMMA FreshIdleStep ==
  ASSUME PreemptInv, [Next]_vars
  PROVE  FreshIdle'
<1> SUFFICES ASSUME NEW t \in Fresh'
             PROVE  /\ base'[t] = "body" /\ traps'[t] = <<>>
                    /\ state'[t] = TASK_RUNNING
  BY DEF FreshIdle
<1>1. t \in Fresh /\ t \in Task /\ t # cur
  BY FreshShrinks, PageFacts DEF PreemptInv, FreshUnreached, Fresh
<1>2. base'[t] = "body" /\ traps'[t] = <<>>
  BY <1>1, OthersStay DEF PreemptInv, FreshIdle
<1>3. state'[t] = TASK_RUNNING
  <2>1. state[t] = TASK_RUNNING /\ state \in [Task -> {TASK_RUNNING, TASK_INTERRUPTIBLE}]
    BY <1>1 DEF PreemptInv, FreshIdle, TypeOK
  <2> QED BY <1>1, <2>1, MoreFrames
          DEF fork_slot, wake_up_process, set_sleep, copy_thread
<1> QED BY <1>2, <1>3

LEMMA FreeIsFreshStep ==
  ASSUME PreemptInv, [Next]_vars
  PROVE  FreeIsFresh'
<1> SUFFICES ASSUME NEW i \in PA!MapIndex, mem_map'[i] = 0
             PROVE  LOW_MEMORY + i \in Fresh'
  BY DEF FreeIsFresh
<1>1. mem_map[i] = 0
  <2>1. CASE fork_page
    <3>1. PICK r : PA!get_free_page(r)
      BY <2>1 DEF fork_page
    <3>2. mem_map \in [PA!MapIndex -> {0, 1}]
      BY DEF PreemptInv, TypeOK
    <3> QED BY <3>1, <3>2 DEF PA!get_free_page
  <2> QED BY <2>1, MoreFrames
<1>2. LOW_MEMORY + i \in Fresh
  BY <1>1 DEF PreemptInv, FreeIsFresh
<1>3. base[cur] = "f_slot" => loc[cur].p # LOW_MEMORY + i
  BY <1>1 DEF PreemptInv, ForkedPage, TypeOK
<1> QED BY <1>2, <1>3, FreshShrinks

LEMMA OnlyInitForksStep ==
  ASSUME PreemptInv, [Next]_vars
  PROVE  OnlyInitForks'
<1> SUFFICES ASSUME NEW t \in Task, base'[t] \in ForkPC
             PROVE  t = init_task
  BY DEF OnlyInitForks
<1>1. CASE t # cur
  BY <1>1, OthersStay DEF PreemptInv, OnlyInitForks
<1>2. CASE t = cur /\ base[t] \in ForkPC
  BY <1>2 DEF PreemptInv, OnlyInitForks
<1>3. CASE t = cur /\ base[t] \notin ForkPC
  <2>1. base \in [Task -> BasePC] /\ base'[t] # base[t]
    BY <1>3 DEF PreemptInv, TypeOK
  <2>2. ~(\/ kernel_main \/ fork_page \/ fork_slot \/ fork_count \/ fork_load
          \/ fork_store \/ fork_table)
    BY <1>3 DEF ForkPC, Running, kernel_main, fork_page, fork_slot, fork_count,
       fork_load, fork_store, fork_table
  <2>3. ~SET_LINKS
    <3> SUFFICES ASSUME NEW k \in 1 .. 4, Running(LinkPC[k]) PROVE FALSE
      BY DEF SET_LINKS
    <3>1. k = 1 \/ k = 2 \/ k = 3 \/ k = 4
      BY SMTT(30)
    <3> QED BY <1>3, <3>1, SMTT(30) DEF Running, LinkPC, ForkPC
  <2>4. \/ Goto("sched_leave") \/ Goto("sched_enter") \/ Goto("body")
        \/ Goto(Home(cur)) \/ Goto("wake") \/ Goto("add1") \/ enqueue_add
    BY <1>3, <2>1, <2>2, <2>3 DEF Return, Next, Kernel, Client, vars, fork, queue,
       who, el1_irq, preempt_return, __schedule, pick_scan, pick_scanned,
       reset_score, reset_done, cpu_switch_to, keep_running, switch_wild,
       schedule_return, wake_up_process, enqueue_count, schedule, set_sleep,
       call_wake, stopped
  <2>5. enqueue_add => base'[cur] \in {"add2", "add3", "add4", "nr_running"}
    BY <1>3, <2>1, SMTT(30) DEF enqueue_add, Goto, AddPC
  <2> QED BY <1>3, <2>1, <2>4, <2>5 DEF Goto, Home, ForkPC
<1> QED BY <1>1, <1>2, <1>3

LEMMA ForkedPageStep ==
  ASSUME PreemptInv, [Next]_vars
  PROVE  ForkedPage'
<1> DEFINE OK(t) ==
      /\ base'[t] = "f_slot" =>
           /\ loc'[t].p \in Fresh'
           /\ \A i \in PA!MapIndex : loc'[t].p = LOW_MEMORY + i => mem_map'[i] # 0
      /\ base'[t] \in ChildPC => loc'[t].p \in Page \ Fresh'
<1> SUFFICES ASSUME NEW t \in Task PROVE OK(t)
  BY DEF ForkedPage
<1>1. /\ base \in [Task -> BasePC] /\ cur \in Task
      /\ loc \in [Task -> [p : Page \cup {NULL}, pid : 0 .. NR_TASK - 1,
                           given : Nat, reg : Nat, next : Pointer]]
      /\ mem_map \in [PA!MapIndex -> {0, 1}]
  BY DEF PreemptInv, TypeOK
<1>2. \A i \in PA!MapIndex : mem_map[i] # 0 => mem_map'[i] # 0
  <2>1. CASE fork_page
    <3>1. PICK r : PA!get_free_page(r)
      BY <2>1 DEF fork_page
    <3> QED BY <1>1, <3>1 DEF PA!get_free_page
  <2> QED BY <2>1, MoreFrames
<1>3. /\ base[t] = "f_slot" =>
           /\ loc[t].p \in Fresh
           /\ \A i \in PA!MapIndex : loc[t].p = LOW_MEMORY + i => mem_map[i] # 0
      /\ base[t] \in ChildPC => loc[t].p \in Page \ Fresh
  BY DEF PreemptInv, ForkedPage
<1>4. CASE t # cur
  <2>1. base'[t] = base[t] /\ loc'[t] = loc[t]
    BY <1>4, OthersStay DEF PreemptInv
  <2>2. base[t] = "f_slot" => base[cur] # "f_slot"
    BY <1>1, <1>4 DEF PreemptInv, OnlyInitForks, ForkPC
  <2> QED BY <1>2, <1>3, <2>1, <2>2, FreshShrinks
<1>5. CASE t = cur /\ UNCHANGED base /\ UNCHANGED loc
  <2>1. ~fork_slot
    <3> SUFFICES ASSUME fork_slot PROVE FALSE
      OBVIOUS
    <3>1. base[cur] = "f_slot" /\ (Goto(Home(cur)) \/ Goto("f_count"))
      BY DEF fork_slot, Running, Return
    <3>2. base'[cur] \in {"main", "body", "f_count"}
      BY <1>1, <3>1 DEF Goto, Home
    <3> QED BY <1>5, <3>1, <3>2
  <2> QED BY <1>2, <1>3, <1>5, <2>1, FreshShrinks
<1>6. CASE t = cur /\ fork_page
  <2>1. CASE Return
    BY <1>1, <1>6, <2>1 DEF Return, Goto, Home, ChildPC
  <2>2. ASSUME NEW p \in Page, PA!get_free_page(p),
               loc' = [loc EXCEPT ![cur].p = p], Goto("f_slot")
        PROVE  OK(t)
    <3>1. base'[cur] = "f_slot" /\ loc'[cur].p = p
      BY <1>1, <2>2 DEF Goto
    <3>2. PICK i \in PA!MapIndex : /\ mem_map[i] = 0 /\ p = LOW_MEMORY + i
                                   /\ mem_map' = [mem_map EXCEPT ![i] = 1]
      BY <2>2, PageFacts DEF PA!get_free_page
    <3>3. p \in Fresh
      BY <3>2 DEF PreemptInv, FreeIsFresh
    <3>4. base[cur] # "f_slot"
      BY <1>6 DEF fork_page, Running
    <3>5. \A j \in PA!MapIndex : p = LOW_MEMORY + j => mem_map'[j] # 0
      BY <1>1, <3>2, SchedAssumption, SMTT(30) DEF PA!MapIndex
    <3> QED BY <1>6, <3>1, <3>3, <3>4, <3>5, FreshShrinks DEF ChildPC
  <2> QED BY <1>6, <2>1, <2>2 DEF fork_page
<1>7. CASE t = cur /\ fork_slot
  <2>1. CASE Return
    BY <1>1, <1>7, <2>1 DEF Return, Goto, Home, ChildPC
  <2>2. CASE Goto("f_count") /\ copy_thread(child)
             /\ \E pid : loc' = [loc EXCEPT ![cur].pid = pid]
    <3>1. base'[cur] = "f_count" /\ loc'[cur].p = child /\ base[cur] = "f_slot"
      BY <1>1, <1>7, <2>2 DEF Goto, fork_slot, Running, child
    <3>2. child \in Page
      BY <1>3, <1>7, <3>1 DEF child, Fresh
    <3>3. ctx' = [ctx EXCEPT ![child] = "ret_from_fork"]
      BY <2>2 DEF copy_thread
    <3>4. ctx \in [Task -> {"none", "ret_from_fork", "switched"}]
      BY DEF PreemptInv, TypeOK
    <3>5. child \notin Fresh'
      BY <3>2, <3>3, <3>4, PageFacts DEF Fresh
    <3> QED BY <1>7, <3>1, <3>2, <3>5
  <2> QED BY <1>7, <2>1, <2>2 DEF fork_slot
<1>8. CASE t = cur /\ call_wake
  <2>1. PICK p \in Page : state[p] # TASK_RUNNING /\ loc' = [loc EXCEPT ![cur].p = p]
    BY <1>8 DEF call_wake
  <2>2. p \notin Fresh
    BY <2>1 DEF PreemptInv, FreshIdle
  <2>3. base'[cur] = "wake" /\ loc'[cur].p = p
    BY <1>1, <1>8, <2>1 DEF call_wake, Goto
  <2> QED BY <1>8, <2>1, <2>2, <2>3, FreshShrinks
<1>9. CASE t = cur /\ base[t] \in ChildPC /\ base'[t] # "f_slot" /\ loc'[t].p = loc[t].p
  BY <1>3, <1>9, FreshShrinks
<1>10. CASE t = cur /\ base'[t] \in {"main", "body", "sched_enter", "sched_leave", "f_page"}
  BY <1>10 DEF ChildPC
<1>11. CASE t = cur /\ (fork_count \/ fork_load \/ fork_store \/ fork_table \/ wake_up_process)
  <2>1. base[t] \in ChildPC /\ base'[t] # "f_slot" /\ loc'[t].p = loc[t].p
    BY <1>1, <1>11, SMTT(30) DEF fork_count, fork_load, fork_store, fork_table,
       wake_up_process, Running, Goto, ChildPC
  <2> QED BY <1>9, <1>11, <2>1
<1>12. CASE t = cur /\ (SET_LINKS \/ enqueue_add)
  <2>1. PICK k \in 1 .. 4 : \/ Running(LinkPC[k]) /\ Goto(LinkPC[k + 1]) /\ UNCHANGED loc
                            \/ Running(AddPC[k]) /\ Goto(AddPC[k + 1]) /\ UNCHANGED loc
    BY <1>12 DEF SET_LINKS, enqueue_add
  <2>2. k = 1 \/ k = 2 \/ k = 3 \/ k = 4
    BY SMTT(30)
  <2>3. base[t] \in ChildPC /\ base'[t] # "f_slot" /\ loc'[t].p = loc[t].p
    BY <1>1, <1>12, <2>1, <2>2, SMTT(30) DEF Running, Goto, LinkPC, AddPC, ChildPC
  <2> QED BY <1>9, <1>12, <2>3
<1>13. CASE t = cur /\ (\/ kernel_main \/ schedule \/ schedule_return \/ enqueue_count)
  <2>1. base'[t] \in {"main", "body", "sched_enter", "f_page"}
    BY <1>1, <1>13 DEF kernel_main, schedule, schedule_return, enqueue_count,
       Return, Home, Goto
  <2> QED BY <1>10, <1>13, <2>1
<1>14. CASE t = cur /\ __schedule
  <2>1. UNCHANGED loc /\ (UNCHANGED base \/ base'[cur] = "sched_leave")
    BY <1>1, <1>14 DEF __schedule, Goto
  <2> QED BY <1>5, <1>10, <1>14, <2>1
<1>15. CASE t = cur /\ ~(\/ fork_page \/ fork_slot \/ call_wake \/ fork_count
                         \/ fork_load \/ fork_store \/ fork_table
                         \/ wake_up_process \/ SET_LINKS \/ enqueue_add
                         \/ kernel_main \/ schedule \/ schedule_return
                         \/ enqueue_count \/ __schedule)
  <2>1. UNCHANGED base /\ UNCHANGED loc
    BY <1>15 DEF Next, Kernel, Client, vars, el1_irq, preempt_return, pick_scan,
       pick_scanned, reset_score, reset_done, cpu_switch_to, keep_running,
       switch_wild, set_sleep, stopped
  <2> QED BY <1>5, <1>15, <2>1
<1> HIDE DEF OK
<1> QED BY <1>4, <1>6, <1>7, <1>8, <1>11, <1>12, <1>13, <1>14, <1>15

LEMMA FreshUnreachedStep ==
  ASSUME PreemptInv, [Next]_vars
  PROVE  FreshUnreached'
<1>1. /\ run_list \in [next : [Node -> Pointer], prev : [Node -> Pointer]]
      /\ cur \in Task /\ rq_head \in Node
      /\ loc \in [Task -> [p : Page \cup {NULL}, pid : 0 .. NR_TASK - 1,
                           given : Nat, reg : Nat, next : Pointer]]
      /\ links \in [next : [Task -> Task \cup {NULL}],
                    prev : [Task -> Task \cup {NULL}]]
      /\ pick \in [at : {"none", "scan", "reset", "switch"},
                   tmp : Pointer, c : Int, next : Task \cup {UNINIT}]
  BY PageFacts DEF PreemptInv, TypeOK
<1>2. /\ Fresh' \subseteq Fresh
      /\ {init_task, rq_head, NULL, UNINIT, LIST_POISON} \cap Fresh = {}
  BY FreshShrinks, PageFacts, SMTT(30) DEF Fresh, Task, Node
<1>3. /\ cur \notin Fresh
      /\ \A n \in Node : run_list.next[n] \notin Fresh
      /\ \A t \in Task : links.next[t] \notin Fresh /\ loc[t].next \notin Fresh
      /\ pick.tmp \notin Fresh /\ pick.next \notin Fresh
  BY DEF PreemptInv, FreshUnreached
<1>4. base[cur] \in ChildPC => child \notin Fresh
  BY <1>1 DEF PreemptInv, ForkedPage, child
<1>5. cur' \notin Fresh
  BY <1>3, Frames DEF cpu_switch_to
<1>6. \A n \in Node : run_list'.next[n] \notin Fresh
  <2>1. CASE UNCHANGED run_list
    BY <1>3, <2>1
  <2>2. CASE __schedule
    <3>1. UNCHANGED run_list \/ run_list' = list_del(run_list, cur)
      BY <2>2 DEF __schedule, dequeue_task_simple, queue
    <3>2. ASSUME NEW n \in Node
          PROVE  list_del(run_list, cur).next[n] \notin Fresh
      BY <1>1, <1>2, <1>3, PageFacts DEF list_del, __list_del
    <3> QED BY <2>1, <3>1, <3>2
  <2>3. CASE enqueue_add
    <3>1. PICK k \in 1 .. 4 :
            /\ Running(AddPC[k])
            /\ run_list' = list_add_store(run_list, child, rq_head, loc[cur].next, k)
      BY <2>3 DEF enqueue_add
    <3>2. k = 1 \/ k = 2 \/ k = 3 \/ k = 4
      BY SMTT(30)
    <3>3. child \notin Fresh
      BY <1>4, <3>1, <3>2, SMTT(30) DEF Running, AddPC, ChildPC
    <3>4. loc[cur].next \notin Fresh
      BY <1>1, <1>3
    <3> QED BY <1>1, <1>3, <3>1, <3>2, <3>3, <3>4 DEF list_add_store
  <2> QED BY <2>1, <2>2, <2>3, Frames
<1>7. \A t \in Task : links'.next[t] \notin Fresh
  <2>1. CASE SET_LINKS
    <3>1. PICK k \in 1 .. 4 : /\ Running(LinkPC[k])
                              /\ links' = set_links_store(links, child, k)
      BY <2>1 DEF SET_LINKS
    <3>2. k = 1 \/ k = 2 \/ k = 3 \/ k = 4
      BY SMTT(30)
    <3>3. child \notin Fresh
      BY <1>4, <3>1, <3>2, SMTT(30) DEF Running, LinkPC, ChildPC
    <3> QED BY <1>1, <1>2, <1>3, <3>1, <3>2, <3>3 DEF set_links_store
  <2> QED BY <1>3, <2>1, MoreFrames
<1>8. \A t \in Task : loc'[t].next \notin Fresh
  <2> SUFFICES ASSUME NEW t \in Task PROVE loc'[t].next \notin Fresh
    OBVIOUS
  <2>1. CASE t # cur
    BY <1>3, <2>1, OthersStay DEF PreemptInv
  <2>2. CASE t = cur
    <3>1. NoLocals.next \notin Fresh /\ run_list.next[rq_head] \notin Fresh
      BY <1>1, <1>2, <1>3 DEF NoLocals
    <3>2. CASE fork_page \/ fork_slot \/ enqueue_count
      <4>1. \/ loc' = [loc EXCEPT ![cur] = NoLocals]
            \/ \E p : loc' = [loc EXCEPT ![cur].p = p]
            \/ \E i : loc' = [loc EXCEPT ![cur].pid = i]
        BY <3>2 DEF fork_page, fork_slot, enqueue_count, Return
      <4> QED BY <1>1, <1>3, <2>2, <3>1, <4>1, SMTT(30)
    <3>3. CASE fork_count \/ fork_load \/ call_wake
      BY <1>1, <1>3, <2>2, <3>3, SMTT(30) DEF fork_count, fork_load, call_wake
    <3>4. CASE wake_up_process
      BY <1>1, <2>2, <3>1, <3>4 DEF wake_up_process
    <3> QED BY <1>3, <3>2, <3>3, <3>4, Frames
  <2> QED BY <2>1, <2>2
<1>9. pick'.tmp \notin Fresh /\ pick'.next \notin Fresh
  <2>1. CASE __schedule
    BY <1>1, <1>2, <1>6, <2>1 DEF __schedule, repeat
  <2>2. CASE pick_scan
    <3>1. pick.tmp \in Task => run_list.next[pick.tmp] \notin Fresh
      BY <1>3, PageFacts
    <3> QED BY <1>1, <1>3, <2>2, <3>1 DEF pick_scan
  <2>3. CASE pick_scanned
    BY <1>1, <1>3, <2>3, PageFacts DEF pick_scanned, when_spent
  <2>4. CASE reset_score
    BY <1>1, <1>3, <2>4 DEF reset_score
  <2>5. CASE reset_done
    BY <1>1, <1>3, <2>5 DEF reset_done, repeat
  <2>6. CASE cpu_switch_to \/ keep_running
    BY <1>2, <2>6, SMTT(30) DEF cpu_switch_to, keep_running, NoPick
  <2> QED BY <1>3, <2>1, <2>2, <2>3, <2>4, <2>5, <2>6, Frames
<1> QED BY <1>2, <1>5, <1>6, <1>7, <1>8, <1>9 DEF FreshUnreached

(* Frames of preempt_schedule_irq are pushed and popped one at a time.     *)
LEMMA FrameSeqs ==
  /\ <<"enter">> \o <<>> = <<"enter">>
  /\ \A f \in {"enter", "leave"} :
       <<f>> # <<>> /\ Head(<<f>>) = f /\ Tail(<<f>>) = <<>>
  /\ <<"leave">> \o <<>> = <<"leave">>
  BY SMTT(30)

LEMMA OneFrameStep ==
  ASSUME PreemptInv, [Next]_vars
  PROVE  OneFrame'
<1> DEFINE OK(t) ==
      \/ /\ Disabled(t)' = 0
         /\ \/ traps'[t] = <<>> /\ preempt_count'[t] = 0
            \/ traps'[t] \in {<<"enter">>, <<"leave">>} /\ preempt_count'[t] = 1
      \/ Disabled(t)' = 1 /\ traps'[t] = <<>> /\ preempt_count'[t] = 1
<1> SUFFICES ASSUME NEW t \in Task PROVE OK(t)
  BY DEF OneFrame
<1>1. /\ base \in [Task -> BasePC] /\ cur \in Task
      /\ preempt_count \in [Task -> Int]
      /\ traps \in [Task -> Seq({"enter", "leave"})]
  BY DEF PreemptInv, TypeOK
<1>2. \A u \in Task :
        \/ /\ Disabled(u) = 0
           /\ \/ traps[u] = <<>> /\ preempt_count[u] = 0
              \/ traps[u] \in {<<"enter">>, <<"leave">>} /\ preempt_count[u] = 1
        \/ Disabled(u) = 1 /\ traps[u] = <<>> /\ preempt_count[u] = 1
  BY DEF PreemptInv, OneFrame
<1>3. ASSUME base'[t] = base[t] PROVE Disabled(t)' = Disabled(t)
  BY <1>3 DEF Disabled
<1>4. CASE t # cur
  <2>1. base'[t] = base[t] /\ traps'[t] = traps[t]
    BY <1>4, OthersStay DEF PreemptInv
  <2>2. CASE fork_slot /\ t = child
    <3>1. base[cur] = "f_slot" /\ (UNCHANGED preempt_count \/ preempt_count' = [preempt_count EXCEPT ![child] = 0])
      BY <2>2 DEF fork_slot, Running, copy_thread
    <3>2. t \in Fresh
      BY <1>1, <2>2, <3>1 DEF PreemptInv, ForkedPage, child
    <3>3. base[t] = "body" /\ traps[t] = <<>>
      BY <3>2 DEF PreemptInv, FreshIdle
    <3>4. preempt_count[t] = 0 /\ Disabled(t) = 0
      <4>1. Disabled(t) = 0
        BY <3>3 DEF Disabled
      <4>2. <<>> \notin {<<"enter">>, <<"leave">>}
        BY FrameSeqs
      <4> QED BY <1>2, <3>3, <4>1, <4>2
    <3>5. preempt_count'[t] = 0
      BY <1>1, <2>2, <3>1, <3>4
    <3> QED BY <1>3, <2>1, <3>3, <3>4, <3>5
  <2>3. CASE ~(fork_slot /\ t = child)
    <3>1. preempt_count'[t] = preempt_count[t]
      BY <1>1, <1>4, <2>3, MoreFrames DEF el1_irq, preempt_return, fork_slot,
         schedule, schedule_return, preempt_disable, preempt_enable, copy_thread
    <3> QED BY <1>2, <1>3, <2>1, <3>1
  <2> QED BY <2>2, <2>3
<1>5. CASE t = cur /\ el1_irq
  <2>1. UNCHANGED base
    BY <1>5 DEF el1_irq
  <2>2. CASE el1_preempts /\ preempt_disable
             /\ traps' = [traps EXCEPT ![cur] = <<"enter">> \o @]
    <3>1. preempt_count[t] = 0 /\ traps[t] = <<>> /\ Disabled(t) = 0
      BY <1>2, <1>5, <2>2, SMTT(30) DEF el1_preempts
    <3>2. traps'[t] = <<"enter">> /\ preempt_count'[t] = 1
      BY <1>1, <1>5, <2>2, <3>1, FrameSeqs, SMTT(30) DEF preempt_disable
    <3> QED BY <1>3, <2>1, <3>1, <3>2
  <2>3. CASE UNCHANGED <<preempt_count, traps>>
    BY <1>2, <1>3, <2>1, <2>3
  <2> QED BY <1>5, <2>2, <2>3 DEF el1_irq
<1>6. CASE t = cur /\ preempt_return
  <2>1. traps[t] # <<>> /\ UNCHANGED base
    BY <1>6 DEF preempt_return, InPreempt
  <2>2. /\ Disabled(t) = 0 /\ preempt_count[t] = 1
        /\ traps[t] \in {<<"enter">>, <<"leave">>}
    BY <1>2, <2>1
  <2>3. traps'[t] = <<>>
    BY <1>1, <1>6, <2>2, FrameSeqs DEF preempt_return
  <2>4. preempt_count'[t] = 0
    BY <1>1, <1>6, <2>2, SMTT(30) DEF preempt_return, preempt_enable
  <2> QED BY <1>3, <2>1, <2>2, <2>3, <2>4
<1>7. CASE t = cur /\ __schedule
  <2>1. UNCHANGED preempt_count
    BY <1>7 DEF __schedule
  <2>2. CASE /\ InPreempt("enter") /\ UNCHANGED base
             /\ traps' = [traps EXCEPT ![cur] = <<"leave">> \o Tail(@)]
    <3>1. /\ Disabled(t) = 0 /\ preempt_count[t] = 1
          /\ traps[t] \in {<<"enter">>, <<"leave">>}
      BY <1>2, <1>7, <2>2 DEF InPreempt
    <3>2. traps'[t] = <<"leave">>
      BY <1>1, <1>7, <2>2, <3>1, FrameSeqs
    <3> QED BY <1>3, <2>1, <2>2, <3>1, <3>2
  <2>3. CASE Running("sched_enter") /\ Goto("sched_leave") /\ UNCHANGED traps
    <3>1. base[t] = "sched_enter" /\ base'[t] = "sched_leave"
      BY <1>1, <1>7, <2>3 DEF Running, Goto
    <3>2. Disabled(t) = 1 /\ Disabled(t)' = 1
      BY <3>1 DEF Disabled
    <3> QED BY <1>2, <2>1, <2>3, <3>2
  <2> QED BY <1>7, <2>2, <2>3 DEF __schedule
<1>8. CASE t = cur /\ schedule
  <2>1. base[t] = "body" /\ base'[t] = "sched_enter" /\ traps[t] = <<>> /\ UNCHANGED traps
    BY <1>1, <1>8 DEF schedule, Running, Goto
  <2>2. Disabled(t) = 0 /\ Disabled(t)' = 1 /\ preempt_count[t] = 0
    BY <1>2, <2>1, SMTT(30) DEF Disabled
  <2>3. preempt_count'[t] = 1
    BY <1>1, <1>8, <2>2, SMTT(30) DEF schedule, preempt_disable
  <2> QED BY <2>1, <2>2, <2>3
<1>9. CASE t = cur /\ schedule_return
  <2>1. base[t] = "sched_leave" /\ base'[t] = "body" /\ traps[t] = <<>> /\ UNCHANGED traps
    BY <1>1, <1>9 DEF schedule_return, Running, Goto
  <2>2. Disabled(t) = 1 /\ Disabled(t)' = 0 /\ preempt_count[t] = 1
    BY <1>2, <2>1 DEF Disabled
  <2>3. preempt_count'[t] = 0
    BY <1>1, <1>9, <2>2, SMTT(30) DEF schedule_return, preempt_enable
  <2> QED BY <2>1, <2>2, <2>3
<1>10. CASE t = cur /\ ~(\/ el1_irq \/ preempt_return \/ __schedule \/ schedule
                         \/ schedule_return)
  <2>1. preempt_count'[t] = preempt_count[t]
    <3>1. CASE fork_slot
      <4>1. base[cur] = "f_slot"
        BY <3>1 DEF fork_slot, Running
      <4>2. child \in Fresh /\ cur \notin Fresh
        BY <1>1, <4>1 DEF PreemptInv, ForkedPage, FreshUnreached, child
      <4> QED BY <1>1, <1>10, <3>1, <4>2 DEF fork_slot, copy_thread
    <3> QED BY <1>10, <3>1, MoreFrames
  <2>2. UNCHANGED traps
    BY <1>10 DEF Next, Kernel, Client, vars, pick_scan, pick_scanned,
       reset_score, reset_done, cpu_switch_to, keep_running, switch_wild,
       kernel_main, fork_page, fork_slot, fork_count, fork_load, fork_store,
       fork_table, SET_LINKS, wake_up_process, enqueue_add, enqueue_count,
       set_sleep, call_wake, stopped
  <2>3. Disabled(t)' = Disabled(t)
    <3>1. CASE SET_LINKS \/ enqueue_add
      <4>1. PICK k \in 1 .. 4 : \/ Running(LinkPC[k]) /\ Goto(LinkPC[k + 1])
                                \/ Running(AddPC[k]) /\ Goto(AddPC[k + 1])
        BY <3>1 DEF SET_LINKS, enqueue_add
      <4>2. k = 1 \/ k = 2 \/ k = 3 \/ k = 4
        BY SMTT(30)
      <4> QED BY <1>1, <1>10, <4>1, <4>2, SMTT(30) DEF Running, Goto, LinkPC, AddPC, Disabled
    <3>2. CASE \/ kernel_main \/ fork_page \/ fork_slot \/ fork_count \/ fork_load
               \/ fork_store \/ fork_table \/ wake_up_process \/ enqueue_count
               \/ call_wake
      <4>1. base[t] \notin {"sched_enter", "sched_leave"}
        BY <1>10, <3>2 DEF Running, kernel_main, fork_page, fork_slot, fork_count,
           fork_load, fork_store, fork_table, wake_up_process, enqueue_count,
           call_wake
      <4>2. \/ Goto("f_page") \/ Goto("f_slot") \/ Goto("f_count")
            \/ Goto("f_load") \/ Goto("f_store") \/ Goto("f_table")
            \/ Goto("link1") \/ Goto("add1") \/ Goto("wake") \/ Goto(Home(cur))
        BY <3>2 DEF kernel_main, fork_page, fork_slot, fork_count, fork_load,
           fork_store, fork_table, wake_up_process, enqueue_count, call_wake,
           Return
      <4>3. base'[t] \notin {"sched_enter", "sched_leave"}
        BY <1>1, <1>10, <4>2 DEF Goto, Home
      <4> QED BY <4>1, <4>3 DEF Disabled
    <3>3. CASE UNCHANGED base
      BY <1>3, <3>3
    <3> QED
      BY <1>10, <3>1, <3>2, <3>3
      DEF Next, Kernel, Client, vars, pick_scan, pick_scanned, reset_score,
          reset_done, cpu_switch_to, keep_running, switch_wild, set_sleep, stopped
  <2> QED BY <1>2, <2>1, <2>2, <2>3
<1> HIDE DEF OK
<1> QED BY <1>4, <1>5, <1>6, <1>7, <1>8, <1>9, <1>10

LEMMA PreemptInvInit == Init => PreemptInv
<1> SUFFICES ASSUME Init PROVE PreemptInv
  OBVIOUS
<1>1. Fresh = Page
  BY PageFacts DEF Init, Fresh
<1>2. FreshIdle /\ OnlyInitForks /\ ForkedPage
  BY PageFacts DEF Init, Fresh, FreshIdle, OnlyInitForks, ForkedPage, ForkPC, ChildPC
<1>3. FreeIsFresh
  BY <1>1 DEF FreeIsFresh, Page, PA!Page
<1>4. FreshUnreached
  BY <1>1, PageFacts
  DEF Init, FreshUnreached, sched_init, INIT_LIST_HEAD, Unlinked, NoLocals,
      NoPick, Task, Node
<1>5. OneFrame
  BY DEF Init, OneFrame, Disabled
<1> QED BY <1>2, <1>3, <1>4, <1>5, TypeInit DEF PreemptInv

LEMMA PreemptInvariant == Spec => []PreemptInv
<1>1. PreemptInv /\ TypeOK' /\ [Next]_vars => PreemptInv'
  BY FreshIdleStep, FreeIsFreshStep, FreshUnreachedStep, OnlyInitForksStep,
     ForkedPageStep, OneFrameStep DEF PreemptInv
<1> QED BY <1>1, PreemptInvInit, TypeCorrect, PTL DEF Spec

(* preempt_disable and preempt_enable balance over every interleaving of   *)
(* interrupts, preemptions, switches and forks.                            *)
THEOREM PreemptCountExact == Spec => []PreemptBalance
<1>1. PreemptInv => PreemptBalance
  <2>1. Len(<<>>) = 0 /\ Len(<<"enter">>) = 1 /\ Len(<<"leave">>) = 1
    OBVIOUS
  <2> SUFFICES ASSUME PreemptInv, NEW t \in Task
               PROVE  preempt_count[t] = Disabled(t) + Len(traps[t])
    BY DEF PreemptBalance
  <2>2. \/ /\ Disabled(t) = 0
           /\ \/ traps[t] = <<>> /\ preempt_count[t] = 0
              \/ traps[t] = <<"enter">> /\ preempt_count[t] = 1
              \/ traps[t] = <<"leave">> /\ preempt_count[t] = 1
        \/ Disabled(t) = 1 /\ traps[t] = <<>> /\ preempt_count[t] = 1
    BY DEF PreemptInv, OneFrame
  <2>3. \/ Disabled(t) = 0 /\ Len(traps[t]) = 0 /\ preempt_count[t] = 0
        \/ Disabled(t) = 0 /\ Len(traps[t]) = 1 /\ preempt_count[t] = 1
        \/ Disabled(t) = 1 /\ Len(traps[t]) = 0 /\ preempt_count[t] = 1
    BY <2>1, <2>2
  <2>4. 0 + 0 = 0 /\ 0 + 1 = 1 /\ 1 + 0 = 1
    BY SMTT(30)
  <2> QED BY <2>3, <2>4
<1> QED BY <1>1, PreemptInvariant, PTL

(* "BUG: scheduling while atomic" is never printed.                        *)
THEOREM NeverWhileAtomic == Spec => []NotAtomic
<1>1. PreemptInv => NotAtomic
  BY DEF PreemptInv, TypeOK, OneFrame, NotAtomic, InPreempt, Running, Disabled
<1> QED BY <1>1, PreemptInvariant, PTL
------------------------------------------------------------------------------
(* init_task never calls schedule() and never sleeps.                      *)
InitForks == /\ base[init_task] \notin {"body", "sched_enter", "sched_leave"}
             /\ state[init_task] = TASK_RUNNING

LEMMA UnqueuedInvariant == Spec => []InitUnqueued
  BY TypeCorrect, UnqueuedInit, UnqueuedStep, PTL DEF Spec

LEMMA InitForksStep ==
  ASSUME PreemptInv, InitForks, [Next]_vars
  PROVE  InitForks'
<1>1. /\ base \in [Task -> BasePC] /\ cur \in Task /\ init_task \in Task
      /\ state \in [Task -> {TASK_RUNNING, TASK_INTERRUPTIBLE}]
      /\ base[init_task] \notin {"body", "sched_enter", "sched_leave"}
      /\ state[init_task] = TASK_RUNNING
  BY PageFacts DEF PreemptInv, TypeOK, InitForks
<1>2. base'[init_task] \notin {"body", "sched_enter", "sched_leave"}
  <2>1. CASE cur # init_task
    BY <1>1, <2>1, OthersStay DEF PreemptInv
  <2>2. CASE cur = init_task /\ UNCHANGED base
    BY <1>1, <2>2
  <2>3. CASE cur = init_task /\ ~UNCHANGED base
    <3>1. ~(schedule \/ schedule_return \/ call_wake \/ Running("sched_enter"))
      BY <1>1, <2>3 DEF schedule, schedule_return, call_wake, Running
    <3>2. CASE SET_LINKS \/ enqueue_add
      <4>1. PICK k \in 1 .. 4 : Goto(LinkPC[k + 1]) \/ Goto(AddPC[k + 1])
        BY <3>2 DEF SET_LINKS, enqueue_add
      <4>2. k = 1 \/ k = 2 \/ k = 3 \/ k = 4
        BY SMTT(30)
      <4> QED BY <1>1, <2>3, <4>1, <4>2, SMTT(30) DEF Goto, LinkPC, AddPC
    <3>3. CASE \E pc \in {"main", "f_page", "f_slot", "f_count", "f_load",
                          "f_store", "f_table", "link1", "add1"} : Goto(pc)
      BY <1>1, <2>3, <3>3 DEF Goto
    <3> QED
      BY <2>3, <3>1, <3>2, <3>3
      DEF Next, Kernel, Client, vars, el1_irq, preempt_return, __schedule,
          pick_scan, pick_scanned, reset_score, reset_done, cpu_switch_to,
          keep_running, switch_wild, kernel_main, fork_page, fork_slot,
          fork_count, fork_load, fork_store, fork_table, wake_up_process,
          enqueue_count, set_sleep, stopped, Return, Home
  <2> QED BY <2>1, <2>2, <2>3
<1>3. state'[init_task] = TASK_RUNNING
  BY <1>1, MoreFrames DEF fork_slot, copy_thread, wake_up_process, set_sleep, Running
<1> QED BY <1>2, <1>3 DEF InitForks
------------------------------------------------------------------------------
(***************************************************************************)
(* What do_fork does with the page, the entry of g_task and the slice it   *)
(* hands to the child, interrupted or not; what pick_next_task_simple can  *)
(* rely on, and what a switch leaves behind in the interrupt mask.         *)
(***************************************************************************)
(* Where do_fork holds a page that g_task does not show yet, and a pid.    *)
PagePC == {"f_slot", "f_count", "f_load", "f_store", "f_table"}
PidPC  == PagePC \ {"f_slot"}

Full == \A i \in 0 .. NR_TASK - 1 : g_task[i] # NULL

PidFree == \A t \in Task : base[t] \in PidPC => g_task[loc[t].pid] = NULL

Kept(p) == \/ \E i \in PA!MapIndex : p = LOW_MEMORY + i /\ mem_map[i] = 0
           \/ \E i \in 0 .. NR_TASK - 1 : g_task[i] = p
           \/ \E t \in Task : base[t] \in PagePC /\ loc[t].p = p

LeakInv == PidFree /\ (Full \/ \A p \in Page : Kept(p))
------------------------------------------------------------------------------
(* A page that is not queued yet has no pointers.                          *)
NotLinked == /\ \A t \in Fresh : run_list.next[t] = NULL
             /\ base[init_task] = "f_count" => run_list.next[loc[init_task].p] = NULL

(* The last thread on the queue, the first one forked, has a slice left;   *)
(* so has init_task until it forks that one.                               *)
LastHasSlice ==
  /\ \A n \in Page : run_list.next[n] = rq_head => count[n] >= 1
  /\ base[init_task] \in {"add1", "add2", "add3", "add4"} =>
       loc[init_task].next = run_list.next[rq_head]
  /\ base[init_task] = "nr_running" => run_list.next[rq_head] # rq_head
  /\ run_list.next[rq_head] = rq_head =>
       /\ base[init_task] \in {"main", "f_page", "f_slot", "f_count"}
            /\ traps[init_task] = <<>> => count[init_task] >= 1
       /\ base[init_task] \in ChildPC \ {"f_count", "nr_running"} =>
            count[loc[init_task].p] >= 1

(* So the pick that takes the CPU from init_task never resets the slices.  *)
NoReset ==
  /\ pick.at # "reset"
  /\ pick.at = "scan" /\ pick.tmp = rq_head => pick.c # 0
  /\ pick.at = "none" => traps[init_task] \in {<<>>, <<"enter">>}

Halving ==
  LET c == count[init_task]  l == loc[init_task] IN
  /\ base[init_task] \in {"f_load", "f_store"} =>
       count[l.p] <= (l.given + 1) \div 2 /\ c <= l.given
  /\ base[init_task] = "f_store" => l.reg <= l.given
  /\ base[init_task] \in {"f_table", "link1", "link2", "link3", "link4"} =>
       count[l.p] + c <= l.given

SliceInv == InitForks /\ (cur = init_task => NotLinked /\ LastHasSlice /\ NoReset /\ Halving)
------------------------------------------------------------------------------
(* A step that takes no page and no entry, and leaves the locals of do_fork*)
(* alone, keeps what do_fork holds.                                        *)
LEMMA QuietLeak ==
  ASSUME LeakInv, UNCHANGED <<mem_map, g_task>>,
         \A t \in Task : /\ base[t] \in PagePC =>
                              base'[t] \in PagePC /\ loc'[t].p = loc[t].p
                         /\ base'[t] \in PidPC =>
                              base[t] \in PidPC /\ loc'[t].pid = loc[t].pid
  PROVE  LeakInv'
<1>1. PidFree'
  BY DEF LeakInv, PidFree
<1>2. Full' <=> Full
  BY DEF Full
<1>3. ASSUME NEW p \in Page, Kept(p)
      PROVE  Kept(p)'
  BY <1>3 DEF Kept
<1> QED BY <1>1, <1>2, <1>3 DEF LeakInv

LEMMA LeakStep ==
  ASSUME PreemptInv, LeakInv, [Next]_vars
  PROVE  LeakInv'
<1>1. /\ base \in [Task -> BasePC] /\ cur \in Task
      /\ loc \in [Task -> [p : Page \cup {NULL}, pid : 0 .. NR_TASK - 1,
                           given : Nat, reg : Nat, next : Pointer]]
      /\ mem_map \in [PA!MapIndex -> {0, 1}]
      /\ g_task \in [0 .. NR_TASK - 1 -> Task \cup {NULL}]
  BY DEF PreemptInv, TypeOK
<1>2. \A t \in Task : t # cur => base'[t] = base[t] /\ loc'[t] = loc[t]
  BY OthersStay DEF PreemptInv
<1>3. ASSUME UNCHANGED <<mem_map, g_task>>,
             base[cur] \in PagePC =>
               base'[cur] \in PagePC /\ loc'[cur].p = loc[cur].p,
             base'[cur] \in PidPC =>
               base[cur] \in PidPC /\ loc'[cur].pid = loc[cur].pid
      PROVE  LeakInv'
  BY <1>2, <1>3, QuietLeak
<1>4. CASE fork_page
  <2>1. base[cur] = "f_page" /\ UNCHANGED g_task
    BY <1>4 DEF fork_page, Running
  <2>2. CASE PA!get_free_page(NULL) /\ Return
    <3>1. UNCHANGED mem_map
      BY <2>2, SchedAssumption, SMTT(30) DEF PA!get_free_page, PA!MapIndex, NULL
    <3>2. base'[cur] \in {"main", "body"}
      BY <1>1, <2>2 DEF Return, Goto, Home
    <3> QED BY <1>3, <2>1, <3>1, <3>2 DEF PagePC, PidPC
  <2>3. ASSUME NEW p \in Page, PA!get_free_page(p),
               loc' = [loc EXCEPT ![cur].p = p], Goto("f_slot")
        PROVE  LeakInv'
    <3>1. base'[cur] = "f_slot" /\ loc'[cur].p = p
      BY <1>1, <2>3 DEF Goto
    <3>2. PidFree'
      BY <1>2, <2>1, <3>1 DEF LeakInv, PidFree, PidPC
    <3>3. Full' <=> Full
      BY <2>1 DEF Full
    <3>4. ASSUME NEW q \in Page, Kept(q)
          PROVE  Kept(q)'
      <4>1. CASE q = p
        BY <1>1, <3>1, <4>1 DEF Kept, PagePC
      <4>2. CASE q # p
        <5>1. ASSUME NEW i \in PA!MapIndex, q = LOW_MEMORY + i, mem_map[i] = 0
              PROVE  mem_map'[i] = 0
          BY <1>1, <2>3, <4>2, <5>1 DEF PA!get_free_page
        <5>2. ASSUME NEW t \in Task, base[t] \in PagePC, loc[t].p = q
              PROVE  base'[t] \in PagePC /\ loc'[t].p = q
          BY <1>2, <2>1, <5>2 DEF PagePC
        <5> QED BY <2>1, <3>4, <5>1, <5>2 DEF Kept
      <4> QED BY <4>1, <4>2
    <3> QED BY <3>2, <3>3, <3>4 DEF LeakInv
  <2> QED BY <1>4, <2>2, <2>3 DEF fork_page
<1>5. CASE fork_slot
  <2>1. base[cur] = "f_slot" /\ UNCHANGED <<g_task, mem_map>>
    BY <1>5 DEF fork_slot, Running, fork
  <2>2. CASE find_empty_task(-1) /\ Return
    <3>1. Full /\ Full'
      BY <2>1, <2>2, SMTT(30) DEF find_empty_task, Full
    <3>2. base'[cur] \in {"main", "body"}
      BY <1>1, <2>2 DEF Return, Goto, Home
    <3>3. PidFree'
      BY <1>2, <2>1, <3>2 DEF LeakInv, PidFree, PidPC, PagePC
    <3> QED BY <3>1, <3>3 DEF LeakInv
  <2>3. ASSUME NEW pid \in 0 .. NR_TASK - 1, find_empty_task(pid),
               loc' = [loc EXCEPT ![cur].pid = pid], Goto("f_count")
        PROVE  LeakInv'
    <3>1. base'[cur] = "f_count" /\ loc'[cur].p = loc[cur].p /\ loc'[cur].pid = pid
      BY <1>1, <2>3 DEF Goto
    <3>2. g_task[pid] = NULL
      BY <2>3, SMTT(30) DEF find_empty_task
    <3>3. PidFree'
      BY <1>2, <2>1, <3>1, <3>2 DEF LeakInv, PidFree
    <3>4. ASSUME NEW t \in Task, base[t] \in PagePC
          PROVE  base'[t] \in PagePC /\ loc'[t].p = loc[t].p
      BY <1>2, <3>1, <3>4 DEF PagePC
    <3>5. Full' <=> Full
      BY <2>1 DEF Full
    <3>6. ASSUME NEW q \in Page, Kept(q)
          PROVE  Kept(q)'
      BY <2>1, <3>4, <3>6 DEF Kept
    <3> QED BY <3>3, <3>5, <3>6 DEF LeakInv
  <2> QED BY <1>5, <2>2, <2>3 DEF fork_slot
<1>6. CASE fork_table
  <2>1. /\ base[cur] = "f_table" /\ UNCHANGED <<mem_map, loc>>
        /\ g_task' = [g_task EXCEPT ![loc[cur].pid] = loc[cur].p]
        /\ base'[cur] = "link1"
    BY <1>1, <1>6 DEF fork_table, Running, Goto, child
  <2>2. g_task[loc[cur].pid] = NULL /\ loc[cur].pid \in 0 .. NR_TASK - 1
    BY <1>1, <2>1 DEF LeakInv, PidFree, PidPC, PagePC
  <2>3. loc[cur].p \in Page /\ cur = init_task
    BY <1>1, <2>1 DEF PreemptInv, ForkedPage, ChildPC, OnlyInitForks, ForkPC
  <2>4. PidFree'
    <3>1. ASSUME NEW t \in Task PROVE base'[t] \notin PidPC
      <4>1. CASE t = cur
        BY <2>1, <4>1 DEF PidPC, PagePC
      <4>2. CASE t # cur
        BY <1>2, <2>3, <4>2 DEF PreemptInv, OnlyInitForks, ForkPC, PidPC, PagePC
      <4> QED BY <4>1, <4>2
    <3> QED BY <3>1 DEF PidFree
  <2>5. ~Full
    BY <2>2 DEF Full
  <2>6. ASSUME NEW q \in Page, Kept(q)
        PROVE  Kept(q)'
    <3>1. ASSUME NEW i \in 0 .. NR_TASK - 1, g_task[i] = q
          PROVE  g_task'[i] = q
      BY <1>1, <2>1, <2>2, <3>1, PageFacts
    <3>2. ASSUME NEW t \in Task, base[t] \in PagePC, loc[t].p = q
          PROVE  \/ \E i \in 0 .. NR_TASK - 1 : g_task'[i] = q
                 \/ base'[t] \in PagePC /\ loc'[t].p = q
      <4>1. CASE t = cur
        BY <1>1, <2>1, <2>2, <3>2, <4>1
      <4> QED BY <1>2, <3>2, <4>1
    <3> QED BY <2>1, <2>6, <3>1, <3>2 DEF Kept
  <2> QED BY <2>4, <2>5, <2>6 DEF LeakInv
<1>7. CASE UNCHANGED <<mem_map, g_task, base, loc>>
  BY <1>3, <1>7
<1>8. CASE \/ kernel_main \/ fork_count \/ fork_load \/ fork_store
           \/ wake_up_process \/ enqueue_count \/ schedule \/ schedule_return
           \/ call_wake
  <2>1. UNCHANGED <<mem_map, g_task>>
    BY <1>8 DEF kernel_main, fork_count, fork_load, fork_store, wake_up_process,
       enqueue_count, schedule, schedule_return, call_wake, fork
  <2>2. \/ /\ base[cur] \in PidPC /\ base'[cur] \in PidPC
           /\ loc'[cur].p = loc[cur].p /\ loc'[cur].pid = loc[cur].pid
        \/ base[cur] \notin PagePC /\ base'[cur] \notin PagePC
    <3>1. CASE fork_count \/ fork_load \/ fork_store
      BY <1>1, <3>1, SMTT(30) DEF fork_count, fork_load, fork_store, Running, Goto, PidPC, PagePC
    <3>2. CASE enqueue_count
      BY <1>1, <3>2 DEF enqueue_count, Running, Return, Home, Goto, PagePC
    <3>3. CASE kernel_main \/ wake_up_process \/ schedule \/ schedule_return \/ call_wake
      BY <1>1, <3>3 DEF kernel_main, wake_up_process, schedule, schedule_return,
         call_wake, Running, Goto, PagePC
    <3> QED BY <1>8, <3>1, <3>2, <3>3
  <2> QED BY <1>3, <2>1, <2>2 DEF PidPC
<1>9. CASE SET_LINKS \/ enqueue_add
  <2>1. UNCHANGED <<mem_map, g_task>>
    BY <1>9 DEF SET_LINKS, enqueue_add, fork
  <2>2. PICK k \in 1 .. 4 : \/ Running(LinkPC[k]) /\ Goto(LinkPC[k + 1])
                            \/ Running(AddPC[k]) /\ Goto(AddPC[k + 1])
    BY <1>9 DEF SET_LINKS, enqueue_add
  <2>3. k = 1 \/ k = 2 \/ k = 3 \/ k = 4
    BY SMTT(30)
  <2>4. base[cur] \notin PagePC /\ base'[cur] \notin PagePC
    BY <1>1, <2>2, <2>3, SMTT(30) DEF Running, Goto, LinkPC, AddPC, PagePC
  <2> QED BY <1>3, <2>1, <2>4 DEF PidPC
<1>10. CASE __schedule
  <2>1. UNCHANGED <<mem_map, g_task, loc>>
    BY <1>10 DEF __schedule, fork
  <2>2. \/ UNCHANGED base
        \/ base[cur] = "sched_enter" /\ base'[cur] = "sched_leave"
    BY <1>1, <1>10 DEF __schedule, Running, Goto
  <2> QED BY <1>3, <2>1, <2>2 DEF PidPC, PagePC
<1> QED
  BY <1>4, <1>5, <1>6, <1>7, <1>8, <1>9, <1>10
  DEF Next, Kernel, Client, vars, fork, el1_irq, preempt_return, pick_scan,
      pick_scanned, reset_score, reset_done, cpu_switch_to, keep_running,
      switch_wild, set_sleep, stopped

(* do_fork's error path: a page that no do_fork holds any more, be it one  *)
(* that init_task never comes back to, is lost only when the task table is *)
(* full.                                                                   *)
THEOREM NoPageLost == Spec => []LeakOnlyWhenFull
<1>1. Init => LeakInv
  <2> SUFFICES ASSUME Init PROVE LeakInv
    OBVIOUS
  <2>1. PidFree
    BY PageFacts DEF Init, PidFree, PidPC, PagePC
  <2>2. \A p \in Page : Kept(p)
    BY DEF Init, PA!mem_map_init, Kept, Page, PA!Page
  <2> QED BY <2>1, <2>2 DEF LeakInv
<1>2. PreemptInv /\ LeakInv => LeakOnlyWhenFull
  <2> SUFFICES ASSUME PreemptInv, LeakInv, ~Full,
                      NEW p \in Page
               PROVE  p \in PA!FreePages \cup Threads \cup InFlight
    BY DEF LeakOnlyWhenFull, PreemptInv, TypeOK, Full
  <2>1. Kept(p)
    BY DEF LeakInv
  <2>2. ASSUME NEW i \in PA!MapIndex, p = LOW_MEMORY + i, mem_map[i] = 0
        PROVE  p \in PA!FreePages
    <3>1. p - LOW_MEMORY = i
      BY <2>2, SchedAssumption, SMTT(30) DEF PA!MapIndex
    <3> QED BY <2>2, <3>1 DEF PA!FreePages, Page
  <2>3. ASSUME NEW i \in 0 .. NR_TASK - 1, g_task[i] = p
        PROVE  p \in Threads
    BY <2>3, PageFacts DEF Threads, PreemptInv, TypeOK
  <2>4. ASSUME NEW t \in Task, loc[t].p = p
        PROVE  p \in InFlight
    BY <2>4 DEF InFlight
  <2> QED BY <2>1, <2>2, <2>3, <2>4 DEF Kept
<1> QED BY <1>1, <1>2, LeakStep, PreemptInvariant, PTL DEF Spec
------------------------------------------------------------------------------
(* While init_task runs.                                                   *)
InitSlice == NotLinked /\ LastHasSlice /\ NoReset /\ Halving

LEMMA SliceTick ==
  ASSUME PreemptInv, InitForks, InitSlice, cur = init_task, el1_irq
  PROVE  InitSlice'
<1>1. /\ init_task \in Task /\ init_task \notin Page /\ count \in [Task -> Nat]
      /\ need_resched \in [Task -> {0, 1}] /\ preempt_count \in [Task -> Int]
      /\ traps \in [Task -> Seq({"enter", "leave"})]
      /\ Page \subseteq Task
  BY PageFacts DEF PreemptInv, TypeOK
<1>2. UNCHANGED <<run_list, base, loc, pick, ctx>>
  BY DEF el1_irq, queue, who
<1>3. /\ \A n \in Page : count'[n] = count[n]
      /\ count'[init_task] \in Nat /\ count'[init_task] <= count[init_task]
      /\ count[init_task] >= 1 => count'[init_task] >= 1 \/ need_resched'[init_task] = 1
  <2>1. CASE TickWired
    <3>1. task_tick_simple(init_task)
      BY <2>1 DEF el1_irq, do_irq
    <3> QED BY <1>1, <3>1, SMTT(30) DEF task_tick_simple
  <2>2. CASE ~TickWired
    BY <1>1, <2>2, SMTT(30) DEF el1_irq, do_irq
  <2> QED BY <2>1, <2>2
<1>4. Disabled(init_task) = 0
  BY DEF InitForks, Disabled
<1>5. traps[init_task] = <<>> => preempt_count[init_task] = 0
  <2>1. <<"enter">> # <<>> /\ <<"leave">> # <<>> /\ 0 # 1
    BY SMTT(30)
  <2> QED BY <1>1, <1>4, <2>1 DEF PreemptInv, OneFrame
<1>6. traps[init_task] # <<>> => UNCHANGED traps
  <2>1. traps[init_task] # <<>> => preempt_count[init_task] = 1
    BY <1>1, <1>4 DEF PreemptInv, OneFrame
  <2> QED BY <2>1, SMTT(30) DEF el1_irq, el1_preempts
<1>7. traps[init_task] = <<>> =>
        \/ traps'[init_task] = <<"enter">>
        \/ traps'[init_task] = <<>> /\ need_resched'[init_task] = 0
  <2> SUFFICES ASSUME traps[init_task] = <<>>
               PROVE  \/ traps'[init_task] = <<"enter">>
                      \/ traps'[init_task] = <<>> /\ need_resched'[init_task] = 0
    OBVIOUS
  <2>1. CASE el1_preempts
    <3>1. traps'[init_task] = <<"enter">> \o <<>>
      BY <1>1, <2>1 DEF el1_irq
    <3> QED BY <3>1, SMTT(30)
  <2>2. CASE ~el1_preempts
    BY <1>5, <2>2 DEF el1_irq, el1_preempts
  <2> QED BY <2>1, <2>2
<1>8. Fresh' = Fresh /\ Fresh \subseteq Page
  BY <1>2 DEF Fresh
<1>9. NotLinked'
  BY <1>2, <1>8 DEF InitSlice, NotLinked
<1>10. base[init_task] \in ChildPC => loc[init_task].p \in Page
  BY <1>1 DEF PreemptInv, ForkedPage
<1>11. LastHasSlice'
  <2>1. \A n \in Page : run_list'.next[n] = rq_head => count'[n] >= 1
    BY <1>2, <1>3 DEF InitSlice, LastHasSlice
  <2>2. traps'[init_task] = <<>> => traps[init_task] = <<>> /\ need_resched'[init_task] = 0
    <3>1. <<"enter">> # <<>>
      OBVIOUS
    <3> QED BY <1>6, <1>7, <3>1
  <2>3. base[init_task] \in ChildPC => count'[loc[init_task].p] = count[loc[init_task].p]
    BY <1>3, <1>10
  <2> QED BY <1>2, <1>3, <2>1, <2>2, <2>3, SMTT(30) DEF InitSlice, LastHasSlice
<1>12. NoReset'
  BY <1>2, <1>6, <1>7 DEF InitSlice, NoReset
<1>13. Halving'
  <2> DEFINE c == count[init_task]
             l == loc[init_task]
  <2>1. base[init_task] \in {"f_load", "f_store", "f_table", "link1", "link2",
                             "link3", "link4"} => l.p \in Page /\ count'[l.p] = count[l.p]
    BY <1>3, <1>10 DEF ChildPC
  <2>2. loc \in [Task -> [p : Page \cup {NULL}, pid : 0 .. NR_TASK - 1,
                          given : Nat, reg : Nat, next : Pointer]]
    BY DEF PreemptInv, TypeOK
  <2>3. l.given \in Nat /\ c \in Nat /\ (l.p \in Page => count[l.p] \in Nat)
    BY <1>1, <2>2
  <2> QED BY <1>2, <1>3, <2>1, <2>3, SMTT(30) DEF InitSlice, Halving
<1> QED BY <1>9, <1>11, <1>12, <1>13 DEF InitSlice

(* The pick that takes the CPU from init_task.                             *)
LEMMA SlicePick ==
  ASSUME PreemptInv, InitUnqueued, InitForks, InitSlice, cur = init_task,
         cur' = init_task,
         \/ __schedule \/ pick_scan \/ pick_scanned \/ reset_score \/ reset_done
         \/ cpu_switch_to \/ keep_running \/ switch_wild
  PROVE  InitSlice'
<1>1. /\ base[init_task] \notin {"body", "sched_enter", "sched_leave"}
      /\ state[init_task] = TASK_RUNNING /\ init_task \in Task
      /\ pick.next # init_task /\ pick.at # "reset"
      /\ pick \in [at : {"none", "scan", "reset", "switch"},
                   tmp : Pointer, c : Int, next : Task \cup {UNINIT}]
      /\ count \in [Task -> Nat]
  BY PageFacts DEF InitForks, InitSlice, NoReset, InitUnqueued, PreemptInv, TypeOK
<1>2. ~(reset_score \/ reset_done \/ cpu_switch_to \/ keep_running)
  BY <1>1 DEF reset_score, reset_done, cpu_switch_to, keep_running
<1>3. UNCHANGED <<run_list, base, loc, count, ctx>>
  BY <1>1, <1>2 DEF __schedule, blocks, queue, who, pick_scan, pick_scanned,
     switch_wild, Running
<1>4. NotLinked' /\ Halving'
  BY <1>3 DEF InitSlice, NotLinked, Halving, Fresh
<1>5. /\ pick'.at # "reset" /\ (pick'.at = "none" => UNCHANGED traps /\ pick.at = "none")
      /\ pick'.at = "scan" /\ pick'.tmp = rq_head => pick'.c # 0
  <2>1. CASE __schedule
    BY <2>1, SMTT(30) DEF __schedule, repeat
  <2>2. CASE pick_scan
    <3>1. CASE UNCHANGED pick
      BY <2>2, <3>1 DEF InitSlice, NoReset, pick_scan
    <3>2. CASE pick.tmp \in Task
      <4>1. pick.tmp \in Page
        BY <2>2, <3>2 DEF InitUnqueued, pick_scan, Task
      <4>2. run_list.next[pick.tmp] = rq_head => count[pick.tmp] >= 1
        BY <4>1 DEF InitSlice, LastHasSlice
      <4>3. /\ pick'.at = pick.at /\ pick'.tmp = run_list.next[pick.tmp]
            /\ pick'.c = IF count[pick.tmp] > pick.c THEN count[pick.tmp] ELSE pick.c
        BY <1>1, <2>2, <3>2 DEF pick_scan, goodness
      <4> QED BY <1>1, <2>2, <3>2, <4>2, <4>3, SMTT(30) DEF pick_scan
    <3> QED BY <2>2, <3>1, <3>2 DEF pick_scan
  <2>3. CASE pick_scanned
    BY <1>1, <2>3 DEF InitSlice, NoReset, pick_scanned
  <2>4. CASE switch_wild
    BY <2>4 DEF InitSlice, NoReset, switch_wild, AtSwitch
  <2> QED BY <1>2, <2>1, <2>2, <2>3, <2>4
<1>6. NoReset'
  BY <1>5 DEF InitSlice, NoReset
<1>7. traps'[init_task] = <<>> => traps[init_task] = <<>>
  <2>1. CASE UNCHANGED traps
    BY <2>1
  <2>2. CASE __schedule /\ ~UNCHANGED traps
    <3>1. InPreempt("enter")
      BY <1>1, <2>2 DEF __schedule, Running
    <3>2. \A s \in Seq({"enter", "leave"}) : <<"leave">> \o s # <<>>
      BY SMTT(30)
    <3>3. /\ traps \in [Task -> Seq({"enter", "leave"})]
          /\ traps' = [traps EXCEPT ![cur] = <<"leave">> \o Tail(@)]
      BY <2>2 DEF __schedule, PreemptInv, TypeOK
    <3>4. traps[cur] # <<>> => Tail(traps[cur]) \in Seq({"enter", "leave"})
      BY <1>1, <3>3, SMTT(30)
    <3> QED BY <1>1, <3>1, <3>2, <3>3, <3>4 DEF InPreempt
  <2> QED BY <1>2, <2>1, <2>2 DEF pick_scan, pick_scanned, switch_wild
<1>8. LastHasSlice'
  BY <1>3, <1>7 DEF InitSlice, LastHasSlice
<1> QED BY <1>4, <1>6, <1>8 DEF InitSlice

(* The steps of do_fork.                                                   *)
LEMMA SliceFork ==
  ASSUME PreemptInv, InitForks, InitSlice, cur = init_task,
         \/ kernel_main \/ fork_page \/ fork_slot \/ fork_count \/ fork_load
         \/ fork_store \/ fork_table \/ SET_LINKS \/ wake_up_process
         \/ enqueue_add \/ enqueue_count
  PROVE  InitSlice'
<1> DEFINE c == count[init_task]
           l == loc[init_task]
           p == loc[init_task].p
<1>1. /\ init_task \in Task /\ init_task \notin Page /\ count \in [Task -> Nat]
      /\ rq_head \notin Page /\ NULL \notin Node /\ rq_head \in Node
      /\ Page \subseteq Task /\ Page \subseteq Node /\ base \in [Task -> BasePC]
      /\ loc \in [Task -> [p : Page \cup {NULL}, pid : 0 .. NR_TASK - 1,
                           given : Nat, reg : Nat, next : Pointer]]
      /\ run_list \in [next : [Node -> Pointer], prev : [Node -> Pointer]]
  BY PageFacts DEF PreemptInv, TypeOK
<1>2. UNCHANGED <<traps, pick>> /\ traps[init_task] = <<>> /\ pick.at = "none"
  BY DEF kernel_main, fork_page, fork_slot, fork_count, fork_load, fork_store,
     fork_table, SET_LINKS, wake_up_process, enqueue_add, enqueue_count, Running
<1>3. NoReset'
  BY <1>2 DEF InitSlice, NoReset
<1>4. /\ base[init_task] \in ChildPC => p \in Page /\ p \notin Fresh
      /\ base[init_task] = "f_slot" => p \in Fresh
      /\ Fresh \subseteq Page /\ c \in Nat /\ l.given \in Nat /\ l.reg \in Nat
      /\ \A n \in Page : count[n] \in Nat
  BY <1>1 DEF PreemptInv, ForkedPage, Fresh
<1>5. Fresh' \subseteq Fresh
  BY FreshShrinks DEF Next, Kernel
<1>6. CASE base'[init_task] \in {"main", "f_page", "f_slot"} /\
           UNCHANGED <<run_list, count>> /\
           base[init_task] \in {"main", "f_page", "f_slot", "nr_running"}
  <2>1. NotLinked'
    BY <1>5, <1>6 DEF InitSlice, NotLinked
  <2>2. LastHasSlice'
    BY <1>2, <1>6 DEF InitSlice, LastHasSlice, ChildPC
  <2>3. Halving'
    BY <1>6 DEF Halving
  <2> QED BY <1>3, <2>1, <2>2, <2>3 DEF InitSlice
<1>7. CASE kernel_main \/ fork_page \/ enqueue_count \/ (fork_slot /\ Return)
  <2>1. UNCHANGED <<run_list, count>> /\ base[init_task] \in {"main", "f_page", "f_slot", "nr_running"}
    BY <1>7 DEF kernel_main, fork_page, fork_slot, enqueue_count, queue, Running
  <2>2. \E b \in {"main", "f_page", "f_slot"} : base' = [base EXCEPT ![init_task] = b]
    BY <1>7 DEF kernel_main, fork_page, fork_slot, enqueue_count, Return, Home, Goto
  <2> QED BY <1>1, <1>6, <2>1, <2>2
<1>8. CASE fork_slot /\ ~Return
  <2>1. /\ base[init_task] = "f_slot" /\ base'[init_task] = "f_count"
        /\ UNCHANGED <<run_list, count>> /\ loc'[init_task].p = p
    BY <1>1, <1>8, SMTT(30) DEF fork_slot, Running, Goto, queue
  <2>2. NotLinked'
    BY <1>4, <1>5, <2>1 DEF InitSlice, NotLinked
  <2>3. LastHasSlice'
    BY <1>2, <2>1 DEF InitSlice, LastHasSlice
  <2>4. Halving'
    BY <2>1 DEF Halving
  <2> QED BY <1>3, <2>2, <2>3, <2>4 DEF InitSlice
<1>9. CASE fork_count
  <2>1. /\ base[init_task] = "f_count" /\ base'[init_task] = "f_load"
        /\ UNCHANGED run_list /\ loc'[init_task].p = p /\ loc'[init_task].given = c
        /\ count' = [count EXCEPT ![p] = (c + 1) \div 2]
    BY <1>1, <1>9 DEF fork_count, Running, Goto, queue, child
  <2>2. p \in Page /\ run_list.next[p] = NULL
    BY <1>4, <2>1 DEF InitSlice, NotLinked, ChildPC
  <2>3. /\ count'[p] = (c + 1) \div 2 /\ count'[init_task] = c
        /\ \A n \in Page : n # p => count'[n] = count[n]
    BY <1>1, <2>1, <2>2
  <2>4. NotLinked'
    BY <1>5, <2>1 DEF InitSlice, NotLinked
  <2>5. LastHasSlice'
    <3>1. \A n \in Page : run_list'.next[n] = rq_head => count'[n] >= 1
      BY <1>1, <2>1, <2>2, <2>3 DEF InitSlice, LastHasSlice
    <3>2. run_list'.next[rq_head] = rq_head => c >= 1
      BY <1>2, <2>1 DEF InitSlice, LastHasSlice
    <3>3. c >= 1 => (c + 1) \div 2 >= 1
      BY <1>4, SMTT(30)
    <3> QED BY <2>1, <2>3, <3>1, <3>2, <3>3 DEF LastHasSlice
  <2>6. Halving'
    BY <1>4, <2>1, <2>3, SMTT(30) DEF Halving
  <2> QED BY <1>3, <2>4, <2>5, <2>6 DEF InitSlice
<1>10. CASE fork_load
  <2>1. /\ base[init_task] = "f_load" /\ base'[init_task] = "f_store"
        /\ UNCHANGED <<run_list, count>> /\ loc'[init_task].p = p
        /\ loc'[init_task].given = l.given /\ loc'[init_task].reg = c
    BY <1>1, <1>10 DEF fork_load, Running, Goto, queue
  <2>2. NotLinked'
    BY <1>5, <2>1 DEF InitSlice, NotLinked
  <2>3. LastHasSlice'
    BY <2>1 DEF InitSlice, LastHasSlice, ChildPC
  <2>4. Halving'
    BY <2>1 DEF InitSlice, Halving
  <2> QED BY <1>3, <2>2, <2>3, <2>4 DEF InitSlice
<1>11. CASE fork_store
  <2>1. /\ base[init_task] = "f_store" /\ base'[init_task] = "f_table"
        /\ UNCHANGED <<run_list, loc>>
        /\ count' = [count EXCEPT ![init_task] = l.reg \div 2]
    BY <1>1, <1>11 DEF fork_store, halved, Running, Goto, queue
  <2>2. p \in Page /\ count'[init_task] = l.reg \div 2
        /\ \A n \in Page : count'[n] = count[n]
    BY <1>1, <1>4, <2>1 DEF ChildPC
  <2>3. NotLinked'
    BY <1>5, <2>1 DEF InitSlice, NotLinked
  <2>4. LastHasSlice'
    BY <2>1, <2>2 DEF InitSlice, LastHasSlice, ChildPC
  <2>5. Halving'
    <3>1. count[p] <= (l.given + 1) \div 2 /\ l.reg <= l.given
      BY <2>1 DEF InitSlice, Halving
    <3>2. \A m, g, r \in Nat : m <= (g + 1) \div 2 /\ r <= g => m + r \div 2 <= g
      BY SMTT(30)
    <3>3. count[p] + l.reg \div 2 <= l.given
      BY <1>4, <2>2, <3>1, <3>2
    <3> QED BY <2>1, <2>2, <3>3 DEF Halving
  <2> QED BY <1>3, <2>3, <2>4, <2>5 DEF InitSlice
<1>12. CASE fork_table \/ SET_LINKS
  <2>1. UNCHANGED <<run_list, count, loc>>
    BY <1>12 DEF fork_table, SET_LINKS, queue
  <2>2. /\ base[init_task] \in {"f_table", "link1", "link2", "link3", "link4"}
        /\ base'[init_task] \in {"link1", "link2", "link3", "link4", "wake"}
    <3>1. CASE fork_table
      BY <1>1, <3>1 DEF fork_table, Running, Goto
    <3>2. CASE SET_LINKS
      <4>1. PICK k \in 1 .. 4 : Running(LinkPC[k]) /\ Goto(LinkPC[k + 1])
        BY <3>2 DEF SET_LINKS
      <4>2. k = 1 \/ k = 2 \/ k = 3 \/ k = 4
        BY SMTT(30)
      <4> QED BY <1>1, <4>1, <4>2, SMTT(30) DEF Running, Goto, LinkPC
    <3> QED BY <1>12, <3>1, <3>2
  <2>3. NotLinked'
    BY <1>5, <2>1, <2>2 DEF InitSlice, NotLinked
  <2>4. LastHasSlice'
    BY <2>1, <2>2 DEF InitSlice, LastHasSlice, ChildPC
  <2>5. Halving'
    BY <2>1, <2>2 DEF InitSlice, Halving
  <2> QED BY <1>3, <2>3, <2>4, <2>5 DEF InitSlice
<1>13. CASE wake_up_process
  <2>1. /\ base[init_task] = "wake" /\ base'[init_task] = "add1"
        /\ UNCHANGED <<run_list, count>> /\ loc'[init_task].p = p
        /\ loc'[init_task].next = run_list.next[rq_head]
    BY <1>1, <1>13 DEF wake_up_process, Running, Goto, queue
  <2>2. NotLinked'
    BY <1>5, <2>1 DEF InitSlice, NotLinked
  <2>3. LastHasSlice'
    BY <2>1 DEF InitSlice, LastHasSlice, ChildPC
  <2>4. Halving'
    BY <2>1 DEF Halving
  <2> QED BY <1>3, <2>2, <2>3, <2>4 DEF InitSlice
<1>14. CASE enqueue_add
  <2>1. PICK k \in 1 .. 4 :
          /\ Running(AddPC[k]) /\ Goto(AddPC[k + 1])
          /\ run_list' = list_add_store(run_list, p, rq_head, l.next, k)
    BY <1>14 DEF enqueue_add, child
  <2>2. k = 1 \/ k = 2 \/ k = 3 \/ k = 4
    BY SMTT(30)
  <2>3. /\ base[init_task] \in {"add1", "add2", "add3", "add4"}
        /\ base'[init_task] = IF k = 4 THEN "nr_running" ELSE AddPC[k + 1]
        /\ k # 4 => base'[init_task] \in {"add2", "add3", "add4"}
    BY <1>1, <2>1, <2>2, SMTT(30) DEF Running, Goto, AddPC
  <2>4. UNCHANGED <<count, loc>> /\ p \in Page /\ p \notin Fresh
        /\ l.next = run_list.next[rq_head]
    BY <1>4, <1>14, <2>3 DEF enqueue_add, InitSlice, LastHasSlice, ChildPC
  <2>5. /\ \A n \in Node : n # p /\ n # rq_head => run_list'.next[n] = run_list.next[n]
        /\ run_list'.next[p] \in {run_list.next[p], run_list.next[rq_head]}
        /\ run_list'.next[rq_head] = IF k = 4 THEN p ELSE run_list.next[rq_head]
    BY <1>1, <2>1, <2>2, <2>4, SMTT(30) DEF list_add_store
  <2>6. NotLinked'
    BY <1>1, <1>4, <1>5, <2>3, <2>4, <2>5 DEF InitSlice, NotLinked
  <2>7. LastHasSlice'
    <3>1. \A n \in Page : run_list'.next[n] = rq_head => count[n] >= 1
      BY <1>1, <2>3, <2>4, <2>5 DEF InitSlice, LastHasSlice, ChildPC
    <3>2. run_list'.next[rq_head] = rq_head =>
            run_list.next[rq_head] = rq_head /\ k # 4
      BY <1>1, <2>4, <2>5
    <3> QED BY <1>1, <2>3, <2>4, <2>5, <3>1, <3>2 DEF InitSlice, LastHasSlice, ChildPC
  <2>8. Halving'
    BY <2>3 DEF Halving
  <2> QED BY <1>3, <2>6, <2>7, <2>8 DEF InitSlice
<1> QED BY <1>7, <1>8, <1>9, <1>10, <1>11, <1>12, <1>13, <1>14

LEMMA SliceStep ==
  ASSUME PreemptInv, InitUnqueued, SliceInv, [Next]_vars
  PROVE  SliceInv'
<1>1. InitForks'
  BY InitForksStep DEF SliceInv
<1>2. ASSUME cur' = init_task
      PROVE  InitSlice'
  <2>1. cur = init_task
    BY <1>2, Frames DEF InitUnqueued, cpu_switch_to
  <2>2. InitForks /\ InitSlice /\ base[init_task] \notin {"body", "sched_leave"}
    BY <2>1 DEF SliceInv, InitSlice, InitForks
  <2>3. ~(schedule \/ schedule_return \/ set_sleep \/ call_wake)
    BY <2>1, <2>2 DEF schedule, schedule_return, set_sleep, call_wake, Running
  <2>4. ~preempt_return
    <3>1. Head(<<"enter">>) # "leave"
      BY SMTT(30)
    <3> QED BY <2>1, <2>2, <3>1 DEF preempt_return, InPreempt, InitSlice, NoReset
  <2>5. CASE UNCHANGED vars
    BY <2>2, <2>5 DEF vars, InitSlice, NotLinked, LastHasSlice, NoReset, Halving, Fresh
  <2>6. stopped => UNCHANGED vars
    BY DEF stopped
  <2> QED BY <1>2, <2>1, <2>2, <2>3, <2>4, <2>5, <2>6, SliceTick, SlicePick, SliceFork
          DEF Next, Kernel, Client
<1> QED BY <1>1, <1>2 DEF SliceInv, InitSlice

(* do_fork halves the slice: with ticks and preemptions between its two    *)
(* assignments parent and child never hold more than the parent had.       *)
THEOREM SliceShared == Spec => []ForkSharesSlice
<1>1. Init => SliceInv
  <2> SUFFICES ASSUME Init PROVE SliceInv
    OBVIOUS
  <2>1. /\ run_list.next = [n \in Node |-> IF n = rq_head THEN rq_head ELSE NULL]
        /\ init_task \in Task /\ rq_head \notin Task /\ NULL # rq_head
        /\ Page \subseteq Node
    BY PageFacts DEF Init, sched_init, INIT_LIST_HEAD, Unlinked
  <2>2. base[init_task] = "main" /\ count[init_task] >= 1
    BY <2>1, SchedAssumption, SMTT(30) DEF Init
  <2>3. InitForks
    BY <2>1, <2>2 DEF Init, InitForks
  <2>4. NotLinked
    BY <2>1, <2>2, PageFacts DEF NotLinked, Fresh
  <2>5. LastHasSlice
    BY <2>1, <2>2, PageFacts DEF LastHasSlice, ChildPC
  <2>6. NoReset /\ Halving
    BY <2>1, <2>2 DEF Init, NoReset, NoPick, Halving
  <2> QED BY <2>3, <2>4, <2>5, <2>6 DEF SliceInv
<1>2. PreemptInv /\ SliceInv => ForkSharesSlice
  <2> SUFFICES ASSUME PreemptInv, SliceInv,
                      base[cur] \in {"f_table", "link1", "link2", "link3", "link4"}
               PROVE  count[child] + count[cur] <= loc[cur].given
    BY DEF ForkSharesSlice
  <2>1. cur = init_task
    BY DEF PreemptInv, OnlyInitForks, ForkPC, TypeOK
  <2> QED BY <2>1 DEF SliceInv, Halving, child
<1> QED BY <1>1, <1>2, SliceStep, PreemptInvariant, UnqueuedInvariant, PTL DEF Spec
------------------------------------------------------------------------------
(* While `next` is unwritten the loop has not passed a node; a reset has   *)
(* seen one, since it needs a count of 0.                                  *)
UninitInv ==
  /\ pick.next = UNINIT =>
       /\ pick.at = "scan"   => pick.tmp = run_list.next[rq_head] /\ pick.c = -1000
       /\ pick.at = "switch" => run_list.next[rq_head] = rq_head
       /\ pick.at # "reset"
  /\ mode = "wild" => run_list.next[rq_head] = rq_head

LEMMA UninitStep ==
  ASSUME TypeOK, UninitInv, [Next]_vars
  PROVE  UninitInv'
<1>1. /\ pick \in [at : {"none", "scan", "reset", "switch"},
                   tmp : Pointer, c : Int, next : Task \cup {UNINIT}]
      /\ count \in [Task -> Nat] /\ UNINIT \notin Task
      /\ mode \in {"ok", "wild", "fault"}
  <2>1. UNINIT \notin Task
    BY SchedAssumption, SMTT(30) DEF Task, UNINIT, init_task, Page, PA!Page, PA!MapIndex
  <2> QED BY <2>1 DEF TypeOK
<1>2. CASE UNCHANGED <<run_list, pick, mode>>
  BY <1>2 DEF UninitInv
<1>3. CASE __schedule
  BY <1>3 DEF UninitInv, __schedule, repeat, InPreempt, Running
<1>4. CASE pick_scan
  <2>1. CASE pick.tmp \in Task
    <3>1. count[pick.tmp] > -1000
      BY <1>1, <2>1, SMTT(30)
    <3>2. /\ UNCHANGED <<run_list, mode>> /\ pick.at = "scan" /\ mode = "ok"
          /\ pick' = [pick EXCEPT
               !.c    = IF count[pick.tmp] > pick.c THEN count[pick.tmp] ELSE @,
               !.next = IF count[pick.tmp] > pick.c THEN pick.tmp ELSE @,
               !.tmp  = run_list.next[pick.tmp]]
      BY <1>4, <2>1 DEF pick_scan, goodness, queue
    <3>3. pick'.next # UNINIT
      BY <1>1, <2>1, <3>1, <3>2, SMTT(30) DEF UninitInv
    <3> QED BY <3>2, <3>3 DEF UninitInv
  <2>2. CASE pick.tmp \notin Task
    BY <1>4, <2>2, SMTT(30) DEF UninitInv, pick_scan, queue
  <2> QED BY <2>1, <2>2
<1>5. CASE pick_scanned
  BY <1>1, <1>5, SMTT(30) DEF UninitInv, pick_scanned, when_spent, queue
<1>6. CASE reset_score
  BY <1>1, <1>6 DEF UninitInv, reset_score, queue
<1>7. CASE reset_done
  BY <1>1, <1>7 DEF UninitInv, reset_done, repeat, queue
<1>8. CASE cpu_switch_to \/ keep_running
  BY <1>8, SMTT(30) DEF UninitInv, cpu_switch_to, keep_running, NoPick, AtSwitch
<1>9. CASE switch_wild
  BY <1>1, <1>9 DEF UninitInv, switch_wild, AtSwitch, queue
<1>10. CASE enqueue_add
  BY <1>10 DEF UninitInv, enqueue_add, Running
<1> QED
  BY <1>2, <1>3, <1>4, <1>5, <1>6, <1>7, <1>8, <1>9, <1>10
  DEF Next, Kernel, Client, vars, queue, fork, el1_irq, preempt_return, schedule,
      schedule_return, kernel_main, fork_page, fork_slot, fork_count, fork_load,
      fork_store, fork_table, SET_LINKS, wake_up_process, enqueue_count,
      set_sleep, call_wake, stopped

(* pick_next_task_simple returns its uninitialised `next` only from an     *)
(* empty run queue, whatever the counts and the interleaving.              *)
THEOREM UninitFromEmpty == Spec => []UninitOnlyWhenEmpty
<1>1. Init => UninitInv
  BY SMTT(30) DEF Init, UninitInv, NoPick
<1>2. TypeOK /\ UninitInv /\ [Next]_vars => UninitInv'
  BY UninitStep
<1>3. UninitInv => UninitOnlyWhenEmpty
  BY DEF UninitInv, UninitOnlyWhenEmpty
<1> QED BY <1>1, <1>2, <1>3, TypeCorrect, PTL DEF Spec
------------------------------------------------------------------------------
(* Only threads that use schedule() are inside it, and whoever picks came  *)
(* through schedule() or preempt_schedule_irq.                             *)
MaskInv ==
  /\ MaskConfined
  /\ \A t \in Task : base[t] \in {"sched_enter", "sched_leave"} => t \in Voluntary
  /\ pick.at # "none" => /\ irqOn = FALSE
                         /\ cur \in Voluntary \/ traps[cur] = <<"leave">>

LEMMA MaskStep ==
  ASSUME PreemptInv, MaskInv, [Next]_vars
  PROVE  MaskInv'
<1>1. /\ base \in [Task -> BasePC] /\ cur \in Task /\ cur' \in Task
      /\ traps \in [Task -> Seq({"enter", "leave"})] /\ irqOn \in BOOLEAN
      /\ CallersMask \in BOOLEAN /\ mode \in {"ok", "wild", "fault"}
      /\ pick \in [at : {"none", "scan", "reset", "switch"},
                   tmp : Pointer, c : Int, next : Task \cup {UNINIT}]
  <2>1. cur' \in Task
    BY Frames DEF PreemptInv, TypeOK, cpu_switch_to
  <2> QED BY <2>1, SchedAssumption DEF PreemptInv, TypeOK
<1> DEFINE InSched == \A t \in Task : base'[t] \in {"sched_enter", "sched_leave"} => t \in Voluntary
<1>2. InSched
  <2> SUFFICES ASSUME NEW t \in Task, base'[t] \in {"sched_enter", "sched_leave"}
               PROVE  t \in Voluntary
    OBVIOUS
  <2>1. CASE t # cur
    BY <2>1, OthersStay DEF PreemptInv, MaskInv
  <2>2. CASE t = cur
    <3>1. CASE schedule
      BY <2>2, <3>1 DEF schedule
    <3>2. CASE base[cur] \in {"sched_enter", "sched_leave"}
      BY <2>2, <3>2 DEF MaskInv
    <3>3. \/ UNCHANGED base
          \/ schedule
          \/ base[cur] = "sched_enter"
          \/ \E pc \in BasePC \ {"sched_enter", "sched_leave"} : Goto(pc)
      <4>1. CASE SET_LINKS \/ enqueue_add
        <5>1. PICK k \in 1 .. 4 : Goto(LinkPC[k + 1]) \/ Goto(AddPC[k + 1])
          BY <4>1 DEF SET_LINKS, enqueue_add
        <5>2. k = 1 \/ k = 2 \/ k = 3 \/ k = 4
          BY SMTT(30)
        <5>3. /\ LinkPC[k + 1] \in BasePC \ {"sched_enter", "sched_leave"}
              /\ AddPC[k + 1] \in BasePC \ {"sched_enter", "sched_leave"}
          BY <5>2, SMTT(30) DEF LinkPC, AddPC, BasePC
        <5> QED BY <5>1, <5>3
      <4>2. CASE fork_page \/ fork_slot \/ enqueue_count \/ schedule_return
        BY <4>2 DEF fork_page, fork_slot, enqueue_count, schedule_return, Return, Home, BasePC
      <4>3. CASE \/ kernel_main \/ fork_count \/ fork_load \/ fork_store \/ fork_table
                 \/ wake_up_process \/ call_wake
        BY <4>3 DEF kernel_main, fork_count, fork_load, fork_store, fork_table, wake_up_process,
                    call_wake, BasePC
      <4>4. CASE __schedule
        BY <4>4 DEF __schedule, Running
      <4>5. CASE \/ UNCHANGED vars \/ el1_irq \/ preempt_return \/ pick_scan \/ pick_scanned
                 \/ reset_score \/ reset_done \/ cpu_switch_to \/ keep_running \/ switch_wild
                 \/ set_sleep \/ stopped
        BY <4>5 DEF vars, el1_irq, preempt_return, pick_scan, pick_scanned, reset_score,
                    reset_done, cpu_switch_to, keep_running, switch_wild, set_sleep, stopped
      <4> QED BY <4>1, <4>2, <4>3, <4>4, <4>5 DEF Next, Kernel, Client
    <3> QED BY <1>1, <2>2, <3>1, <3>2, <3>3 DEF Goto
  <2> QED BY <2>1, <2>2
<1> HIDE DEF InSched
<1>3. CASE __schedule
  <2>1. cur' = cur /\ pick'.at = "scan" /\ irqOn' = FALSE
    BY <1>3 DEF __schedule, repeat, who
  <2>2. CASE InPreempt("enter") /\ traps' = [traps EXCEPT ![cur] = <<"leave">> \o Tail(@)]
    <3>1. traps[cur] = <<"enter">>
      BY <1>1, <2>2, SMTT(30) DEF PreemptInv, OneFrame, InPreempt
    <3>2. <<"leave">> \o Tail(<<"enter">>) = <<"leave">>
      BY FrameSeqs
    <3> QED BY <1>1, <1>2, <2>1, <2>2, <3>1, <3>2 DEF MaskInv, MaskConfined, InSched
  <2>3. CASE Running("sched_enter")
    BY <1>1, <1>2, <2>1, <2>3 DEF MaskInv, MaskConfined, Running, InSched
  <2> QED BY <1>3, <2>2, <2>3 DEF __schedule
<1>4. CASE pick_scan \/ pick_scanned \/ reset_score \/ reset_done \/ switch_wild
  <2>1. /\ pick.at # "none" /\ UNCHANGED <<cur, traps, irqOn>>
        /\ pick'.at # "none"
    <3>1. CASE pick_scan
      BY <1>1, <3>1 DEF pick_scan, who
    <3>2. CASE pick_scanned
      BY <1>1, <3>2 DEF pick_scanned, when_spent, who
    <3>3. CASE reset_score
      BY <1>1, <3>3 DEF reset_score, who
    <3>4. CASE reset_done
      BY <3>4 DEF reset_done, repeat, who
    <3>5. CASE switch_wild
      BY <3>5 DEF switch_wild, AtSwitch, who
    <3> QED BY <1>4, <3>1, <3>2, <3>3, <3>4, <3>5
  <2> QED BY <1>2, <2>1 DEF MaskInv, MaskConfined, InSched
<1>5. CASE cpu_switch_to
  BY <1>2, <1>5 DEF cpu_switch_to, schedule_tail, NoPick, MaskInv, MaskConfined, InSched
<1>6. CASE keep_running
  BY <1>2, <1>6 DEF keep_running, AtSwitch, NoPick, who, MaskInv, MaskConfined, InSched
<1>7. CASE preempt_return
  BY <1>2, <1>7 DEF preempt_return, InPreempt, MaskInv, MaskConfined, InSched
<1>8. CASE el1_irq
  <2>1. irqOn = TRUE /\ irqOn' = TRUE /\ UNCHANGED <<cur, pick>>
    BY <1>1, <1>8 DEF el1_irq, who
  <2>2. pick'.at = "none"
    BY <2>1 DEF MaskInv
  <2> QED BY <1>2, <2>1, <2>2 DEF MaskInv, MaskConfined, InSched
<1>9. CASE schedule_return \/ Client
  <2>1. /\ UNCHANGED <<cur, pick>> /\ pick.at = "none"
        /\ cur \in Voluntary \/ base[cur] = "sched_leave"
    BY <1>9 DEF Client, schedule_return, schedule, set_sleep, call_wake, Running, who
  <2>2. cur \in Voluntary
    BY <1>1, <2>1 DEF MaskInv
  <2> QED BY <1>2, <2>1, <2>2 DEF MaskInv, MaskConfined, InSched
<1>10. CASE UNCHANGED vars \/ stopped
  BY <1>2, <1>10 DEF stopped, vars, MaskInv, MaskConfined, Calling, InSched
<1>11. CASE \/ kernel_main \/ fork_page \/ fork_slot \/ fork_count \/ fork_load \/ fork_store
            \/ fork_table \/ SET_LINKS \/ wake_up_process \/ enqueue_add \/ enqueue_count
  <2>1. /\ UNCHANGED <<cur, pick, traps, mode>>
        /\ traps[cur] = <<>> /\ pick.at = "none" /\ mode = "ok"
    BY <1>11 DEF kernel_main, fork_page, fork_slot, fork_count, fork_load, fork_store, fork_table,
                 SET_LINKS, wake_up_process, enqueue_add, enqueue_count, Running, who
  <2>2. \/ CallersMask /\ irqOn' = TRUE
        \/ ~CallersMask /\ irqOn' = irqOn
        \/ /\ irqOn' = irqOn \/ CallersMask
           /\ \E pc \in BasePC \ {"main", "body", "sched_enter", "sched_leave"} : Goto(pc)
    <3>1. CASE SET_LINKS \/ enqueue_add
      BY <3>1, SMTT(30) DEF SET_LINKS, enqueue_add, LinkPC, AddPC, BasePC
    <3>2. CASE fork_page \/ fork_slot \/ enqueue_count
      BY <1>1, <3>2 DEF fork_page, fork_slot, enqueue_count, Return, BasePC
    <3>3. CASE kernel_main
      BY <1>1, <3>3 DEF kernel_main, Mask, BasePC
    <3>4. CASE fork_count \/ fork_load \/ fork_store \/ fork_table \/ wake_up_process
      BY <3>4 DEF fork_count, fork_load, fork_store, fork_table, wake_up_process, BasePC
    <3> QED BY <1>11, <3>1, <3>2, <3>3, <3>4
  <2>3. <<>> # <<"leave">>
    BY FrameSeqs
  <2>4. irqOn = FALSE /\ cur \notin Voluntary => CallersMask
    BY <2>1, <2>3 DEF MaskInv, MaskConfined
  <2>5. irqOn' = FALSE /\ cur \notin Voluntary => CallersMask /\ Calling(cur)'
    BY <1>1, <2>1, <2>2, <2>4 DEF Goto, Calling
  <2>6. irqOn' \in BOOLEAN
    BY <1>1, <2>2, <1>11
       DEF kernel_main, fork_page, fork_slot, fork_count, fork_load, fork_store, fork_table,
           SET_LINKS, wake_up_process, enqueue_add, enqueue_count, Return, Mask
  <2>7. MaskConfined'
    BY <2>1, <2>5, <2>6 DEF MaskConfined, Calling
  <2> QED BY <1>2, <2>1, <2>7 DEF MaskInv, InSched
<1> QED BY <1>3, <1>4, <1>5, <1>6, <1>7, <1>8, <1>9, <1>10, <1>11 DEF Next, Kernel

(* schedule_tail, ret_from_fork, eret: no switch leaves a task that does   *)
(* not use schedule() with IRQs masked.                                    *)
THEOREM MaskStaysConfined == Spec => []MaskConfined
<1>1. Init => MaskInv
  BY SMTT(30) DEF Init, MaskInv, MaskConfined, NoPick
<1>2. PreemptInv /\ MaskInv /\ [Next]_vars => MaskInv'
  BY MaskStep
<1>3. MaskInv => MaskConfined
  BY DEF MaskInv
<1> QED BY <1>1, <1>2, <1>3, PreemptInvariant, PTL DEF Spec
==============================================================================
