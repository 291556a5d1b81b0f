--------------------------- MODULE SchedQueueProofs --------------------------
(***************************************************************************)
(* The run queue and the task list under do_fork, wake_up_process, sleep   *)
(* and preemption: the queue is a linked list of exactly the threads that  *)
(* may run, and no loop leaves the lists.  From this, the scheduler core   *)
(* implements TimeShare, and rq->nr_running is the length of the queue.    *)
(***************************************************************************)
EXTENDS SchedProofs, SchedShare

(* A leaf that names no prover is one for Zenon.                           *)
USE ZenonT(30)

(* The callers of do_fork and wake_up_process mask IRQs, or, as in this    *)
(* kernel, no thread but init_task ever calls them or sleeps.              *)
Disciplined == CallersMask \/ Voluntary = {}

(* Between copy_thread, or the choice of the task to wake, and the store   *)
(* of list_add that publishes it.                                          *)
ArrivePC == {"f_count", "f_load", "f_store", "f_table", "link1", "link2",
             "link3", "link4", "wake", "add1", "add2", "add3", "add4"}

Arriving(t) == \E u \in Task : base[u] \in ArrivePC /\ loc[u].p = t

(* At most one task is inside do_fork or wake_up_process.                  *)
OneCaller ==
  \A t \in Task : Calling(t) =>
    IF CallersMask
    THEN t = cur /\ ~irqOn /\ traps[t] = <<>> /\ pick.at = "none"
    ELSE t = init_task

Sleepers == \A t \in Task : state[t] # TASK_RUNNING => t \in Voluntary

(* The task list is a chain of the tasks that are written, but for the one *)
(* whose SET_LINKS has not published it.                                   *)
Unlisted(t) ==
  /\ base[init_task] \in {"f_count", "f_load", "f_store", "f_table", "link1",
                          "link2", "link3"}
  /\ loc[init_task].p = t

ListInv ==
  LET l == OnList \cup {init_task}  last == links.prev[init_task] IN
  /\ \A t \in Page : t \in OnList <=> t \notin Fresh /\ ~Unlisted(t)
  /\ \A n \in l : links.next[n] \in l
  /\ last \in l /\ (base[init_task] # "link4" => links.next[last] = init_task)
  /\ base[init_task] \in {"link2", "link3", "link4"} =>
       links.next[loc[init_task].p] = init_task

(* The run queue is doubly linked, but for the first node while list_add   *)
(* is between its stores.                                                  *)
QueueLinked ==
  LET q == OnQueue \cup {rq_head} IN
  \A n \in q : /\ run_list.next[n] \in q
               /\ \/ run_list.prev[run_list.next[n]] = n
                  \/ n = rq_head /\ \E t \in Task : base[t] \in {"add2", "add3", "add4"}

(* It holds every written thread that may run and the one that runs.       *)
QueueMembers ==
  /\ \A t \in Page :
       t \in OnQueue <=> /\ t \notin Fresh /\ ~Arriving(t)
                         /\ state[t] = TASK_RUNNING \/ (t = cur /\ pick.at = "none")
  /\ cur = init_task \/ pick.at # "none" \/ cur \in OnQueue

(* What the stores of list_add have written.                               *)
AddInv ==
  \A t \in Task :
    LET p == loc[t].p  first == loc[t].next IN
    /\ base[t] \in {"add1", "add2", "add3", "add4"} =>
         first = run_list.next[rq_head] /\ state[p] = TASK_RUNNING
    /\ base[t] \in {"add2", "add3", "add4"} => run_list.prev[first] = p
    /\ base[t] \in {"add3", "add4"} => run_list.next[p] = first
    /\ base[t] = "add4" => run_list.prev[p] = rq_head

(* The loops of the pick stay on the lists.                                *)
PickInv ==
  /\ pick.at = "scan"  => pick.tmp \in OnQueue \cup {rq_head}
  /\ pick.at = "reset" => pick.tmp \in OnList \cup {init_task}
  /\ pick.at # "none"  => pick.next \in OnQueue \cup {UNINIT}

(* g_task names no task that copy_thread has not written.                  *)
TableWritten == \A i \in 0 .. NR_TASK - 1 : g_task[i] \notin Fresh

QueueInv == /\ OneCaller /\ Sleepers /\ ListInv /\ QueueLinked /\ QueueMembers
            /\ AddInv /\ PickInv /\ TableWritten /\ NoFault
------------------------------------------------------------------------------
(* Walk(nx, head) is the least set that a walk from head does not leave.   *)
LEMMA WalkClosed ==
  ASSUME NEW nx, NEW head
  PROVE  /\ Walk(nx, head) \subseteq Page
         /\ Closed(nx, head, Walk(nx, head))
  BY DEF Walk, Closed

LEMMA WalkLeast ==
  ASSUME NEW nx, NEW head, NEW S \in SUBSET Page, Closed(nx, head, S)
  PROVE  Walk(nx, head) \subseteq S
  BY DEF Walk

(* Pointers of nodes that the walk does not come to do not matter.         *)
LEMMA WalkSame ==
  ASSUME NEW nx, NEW ny, NEW head,
         \A n \in Walk(nx, head) \cup {head} : ny[n] = nx[n]
  PROVE  Walk(ny, head) = Walk(nx, head)
<1> DEFINE W == Walk(nx, head)
           V == Walk(ny, head)
<1>1. /\ W \in SUBSET Page /\ Closed(nx, head, W)
      /\ V \in SUBSET Page /\ Closed(ny, head, V)
  BY WalkClosed
<1> HIDE DEF W, V
<1>2. Closed(ny, head, W) /\ Closed(nx, head, V \cap W)
  BY <1>1 DEF Closed, W
<1>3. V \subseteq W
  BY <1>1, <1>2, WalkLeast DEF V
<1>4. W \subseteq V \cap W
  <2>1. V \cap W \in SUBSET Page
    BY <1>1
  <2> QED BY <1>2, <2>1, WalkLeast DEF W
<1> QED BY <1>3, <1>4 DEF W, V

(* list_add: a node p before all others.                                   *)
LEMMA WalkInsert ==
  ASSUME NEW nx, NEW ny, NEW head, NEW p \in Page, head \notin Page,
         p \notin Walk(nx, head),
         ny[head] = p, ny[p] = nx[head],
         \A n \in Walk(nx, head) : ny[n] = nx[n]
  PROVE  Walk(ny, head) = Walk(nx, head) \cup {p}
<1> DEFINE W == Walk(nx, head)
           V == Walk(ny, head)
<1>1. /\ W \in SUBSET Page /\ Closed(nx, head, W)
      /\ V \in SUBSET Page /\ Closed(ny, head, V)
  BY WalkClosed
<1>2. \A n \in W : ny[n] = nx[n]
  OBVIOUS
<1> HIDE DEF W, V
<1>3. Closed(ny, head, W \cup {p})
  BY <1>1, <1>2 DEF Closed
<1>4. V \subseteq W \cup {p}
  <2>1. W \cup {p} \in SUBSET Page
    BY <1>1
  <2> QED BY <1>3, <2>1, WalkLeast DEF V
<1>5. p \in V
  BY <1>1 DEF Closed
<1>6. Closed(nx, head, V \cap W)
  BY <1>1, <1>2, <1>5 DEF Closed
<1>7. W \subseteq V \cap W
  <2>1. V \cap W \in SUBSET Page
    BY <1>1
  <2> QED BY <1>6, <2>1, WalkLeast DEF W
<1> QED BY <1>4, <1>5, <1>7 DEF W, V

(* SET_LINKS: a node p after the last one, x.                              *)
LEMMA WalkAppend ==
  ASSUME NEW nx, NEW ny, NEW head, NEW p \in Page,
         p \notin Walk(nx, head), p # head,
         NEW x \in Walk(nx, head) \cup {head}, nx[x] \notin Page,
         ny[x] = p, ny[p] \notin Page,
         \A n \in Walk(nx, head) \cup {head} : n # x => ny[n] = nx[n]
  PROVE  Walk(ny, head) = Walk(nx, head) \cup {p}
<1> DEFINE W == Walk(nx, head)
           V == Walk(ny, head)
<1>1. /\ W \in SUBSET Page /\ Closed(nx, head, W)
      /\ V \in SUBSET Page /\ Closed(ny, head, V)
      /\ x \in W \cup {head} /\ p \notin W
      /\ \A n \in W \cup {head} : n # x => ny[n] = nx[n]
  BY WalkClosed
<1> HIDE DEF W, V
<1>2. Closed(ny, head, W \cup {p})
  BY <1>1 DEF Closed
<1>3. V \subseteq W \cup {p}
  <2>1. W \cup {p} \in SUBSET Page
    BY <1>1
  <2> QED BY <1>2, <2>1, WalkLeast DEF V
<1>4. Closed(nx, head, V \cap W)
  BY <1>1 DEF Closed
<1>5. W \subseteq V \cap W
  <2>1. V \cap W \in SUBSET Page
    BY <1>1
  <2> QED BY <1>4, <2>1, WalkLeast DEF W
<1>6. p \in V
  BY <1>1, <1>5 DEF Closed
<1> QED BY <1>3, <1>5, <1>6 DEF W, V

(* Something on the walk, or its head, points to every node of it; no node *)
(* points to itself if only one does.                                      *)
LEMMA WalkBefore ==
  ASSUME NEW nx, NEW head, head \notin Page, NEW p \in Walk(nx, head)
  PROVE  \E n \in (Walk(nx, head) \cup {head}) \ {p} : nx[n] = p
<1> DEFINE W == Walk(nx, head)
<1> SUFFICES ASSUME \A n \in (W \cup {head}) \ {p} : nx[n] # p
             PROVE  FALSE
  OBVIOUS
<1>1. W \in SUBSET Page /\ Closed(nx, head, W) /\ p \in W
  BY WalkClosed
<1> HIDE DEF W
<1>2. Closed(nx, head, W \ {p}) /\ W \ {p} \in SUBSET Page
  BY <1>1 DEF Closed
<1>3. W \subseteq W \ {p}
  BY <1>2, WalkLeast DEF W
<1> QED BY <1>1, <1>3

(* list_del: the node p that only x points to is taken out.                *)
LEMMA WalkRemove ==
  ASSUME NEW nx, NEW ny, NEW head, head \notin Page,
         NEW p \in Walk(nx, head),
         NEW x \in Walk(nx, head) \cup {head}, x # p, nx[x] = p,
         \A n \in Walk(nx, head) \cup {head} : nx[n] = p => n = x,
         ny[x] = nx[p], ny[p] \notin Page,
         \A n \in Walk(nx, head) \cup {head} : n # x /\ n # p => ny[n] = nx[n]
  PROVE  Walk(ny, head) = Walk(nx, head) \ {p}
<1> DEFINE W == Walk(nx, head)
           V == Walk(ny, head)
<1>1. /\ W \in SUBSET Page /\ Closed(nx, head, W)
      /\ V \in SUBSET Page /\ Closed(ny, head, V)
      /\ x \in W \cup {head} /\ p \in W
      /\ \A n \in W \cup {head} : nx[n] = p => n = x
      /\ \A n \in W \cup {head} : n # x /\ n # p => ny[n] = nx[n]
  BY WalkClosed
<1> HIDE DEF W, V
<1>2. Closed(ny, head, W \ {p})
  BY <1>1 DEF Closed
<1>3. V \subseteq W \ {p}
  <2>1. W \ {p} \in SUBSET Page
    BY <1>1
  <2> QED BY <1>2, <2>1, WalkLeast DEF V
<1>4. x \in V \cup {head} => Closed(nx, head, V \cup {p})
  BY <1>1, <1>3 DEF Closed
<1>5. x \notin V \cup {head} => Closed(nx, head, V)
  BY <1>1, <1>3 DEF Closed
<1>6. W \subseteq V \cup {p}
  <2>1. V \cup {p} \in SUBSET Page
    BY <1>1
  <2>2. CASE x \in V \cup {head}
    BY <1>4, <2>1, <2>2, WalkLeast DEF W
  <2>3. CASE x \notin V \cup {head}
    BY <1>1, <1>5, <2>3, WalkLeast DEF W
  <2> QED BY <2>2, <2>3
<1> QED BY <1>3, <1>6 DEF W, V
------------------------------------------------------------------------------
LEMMA UniqueCaller ==
  ASSUME OneCaller, NEW t \in Task, NEW u \in Task, Calling(t), Calling(u)
  PROVE  t = u
  BY DEF OneCaller

LEMMA OneCallerStep ==
  ASSUME Disciplined, PreemptInv, OneCaller, [Next]_vars
  PROVE  OneCaller'
<1> DEFINE Idle(pc) == pc \in {"main", "body", "sched_enter", "sched_leave"}
<1> SUFFICES ASSUME NEW t \in Task, ~Idle(base'[t])
             PROVE  IF CallersMask
                    THEN /\ t = cur' /\ ~irqOn' /\ traps'[t] = <<>>
                         /\ pick'.at = "none"
                    ELSE t = init_task
  BY DEF OneCaller, Calling
<1>1. /\ base \in [Task -> BasePC] /\ cur \in Task /\ init_task \in Task
      /\ irqOn \in BOOLEAN
  BY PageFacts DEF PreemptInv, TypeOK
<1>2. CASE t # cur
  <2>1. Calling(t)
    BY <1>2, OthersStay DEF PreemptInv, Calling
  <2> QED BY <1>2, <2>1 DEF OneCaller
<1>3. CASE t = cur /\ Idle(base[cur])
  <2>1. kernel_main \/ call_wake
    <3>1. ~UNCHANGED base
      BY <1>3
    <3>2. CASE SET_LINKS \/ enqueue_add
      <4>1. PICK k \in 1 .. 4 : base[cur] = LinkPC[k] \/ base[cur] = AddPC[k]
        BY <3>2 DEF SET_LINKS, enqueue_add, Running
      <4>2. k = 1 \/ k = 2 \/ k = 3 \/ k = 4
        BY SMTT(30)
      <4> QED BY <1>3, <4>1, <4>2, SMTT(30) DEF LinkPC, AddPC
    <3>3. CASE __schedule \/ schedule \/ schedule_return
      BY <1>1, <1>3, <3>1, <3>3 DEF __schedule, schedule, schedule_return, Goto
    <3> QED
      BY <1>3, <3>1, <3>2, <3>3
      DEF Next, Kernel, Client, vars, el1_irq, preempt_return, pick_scan,
          pick_scanned, reset_score, reset_done, cpu_switch_to, keep_running,
          switch_wild, fork_page, fork_slot, fork_count, fork_load, fork_store,
          fork_table, wake_up_process, enqueue_count, set_sleep, stopped, Running
  <2>2. UNCHANGED <<cur, traps, pick>> /\ traps[cur] = <<>> /\ pick.at = "none"
        /\ irqOn' = IF CallersMask THEN FALSE ELSE irqOn
    BY <2>1 DEF kernel_main, call_wake, Running, who, Mask
  <2>3. ~CallersMask => cur = init_task
    BY <1>1, <2>1 DEF Disciplined, kernel_main, call_wake, Running, PreemptInv,
       OnlyInitForks, ForkPC
  <2> QED BY <1>3, <2>2, <2>3
<1>4. CASE t = cur /\ ~Idle(base[cur])
  <2>1. IF CallersMask
        THEN ~irqOn /\ traps[cur] = <<>> /\ pick.at = "none"
        ELSE cur = init_task
    BY <1>1, <1>4 DEF OneCaller, Calling
  <2>2. CASE ~CallersMask
    BY <1>4, <2>1, <2>2
  <2>3. CASE CallersMask
    <3>1. ~(enqueue_count \/ kernel_main \/ schedule \/ schedule_return \/ call_wake)
      BY <1>1, <1>4 DEF enqueue_count, kernel_main, schedule, schedule_return,
         call_wake, Running, Return, Goto, Home
    <3>2. ~Return
      BY <1>1, <1>4 DEF Return, Goto, Home
    <3>3. ~(\/ el1_irq \/ preempt_return \/ __schedule \/ pick_scan \/ pick_scanned
            \/ reset_score \/ reset_done \/ cpu_switch_to \/ keep_running \/ switch_wild)
      BY <1>4, <2>1, <2>3 DEF el1_irq, preempt_return, __schedule, InPreempt,
         Running, pick_scan, pick_scanned, reset_score, reset_done,
         cpu_switch_to, keep_running, switch_wild, AtSwitch
    <3>4. UNCHANGED <<cur, irqOn, traps, pick>>
      BY <3>1, <3>2, <3>3
      DEF Next, Kernel, Client, vars, fork_page, fork_slot, fork_count,
          fork_load, fork_store, fork_table, SET_LINKS, wake_up_process,
          enqueue_add, set_sleep, stopped, who
    <3> QED BY <1>4, <2>1, <2>3, <3>4
  <2> QED BY <2>2, <2>3
<1> QED BY <1>2, <1>3, <1>4

LEMMA SleepersStep ==
  ASSUME PreemptInv, Sleepers, [Next]_vars
  PROVE  Sleepers'
<1>1. state \in [Task -> {TASK_RUNNING, TASK_INTERRUPTIBLE}]
  BY DEF PreemptInv, TypeOK
<1> QED BY <1>1, MoreFrames
        DEF Sleepers, fork_slot, copy_thread, wake_up_process, set_sleep

LEMMA TableStep ==
  ASSUME PreemptInv, TableWritten, [Next]_vars
  PROVE  TableWritten'
<1>1. Fresh' \subseteq Fresh
  BY FreshShrinks
<1>2. CASE UNCHANGED g_task
  BY <1>1, <1>2 DEF TableWritten
<1>3. CASE fork_table
  <2>1. /\ g_task \in [0 .. NR_TASK - 1 -> Task \cup {NULL}] /\ cur \in Task
        /\ base[cur] = "f_table" /\ g_task' = [g_task EXCEPT ![loc[cur].pid] = child]
    BY <1>3 DEF fork_table, Running, PreemptInv, TypeOK
  <2>2. child \notin Fresh
    BY <2>1 DEF PreemptInv, ForkedPage, ChildPC, child
  <2> QED BY <1>1, <2>1, <2>2 DEF TableWritten
<1> QED
  BY <1>2, <1>3
  DEF Next, Kernel, Client, vars, fork, el1_irq, preempt_return, __schedule,
      pick_scan, pick_scanned, reset_score, reset_done, cpu_switch_to,
      keep_running, switch_wild, schedule_return, kernel_main, fork_page,
      fork_slot, fork_count, fork_load, fork_store, SET_LINKS,
      wake_up_process, enqueue_add, enqueue_count, schedule, set_sleep,
      call_wake, stopped

(* The stores of SET_LINKS.                                                *)
LEMMA ListStores ==
  ASSUME PreemptInv, ListInv, cur = init_task, SET_LINKS
  PROVE  ListInv'
<1> DEFINE p == loc[init_task].p
           last == links.prev[init_task]
<1>1. PICK k \in 1 .. 4 : /\ Running(LinkPC[k]) /\ Goto(LinkPC[k + 1])
                          /\ links' = set_links_store(links, p, k)
  BY DEF SET_LINKS, child
<1>2. k = 1 \/ k = 2 \/ k = 3 \/ k = 4
  BY SMTT(30)
<1>3. /\ links \in [next : [Task -> Task \cup {NULL}], prev : [Task -> Task \cup {NULL}]]
      /\ init_task \in Task /\ init_task \notin Page /\ Page \subseteq Task
      /\ base \in [Task -> BasePC]
  BY PageFacts DEF PreemptInv, TypeOK
<1>4. /\ base[init_task] = LinkPC[k] /\ base'[init_task] = LinkPC[k + 1]
      /\ UNCHANGED loc /\ UNCHANGED ctx
  BY <1>1, <1>3 DEF Running, Goto, SET_LINKS, who
<1>5. p \in Page \ Fresh /\ Fresh' = Fresh /\ p # init_task
  BY <1>2, <1>3, <1>4, SMTT(30) DEF PreemptInv, ForkedPage, ChildPC, LinkPC, Fresh
<1>6. /\ OnList \subseteq Page /\ last \in OnList \cup {init_task}
      /\ \A n \in OnList \cup {init_task} : links.next[n] \in OnList \cup {init_task}
  BY WalkClosed DEF ListInv, OnList
<1>7. CASE k = 1
  <2>1. base[init_task] = "link1" /\ base'[init_task] = "link2"
    BY <1>4, <1>7, SMTT(30) DEF LinkPC
  <2>2. links.next' = [links.next EXCEPT ![p] = init_task] /\ UNCHANGED links.prev
    BY <1>1, <1>3, <1>7, SMTT(30) DEF set_links_store
  <2>3. p \notin OnList
    BY <1>5, <2>1 DEF ListInv, Unlisted
  <2>4. \A n \in OnList \cup {init_task} : links.next'[n] = links.next[n]
    BY <1>3, <1>5, <1>6, <2>2, <2>3
  <2>5. OnList' = OnList
    BY <2>4, WalkSame DEF OnList
  <2>6. \A t \in Page : Unlisted(t)' <=> Unlisted(t)
    BY <1>4, <2>1 DEF Unlisted
  <2>7. links.next'[p] = init_task
    BY <1>3, <1>5, <2>2
  <2> QED BY <1>4, <1>5, <1>6, <2>1, <2>2, <2>4, <2>5, <2>6, <2>7 DEF ListInv
<1>8. CASE k = 2
  <2>1. base[init_task] = "link2" /\ base'[init_task] = "link3"
    BY <1>4, <1>8, SMTT(30) DEF LinkPC
  <2>2. links.prev' = [links.prev EXCEPT ![p] = last] /\ UNCHANGED links.next
    BY <1>1, <1>3, <1>8, SMTT(30) DEF set_links_store
  <2>3. links.prev'[init_task] = last /\ OnList' = OnList
    BY <1>3, <1>5, <2>2 DEF OnList
  <2>4. \A t \in Page : Unlisted(t)' <=> Unlisted(t)
    BY <1>4, <2>1 DEF Unlisted
  <2> QED BY <1>4, <1>5, <2>1, <2>2, <2>3, <2>4 DEF ListInv
<1>9. CASE k = 3
  <2>1. base[init_task] = "link3" /\ base'[init_task] = "link4"
    BY <1>4, <1>9, SMTT(30) DEF LinkPC
  <2>2. links.next' = [links.next EXCEPT ![last] = p] /\ UNCHANGED links.prev
    BY <1>1, <1>3, <1>9, SMTT(30) DEF set_links_store
  <2>3. /\ p \notin OnList /\ links.next[last] = init_task
        /\ links.next[p] = init_task /\ last # p /\ last \in Task
    BY <1>3, <1>5, <1>6, <2>1 DEF ListInv, Unlisted
  <2>4. /\ links.next'[last] = p /\ links.next'[p] = init_task
        /\ \A n \in OnList \cup {init_task} : n # last => links.next'[n] = links.next[n]
    BY <1>3, <1>5, <1>6, <2>2, <2>3, SMTT(30)
  <2>5. OnList' = OnList \cup {p}
    BY <1>3, <1>5, <1>6, <2>3, <2>4, WalkAppend, SMTT(30) DEF OnList
  <2>6. \A t \in Page : ~Unlisted(t)' /\ (Unlisted(t) <=> t = p)
    BY <1>4, <2>1 DEF Unlisted
  <2> QED BY <1>4, <1>5, <1>6, <2>1, <2>2, <2>4, <2>5, <2>6 DEF ListInv
<1>10. CASE k = 4
  <2>1. base[init_task] = "link4" /\ base'[init_task] = "wake"
    BY <1>4, <1>10, SMTT(30) DEF LinkPC
  <2>2. links.prev' = [links.prev EXCEPT ![init_task] = p] /\ UNCHANGED links.next
    BY <1>1, <1>3, <1>10, SMTT(30) DEF set_links_store
  <2>3. links.prev'[init_task] = p /\ OnList' = OnList
    BY <1>3, <2>2 DEF OnList
  <2>4. \A t \in Page : ~Unlisted(t)' /\ ~Unlisted(t)
    BY <1>4, <2>1 DEF Unlisted
  <2>5. p \in OnList /\ links.next[p] = init_task
    BY <1>5, <2>1, <2>4 DEF ListInv
  <2> QED BY <1>4, <1>5, <2>1, <2>2, <2>3, <2>4, <2>5 DEF ListInv
<1> QED BY <1>2, <1>7, <1>8, <1>9, <1>10

LEMMA ListStep ==
  ASSUME PreemptInv, InitForks, ListInv, [Next]_vars
  PROVE  ListInv'
<1> DEFINE Hidden == {"f_count", "f_load", "f_store", "f_table", "link1",
                      "link2", "link3"}
<1>1. /\ base \in [Task -> BasePC] /\ cur \in Task /\ init_task \in Task
      /\ loc \in [Task -> [p : Page \cup {NULL}, pid : 0 .. NR_TASK - 1,
                           given : Nat, reg : Nat, next : Pointer]]
  BY PageFacts DEF PreemptInv, TypeOK
<1>2. ASSUME UNCHANGED links, Fresh' = Fresh,
             base'[init_task] \in Hidden <=> base[init_task] \in Hidden,
             base[init_task] \in Hidden \cup {"link2", "link3", "link4"} =>
               loc'[init_task].p = loc[init_task].p,
             base'[init_task] \in {"link2", "link3", "link4"} =>
               base'[init_task] = base[init_task],
             base[init_task] # "link4" \/ base'[init_task] = "link4"
      PROVE  ListInv'
  <2>1. \A t \in Page : Unlisted(t)' <=> Unlisted(t)
    BY <1>2 DEF Unlisted
  <2>2. OnList' = OnList
    BY <1>2 DEF OnList
  <2> QED BY <1>2, <2>1, <2>2 DEF ListInv
<1>3. CASE cur # init_task
  <2>1. base'[init_task] = base[init_task] /\ loc'[init_task] = loc[init_task]
    BY <1>1, <1>3, OthersStay DEF PreemptInv
  <2>2. base[cur] \notin ForkPC
    BY <1>1, <1>3 DEF PreemptInv, OnlyInitForks
  <2>3. Fresh' = Fresh
    BY <2>2, FreshShrinks DEF ForkPC
  <2>4. ~SET_LINKS
    <3> SUFFICES ASSUME NEW k \in 1 .. 4, base[cur] = LinkPC[k] PROVE FALSE
      BY DEF SET_LINKS, Running
    <3>1. k = 1 \/ k = 2 \/ k = 3 \/ k = 4
      BY SMTT(30)
    <3> QED BY <2>2, <3>1, SMTT(30) DEF LinkPC, ForkPC
  <2> QED BY <1>2, <2>1, <2>3, <2>4, MoreFrames
<1>4. CASE cur = init_task /\ UNCHANGED <<base, loc, links>>
  <2>1. Fresh' = Fresh
    <3> SUFFICES ASSUME fork_slot PROVE FALSE
      BY FreshShrinks
    <3>1. base[cur] = "f_slot" /\ (Goto(Home(cur)) \/ Goto("f_count"))
      BY DEF fork_slot, Running, Return
    <3>2. base'[cur] \in {"main", "body", "f_count"}
      BY <1>1, <3>1 DEF Goto, Home
    <3> QED BY <1>4, <3>1, <3>2
  <2> QED BY <1>2, <1>4, <2>1
<1>5. CASE cur = init_task /\ fork_slot
  <2>1. UNCHANGED links /\ base[init_task] = "f_slot"
    BY <1>5 DEF fork_slot, fork, Running
  <2>2. CASE Return /\ UNCHANGED ctx
    BY <1>1, <1>2, <1>5, <2>1, <2>2 DEF Return, Goto, Home, Fresh
  <2>3. CASE Goto("f_count") /\ copy_thread(child)
             /\ \E pid : loc' = [loc EXCEPT ![cur].pid = pid]
    <3> DEFINE p == loc[init_task].p
    <3>1. base'[init_task] = "f_count" /\ loc'[init_task].p = p
      BY <1>1, <1>5, <2>3 DEF Goto
    <3>2. p \in Fresh /\ p \in Task
      BY <1>1, <2>1, PageFacts DEF PreemptInv, ForkedPage, Fresh
    <3>3. Fresh' = Fresh \ {p}
      <4>1. ctx' = [ctx EXCEPT ![p] = "ret_from_fork"]
        BY <1>5, <2>3 DEF copy_thread, child
      <4>2. ctx \in [Task -> {"none", "ret_from_fork", "switched"}]
        BY DEF PreemptInv, TypeOK
      <4> QED BY <3>2, <4>1, <4>2, PageFacts DEF Fresh
    <3>4. \A t \in Page : ~Unlisted(t) /\ (Unlisted(t)' <=> t = p)
      BY <2>1, <3>1 DEF Unlisted
    <3>5. OnList' = OnList
      BY <2>1 DEF OnList
    <3> QED BY <2>1, <3>1, <3>2, <3>3, <3>4, <3>5 DEF ListInv
  <2> QED BY <1>5, <2>2, <2>3 DEF fork_slot
<1>6. CASE cur = init_task /\ \/ kernel_main \/ fork_page \/ fork_count \/ fork_load
                              \/ fork_store \/ fork_table \/ wake_up_process
                              \/ enqueue_add \/ enqueue_count \/ schedule
                              \/ schedule_return \/ call_wake \/ __schedule
  <2>1. UNCHANGED <<links, ctx>>
    BY <1>6 DEF kernel_main, fork_page, fork_count, fork_load, fork_store,
       fork_table, wake_up_process, enqueue_add, enqueue_count, schedule,
       schedule_return, call_wake, __schedule, fork, who
  <2>2. Fresh' = Fresh
    BY <2>1 DEF Fresh
  <2>3. CASE fork_count \/ fork_load \/ fork_store \/ fork_table
    <3>1. /\ base[init_task] \in {"f_count", "f_load", "f_store", "f_table"}
          /\ base'[init_task] \in {"f_load", "f_store", "f_table", "link1"}
          /\ loc'[init_task].p = loc[init_task].p
      <4>1. CASE fork_count
        BY <1>1, <1>6, <4>1, SMTT(30) DEF fork_count, Running, Goto
      <4>2. CASE fork_load
        BY <1>1, <1>6, <4>2, SMTT(30) DEF fork_load, Running, Goto
      <4>3. CASE fork_store
        BY <1>1, <1>6, <4>3, SMTT(30) DEF fork_store, Running, Goto
      <4>4. CASE fork_table
        BY <1>1, <1>6, <4>4, SMTT(30) DEF fork_table, Running, Goto
      <4> QED
        BY <2>3, <4>1, <4>2, <4>3, <4>4, Zenon
    <3> QED BY <1>2, <2>1, <2>2, <3>1
  <2>4. CASE base[init_task] \notin Hidden \cup {"link4"}
             /\ base'[init_task] \notin Hidden \cup {"link4"}
    BY <1>2, <2>1, <2>2, <2>4
  <2>5. CASE enqueue_add
    <3>1. PICK k \in 1 .. 4 : Running(AddPC[k]) /\ Goto(AddPC[k + 1])
      BY <2>5 DEF enqueue_add
    <3>2. k = 1 \/ k = 2 \/ k = 3 \/ k = 4
      BY SMTT(30)
    <3> QED BY <1>1, <1>6, <2>4, <3>1, <3>2, SMTT(30) DEF Running, Goto, AddPC
  <2>6. CASE \/ kernel_main \/ wake_up_process \/ schedule \/ schedule_return \/ call_wake
    BY <1>1, <1>6, <2>4, <2>6 DEF kernel_main, wake_up_process, schedule,
       schedule_return, call_wake, Running, Goto
  <2>7. CASE fork_page \/ enqueue_count
    <3>1. /\ base[init_task] \in {"f_page", "nr_running"}
          /\ base'[init_task] \in {"main", "f_slot"}
      BY <1>1, <1>6, <2>7 DEF fork_page, enqueue_count, Running, Return, Home, Goto
    <3> QED BY <2>4, <3>1
  <2>8. CASE __schedule
    <3>1. UNCHANGED <<base, loc>>
      BY <1>6, <2>8 DEF __schedule, Running, InitForks
    <3> QED BY <1>4, <1>6, <2>1, <3>1
  <2> QED BY <1>6, <2>3, <2>5, <2>6, <2>7, <2>8
<1>7. CASE ~(\/ fork_slot \/ SET_LINKS \/ kernel_main \/ fork_page \/ fork_count
             \/ fork_load \/ fork_store \/ fork_table \/ wake_up_process
             \/ enqueue_add \/ enqueue_count \/ schedule \/ schedule_return
             \/ call_wake \/ __schedule)
  <2>1. UNCHANGED <<base, loc, links>>
    BY <1>7 DEF Next, Kernel, Client, vars, el1_irq, preempt_return, pick_scan,
       pick_scanned, reset_score, reset_done, cpu_switch_to, keep_running,
       switch_wild, set_sleep, stopped, fork
  <2> QED BY <1>3, <1>4, <2>1
<1> QED BY <1>3, <1>5, <1>6, <1>7, ListStores
------------------------------------------------------------------------------
RunInv == QueueLinked /\ QueueMembers /\ AddInv

(* Steps that leave the queue and who belongs on it alone.                 *)
LEMMA RunQuiet ==
  ASSUME RunInv, UNCHANGED <<run_list, state, cur>>, Fresh' = Fresh,
         pick'.at = "none" <=> pick.at = "none",
         \A t \in Task :
           /\ base'[t] \in ArrivePC <=> base[t] \in ArrivePC
           /\ base[t] \in ArrivePC => loc'[t].p = loc[t].p
           /\ base'[t] \in {"add1", "add2", "add3", "add4"} =>
                base'[t] = base[t] /\ loc'[t] = loc[t]
           /\ base[t] \in {"add2", "add3", "add4"} => base'[t] = base[t]
  PROVE  RunInv'
<1>1. OnQueue' = OnQueue
  BY DEF OnQueue
<1>2. \A t \in Page : Arriving(t)' <=> Arriving(t)
  BY DEF Arriving
<1>3. QueueLinked'
  BY <1>1 DEF RunInv, QueueLinked
<1>4. QueueMembers'
  BY <1>1, <1>2 DEF RunInv, QueueMembers
<1>5. AddInv'
  BY DEF RunInv, AddInv
<1> QED BY <1>3, <1>4, <1>5 DEF RunInv

(* do_fork takes the task out of Fresh when it starts to arrive.           *)
LEMMA RunFork ==
  ASSUME PreemptInv, RunInv, fork_slot
  PROVE  RunInv'
<1> DEFINE p == loc[cur].p
<1>1. /\ base \in [Task -> BasePC] /\ cur \in Task
      /\ loc \in [Task -> [p : Page \cup {NULL}, pid : 0 .. NR_TASK - 1,
                           given : Nat, reg : Nat, next : Pointer]]
      /\ state \in [Task -> {TASK_RUNNING, TASK_INTERRUPTIBLE}]
      /\ ctx \in [Task -> {"none", "ret_from_fork", "switched"}]
  BY DEF PreemptInv, TypeOK
<1>2. /\ base[cur] = "f_slot" /\ UNCHANGED <<run_list, cur, pick>>
      /\ \A t \in Task : t # cur => base'[t] = base[t] /\ loc'[t] = loc[t]
  BY OthersStay DEF fork_slot, Running, queue, PreemptInv, Next, Kernel
<1>3. CASE Return /\ UNCHANGED <<ctx, state>>
  <2>1. base'[cur] \in {"main", "body"}
    BY <1>1, <1>3 DEF Return, Goto, Home
  <2>2. Fresh' = Fresh
    BY <1>3 DEF Fresh
  <2> QED BY <1>2, <1>3, <2>1, <2>2, RunQuiet DEF ArrivePC
<1>4. CASE Goto("f_count") /\ copy_thread(p)
           /\ \E pid : loc' = [loc EXCEPT ![cur].pid = pid]
  <2>1. base'[cur] = "f_count" /\ loc'[cur].p = p
    BY <1>1, <1>4 DEF Goto
  <2>2. p \in Fresh /\ p \in Task /\ p \in Page
    BY <1>1, <1>2, PageFacts DEF PreemptInv, ForkedPage, Fresh
  <2>3. Fresh' = Fresh \ {p}
    <3>1. ctx' = [ctx EXCEPT ![p] = "ret_from_fork"]
      BY <1>4 DEF copy_thread
    <3> QED BY <1>1, <2>2, <3>1, PageFacts DEF Fresh
  <2>4. \A t \in Task : state'[t] = state[t]
    <3>1. state' = [state EXCEPT ![p] = TASK_RUNNING] /\ state[p] = TASK_RUNNING
      BY <1>4, <2>2 DEF copy_thread, PreemptInv, FreshIdle
    <3> QED BY <1>1, <3>1
  <2>5. OnQueue' = OnQueue
    BY <1>2 DEF OnQueue
  <2>6. \A t \in Page : Arriving(t)' <=> Arriving(t) \/ t = p
    BY <1>1, <1>2, <2>1 DEF Arriving, ArrivePC
  <2>7. QueueLinked'
    BY <1>1, <1>2, <2>1, <2>5 DEF RunInv, QueueLinked
  <2>8. QueueMembers'
    BY <1>2, <2>2, <2>3, <2>4, <2>5, <2>6, PageFacts DEF RunInv, QueueMembers
  <2>9. AddInv'
    <3> SUFFICES ASSUME NEW t \in Task, base'[t] \in {"add1", "add2", "add3", "add4"}
                 PROVE  /\ base[t] = base'[t] /\ loc'[t] = loc[t]
                        /\ state[loc[t].p] = TASK_RUNNING => state'[loc[t].p] = TASK_RUNNING
      BY <1>2, SMTT(30) DEF RunInv, AddInv
    <3>1. t # cur
      BY <2>1
    <3>2. base[t] = base'[t] /\ loc'[t] = loc[t]
      BY <1>2, <3>1
    <3>3. loc[t].p \in Page
      BY <3>2 DEF PreemptInv, ForkedPage, ChildPC
    <3> QED BY <2>4, <3>2, <3>3, PageFacts
  <2> QED BY <2>7, <2>8, <2>9 DEF RunInv
<1> QED BY <1>3, <1>4 DEF fork_slot, child

(* wake_up_process sets the state of a task that is not queued yet; a task *)
(* that goes to sleep stays queued while it runs.                          *)
LEMMA RunState ==
  ASSUME Disciplined, PreemptInv, OneCaller, RunInv,
         wake_up_process \/ set_sleep \/ call_wake
  PROVE  RunInv'
<1>1. /\ base \in [Task -> BasePC] /\ cur \in Task
      /\ loc \in [Task -> [p : Page \cup {NULL}, pid : 0 .. NR_TASK - 1,
                           given : Nat, reg : Nat, next : Pointer]]
      /\ state \in [Task -> {TASK_RUNNING, TASK_INTERRUPTIBLE}]
  BY DEF PreemptInv, TypeOK
<1>2. /\ UNCHANGED <<run_list, cur, pick, ctx>>
      /\ \A t \in Task : t # cur => base'[t] = base[t] /\ loc'[t] = loc[t]
      /\ pick.at = "none"
  BY OthersStay DEF wake_up_process, set_sleep, call_wake, Running, queue, who,
     PreemptInv, Next, Kernel, Client
<1>3. OnQueue' = OnQueue /\ Fresh' = Fresh
  BY <1>2 DEF OnQueue, Fresh
<1>4. CASE wake_up_process
  <2> DEFINE p == loc[cur].p
  <2>1. /\ base[cur] = "wake" /\ base'[cur] = "add1" /\ loc'[cur].p = p
        /\ loc'[cur].next = run_list.next[rq_head]
        /\ state' = [state EXCEPT ![p] = TASK_RUNNING]
    BY <1>1, <1>4 DEF wake_up_process, Running, Goto, child
  <2>2. p \in Page /\ p \in Task
    BY <1>1, <2>1, PageFacts DEF PreemptInv, ForkedPage, ChildPC
  <2>3. /\ state'[p] = TASK_RUNNING
        /\ \A t \in Task : t # p => state'[t] = state[t]
        /\ \A t \in Task : state[t] = TASK_RUNNING => state'[t] = TASK_RUNNING
    BY <1>1, <2>1, <2>2
  <2>4. \A t \in Page : Arriving(t)' <=> Arriving(t)
    BY <1>1, <1>2, <2>1 DEF Arriving, ArrivePC
  <2>5. Arriving(p)
    BY <1>1, <2>1 DEF Arriving, ArrivePC
  <2>6. QueueLinked'
    BY <1>1, <1>2, <1>3, <2>1 DEF RunInv, QueueLinked
  <2>7. QueueMembers'
    BY <1>2, <1>3, <2>2, <2>3, <2>4, <2>5, PageFacts DEF RunInv, QueueMembers
  <2>8. AddInv'
    <3> SUFFICES ASSUME NEW t \in Task, t # cur, base[t] \in {"add1", "add2", "add3", "add4"}
                 PROVE  loc[t].p \in Task
      BY <1>2, <2>1, <2>3, SMTT(30) DEF RunInv, AddInv
    <3> QED BY PageFacts DEF PreemptInv, ForkedPage, ChildPC
  <2> QED BY <2>6, <2>7, <2>8 DEF RunInv
<1>5. CASE set_sleep
  <2>1. /\ base[cur] = "body" /\ UNCHANGED <<base, loc>> /\ cur \in Voluntary
        /\ state' = [state EXCEPT ![cur] = TASK_INTERRUPTIBLE]
    BY <1>5 DEF set_sleep, Running
  <2>2. \A t \in Task : t # cur => state'[t] = state[t]
    BY <1>1, <2>1
  <2>3. cur = init_task \/ cur \in OnQueue
    BY <1>2 DEF RunInv, QueueMembers
  <2>4. \A t \in Page : Arriving(t)' <=> Arriving(t)
    BY <2>1 DEF Arriving
  <2>5. QueueLinked'
    BY <1>2, <1>3, <2>1 DEF RunInv, QueueLinked
  <2>6. QueueMembers'
    BY <1>2, <1>3, <2>2, <2>3, <2>4, PageFacts DEF RunInv, QueueMembers
  <2>7. ASSUME NEW t \in Task, Calling(t) PROVE FALSE
    BY <1>1, <2>1, <2>7 DEF Disciplined, OneCaller, Calling
  <2>8. AddInv'
    BY <2>1, <2>7 DEF AddInv, Calling
  <2> QED BY <2>5, <2>6, <2>8 DEF RunInv
<1>6. CASE call_wake
  <2>1. PICK p \in Page \ {cur} : /\ state[p] # TASK_RUNNING
                                  /\ loc' = [loc EXCEPT ![cur].p = p]
    BY <1>6 DEF call_wake
  <2>2. /\ base[cur] = "body" /\ base'[cur] = "wake" /\ loc'[cur].p = p
        /\ UNCHANGED state
    BY <1>1, <1>6, <2>1, SMTT(30) DEF call_wake, Running, Goto
  <2>3. p \notin OnQueue
    BY <2>1 DEF RunInv, QueueMembers
  <2>4. \A t \in Page : Arriving(t)' <=> Arriving(t) \/ t = p
    BY <1>1, <1>2, <2>2 DEF Arriving, ArrivePC
  <2>5. QueueLinked'
    BY <1>1, <1>2, <1>3, <2>2 DEF RunInv, QueueLinked
  <2>6. QueueMembers'
    BY <1>2, <1>3, <2>2, <2>3, <2>4 DEF RunInv, QueueMembers
  <2>7. AddInv'
    BY <1>2, <2>2 DEF RunInv, AddInv
  <2> QED BY <2>5, <2>6, <2>7 DEF RunInv
<1> QED BY <1>4, <1>5, <1>6

(* The four stores of list_add.                                            *)
LEMMA RunAdd ==
  ASSUME PreemptInv, OneCaller, RunInv, enqueue_add
  PROVE  RunInv' /\ OnQueue' = OnQueue \cup (IF base'[cur] = "nr_running"
                                             THEN {loc[cur].p} ELSE {})
<1> DEFINE p == loc[cur].p
           first == loc[cur].next
           q == OnQueue \cup {rq_head}
<1>1. /\ base \in [Task -> BasePC] /\ cur \in Task
      /\ loc \in [Task -> [p : Page \cup {NULL}, pid : 0 .. NR_TASK - 1,
                           given : Nat, reg : Nat, next : Pointer]]
      /\ run_list \in [next : [Node -> Pointer], prev : [Node -> Pointer]]
      /\ Page \subseteq Node /\ rq_head \in Node /\ rq_head \notin Page
  BY PageFacts DEF PreemptInv, TypeOK
<1>2. PICK k \in 1 .. 4 : /\ Running(AddPC[k]) /\ Goto(AddPC[k + 1])
                          /\ run_list' = list_add_store(run_list, p, rq_head, first, k)
  BY DEF enqueue_add, child
<1>3. k = 1 \/ k = 2 \/ k = 3 \/ k = 4
  BY SMTT(30)
<1>4. /\ base[cur] = AddPC[k] /\ base'[cur] = AddPC[k + 1]
      /\ UNCHANGED <<loc, state, cur, pick, ctx>>
      /\ \A t \in Task : t # cur => base'[t] = base[t]
      /\ base[cur] \in {"add1", "add2", "add3", "add4"}
  BY <1>1, <1>2, <1>3, SMTT(30) DEF Running, Goto, enqueue_add, who, AddPC
<1>5. /\ p \in Page /\ p \notin Fresh /\ Arriving(p) /\ Fresh' = Fresh /\ p # rq_head
  BY <1>1, <1>4 DEF PreemptInv, ForkedPage, ChildPC, Arriving, ArrivePC, Fresh
<1>6. /\ p \notin OnQueue /\ first = run_list.next[rq_head] /\ first \in q
      /\ state[p] = TASK_RUNNING /\ OnQueue \subseteq Page
      /\ \A n \in q : run_list.next[n] \in q /\ n \in Node
  BY <1>1, <1>4, <1>5, WalkClosed DEF RunInv, QueueMembers, QueueLinked, AddInv, OnQueue
<1>7. \A t \in Task : t # cur => ~Calling(t) /\ base[t] \notin ArrivePC
                                 /\ base'[t] \notin {"add1", "add2", "add3", "add4"}
                                 /\ base[t] \notin {"add1", "add2", "add3", "add4"}
  BY <1>1, <1>4, UniqueCaller DEF Calling, ArrivePC
<1>8. \A n \in OnQueue : run_list.prev[run_list.next[n]] = n
  BY <1>1, <1>6 DEF RunInv, QueueLinked
<1>9. ASSUME OnQueue' = OnQueue, base'[cur] \in {"add2", "add3", "add4"}
      PROVE  QueueMembers'
  <2>1. \A t \in Page : Arriving(t)' <=> Arriving(t)
    BY <1>1, <1>4, <1>9 DEF Arriving, ArrivePC
  <2> QED BY <1>4, <1>5, <1>9, <2>1 DEF RunInv, QueueMembers
<1>10. ASSUME OnQueue' = OnQueue, base'[cur] \in {"add2", "add3", "add4"},
              \A n \in q : run_list.next'[n] = run_list.next[n],
              \A n \in OnQueue : run_list.prev'[run_list.next[n]] = n
       PROVE  QueueLinked'
  <2> SUFFICES ASSUME NEW n \in q
               PROVE  /\ run_list.next'[n] \in q
                      /\ \/ run_list.prev'[run_list.next'[n]] = n
                         \/ n = rq_head
    BY <1>1, <1>4, <1>10 DEF QueueLinked
  <2> QED BY <1>6, <1>10
<1>11. ASSUME base'[cur] \in {"add2", "add3", "add4"},
              run_list.next'[rq_head] = first, run_list.prev'[first] = p,
              base'[cur] # "add2" => run_list.next'[p] = first,
              base'[cur] = "add4" => run_list.prev'[p] = rq_head
       PROVE  AddInv'
  <2> SUFFICES ASSUME NEW t \in Task, base'[t] \in {"add1", "add2", "add3", "add4"}
               PROVE  /\ loc'[t].next = run_list.next'[rq_head]
                      /\ state'[loc'[t].p] = TASK_RUNNING
                      /\ base'[t] \in {"add2", "add3", "add4"} =>
                           run_list.prev'[loc'[t].next] = loc'[t].p
                      /\ base'[t] \in {"add3", "add4"} =>
                           run_list.next'[loc'[t].p] = loc'[t].next
                      /\ base'[t] = "add4" => run_list.prev'[loc'[t].p] = rq_head
    BY DEF AddInv
  <2>1. t = cur /\ UNCHANGED <<loc, state>>
    BY <1>4, <1>7
  <2> QED BY <1>6, <1>11, <2>1
<1>12. CASE k = 1
  <2>1. base[cur] = "add1" /\ base'[cur] = "add2"
    BY <1>4, <1>12, SMTT(30) DEF AddPC
  <2>2. run_list.prev' = [run_list.prev EXCEPT ![first] = p] /\ UNCHANGED run_list.next
    BY <1>1, <1>2, <1>12, SMTT(30) DEF list_add_store
  <2>3. OnQueue' = OnQueue
    BY <2>2 DEF OnQueue
  <2>4. run_list.prev[first] = rq_head
    BY <1>4, <1>6, <1>7, <2>1 DEF RunInv, QueueLinked
  <2>5. \A n \in OnQueue : run_list.prev'[run_list.next[n]] = n
    BY <1>1, <1>6, <1>8, <2>2, <2>4, SMTT(30)
  <2>6. QueueLinked'
    BY <1>10, <2>1, <2>2, <2>3, <2>5
  <2>7. run_list.next'[rq_head] = first /\ run_list.prev'[first] = p
    BY <1>1, <1>6, <2>2
  <2>8. AddInv'
    BY <1>11, <2>1, <2>7
  <2> QED BY <1>9, <2>1, <2>3, <2>6, <2>8 DEF RunInv
<1>13. CASE k = 2
  <2>1. base[cur] = "add2" /\ base'[cur] = "add3"
    BY <1>4, <1>13, SMTT(30) DEF AddPC
  <2>2. run_list.next' = [run_list.next EXCEPT ![p] = first] /\ UNCHANGED run_list.prev
    BY <1>1, <1>2, <1>13, SMTT(30) DEF list_add_store
  <2>3. \A n \in q : run_list.next'[n] = run_list.next[n]
    BY <1>1, <1>5, <1>6, <2>2
  <2>4. OnQueue' = OnQueue
    BY <2>3, WalkSame DEF OnQueue
  <2>5. QueueLinked'
    BY <1>8, <1>10, <2>1, <2>2, <2>3, <2>4
  <2>6. run_list.prev[first] = p
    BY <1>1, <2>1 DEF RunInv, AddInv
  <2>7. run_list.next'[p] = first /\ run_list.next'[rq_head] = first
    BY <1>1, <1>5, <1>6, <2>2, <2>3
  <2>8. AddInv'
    BY <1>11, <2>1, <2>2, <2>6, <2>7
  <2> QED BY <1>9, <2>1, <2>4, <2>5, <2>8 DEF RunInv
<1>14. CASE k = 3
  <2>1. base[cur] = "add3" /\ base'[cur] = "add4"
    BY <1>4, <1>14, SMTT(30) DEF AddPC
  <2>2. run_list.prev' = [run_list.prev EXCEPT ![p] = rq_head] /\ UNCHANGED run_list.next
    BY <1>1, <1>2, <1>14, SMTT(30) DEF list_add_store
  <2>3. OnQueue' = OnQueue
    BY <2>2 DEF OnQueue
  <2>4. \A n \in q : run_list.prev'[n] = run_list.prev[n]
    BY <1>1, <1>5, <1>6, <2>2
  <2>5. QueueLinked'
    BY <1>6, <1>8, <1>10, <2>1, <2>2, <2>3, <2>4
  <2>6. run_list.prev[first] = p /\ run_list.next[p] = first
    BY <1>1, <2>1 DEF RunInv, AddInv
  <2>7. run_list.prev'[p] = rq_head /\ run_list.prev'[first] = p
    BY <1>1, <1>5, <1>6, <2>2, <2>4, <2>6
  <2>8. AddInv'
    BY <1>6, <1>11, <2>1, <2>2, <2>6, <2>7
  <2> QED BY <1>9, <2>1, <2>3, <2>5, <2>8 DEF RunInv
<1>15. CASE k = 4
  <2>1. base[cur] = "add4" /\ base'[cur] = "nr_running"
    BY <1>4, <1>15, SMTT(30) DEF AddPC
  <2>2. run_list.next' = [run_list.next EXCEPT ![rq_head] = p] /\ UNCHANGED run_list.prev
    BY <1>1, <1>2, <1>15, SMTT(30) DEF list_add_store
  <2>3. /\ run_list.prev[first] = p /\ run_list.next[p] = first
        /\ run_list.prev[p] = rq_head
    BY <1>1, <2>1 DEF RunInv, AddInv
  <2>4. /\ run_list.next'[rq_head] = p /\ run_list.next'[p] = first
        /\ \A n \in OnQueue : run_list.next'[n] = run_list.next[n]
    BY <1>1, <1>5, <1>6, <2>2, <2>3
  <2>5. OnQueue' = OnQueue \cup {p}
    BY <1>1, <1>5, <1>6, <2>4, WalkInsert, SMTT(30) DEF OnQueue
  <2>6. QueueLinked'
    BY <1>1, <1>6, <1>8, <2>2, <2>3, <2>4, <2>5 DEF QueueLinked
  <2>7. \A t \in Page : Arriving(t)' <=> Arriving(t) /\ t # p
    BY <1>1, <1>4, <1>7, <2>1 DEF Arriving, ArrivePC
  <2>8. QueueMembers'
    BY <1>4, <1>5, <1>6, <2>5, <2>7 DEF RunInv, QueueMembers
  <2>9. AddInv'
    BY <1>4, <1>7, <2>1 DEF AddInv
  <2> QED BY <2>1, <2>5, <2>6, <2>8, <2>9 DEF RunInv
<1> QED BY <1>3, <1>12, <1>13, <1>14, <1>15

(* __schedule takes the task off the queue if it does not run on.          *)
LEMMA RunSchedule ==
  ASSUME Disciplined, PreemptInv, InitForks, OneCaller, Sleepers, RunInv, __schedule
  PROVE  /\ RunInv'
         /\ OnQueue' = IF blocks(cur) THEN OnQueue \ {cur} ELSE OnQueue
         /\ blocks(cur) => cur \in OnQueue
<1>1. /\ base \in [Task -> BasePC] /\ cur \in Task
      /\ run_list \in [next : [Node -> Pointer], prev : [Node -> Pointer]]
      /\ Page \subseteq Node /\ rq_head \in Node /\ rq_head \notin Page
      /\ LIST_POISON \notin Page /\ LIST_POISON \notin Node
  BY PageFacts DEF PreemptInv, TypeOK
<1>2. /\ UNCHANGED <<loc, state, cur, ctx>> /\ pick.at = "none" /\ pick'.at = "scan"
      /\ \A t \in Task : t # cur => base'[t] = base[t]
      /\ base'[cur] = base[cur] \/ (base[cur] = "sched_enter" /\ base'[cur] = "sched_leave")
  BY <1>1 DEF __schedule, who, InPreempt, Running, Goto, repeat
<1>3. Fresh' = Fresh
  BY <1>2 DEF Fresh
<1>4. \A t \in Task : base'[t] = base[t] \/ (base'[t] = "sched_leave" /\ base[t] = "sched_enter")
  BY <1>2
<1>5. \A t \in Page : Arriving(t)' <=> Arriving(t)
  BY <1>2, <1>4 DEF Arriving, ArrivePC
<1>6. CASE ~blocks(cur)
  <2>1. UNCHANGED run_list
    BY <1>6 DEF __schedule, queue
  <2>2. OnQueue' = OnQueue
    BY <2>1 DEF OnQueue
  <2>3. QueueLinked'
    BY <1>2, <1>4, <2>1, <2>2 DEF RunInv, QueueLinked
  <2>4. QueueMembers'
    BY <1>2, <1>3, <1>5, <1>6, <2>2 DEF RunInv, QueueMembers, blocks
  <2>5. AddInv'
    BY <1>2, <1>4, <2>1 DEF RunInv, AddInv
  <2> QED BY <1>6, <2>2, <2>3, <2>4, <2>5 DEF RunInv
<1>7. CASE blocks(cur)
  <2>1. state[cur] # TASK_RUNNING /\ cur # init_task /\ CallersMask
    BY <1>1, <1>7 DEF blocks, InitForks, Sleepers, Disciplined
  <2>2. \A t \in Task : ~Calling(t)
    BY <2>1 DEF OneCaller, __schedule, InPreempt, Running, Calling
  <2>3. \A t \in Task : base[t] \notin {"add1", "add2", "add3", "add4"}
                        /\ base'[t] \notin {"add1", "add2", "add3", "add4"}
    BY <1>4, <2>2 DEF Calling
  <2> DEFINE q == OnQueue \cup {rq_head}
             nx == run_list.next
             pv == run_list.prev
  <2>4. cur \in OnQueue /\ OnQueue \subseteq Page
    BY <1>2, <2>1, WalkClosed DEF RunInv, QueueMembers, OnQueue
  <2>5. /\ \A n \in q : nx[n] \in q /\ pv[nx[n]] = n /\ n \in Node
    BY <1>1, <2>3, <2>4 DEF RunInv, QueueLinked
  <2>6. PICK x \in q \ {cur} : nx[x] = cur
    BY <1>1, <2>4, WalkBefore, SMTT(30) DEF OnQueue
  <2>7. pv[cur] = x /\ nx[cur] \in q /\ nx[cur] # cur /\ x \in Node /\ x # cur
        /\ nx[cur] \in Node
    BY <2>4, <2>5, <2>6
  <2>8. run_list' = list_del(run_list, cur)
    BY <1>7 DEF __schedule, dequeue_task_simple
  <2>9. /\ run_list.next' = [nx EXCEPT ![x] = nx[cur], ![cur] = LIST_POISON]
        /\ run_list.prev' = [pv EXCEPT ![nx[cur]] = x, ![cur] = LIST_POISON]
    BY <1>1, <2>7, <2>8 DEF list_del, __list_del
  <2>10. /\ run_list.next'[x] = nx[cur] /\ run_list.next'[cur] = LIST_POISON
         /\ \A n \in q : n # x /\ n # cur => run_list.next'[n] = nx[n]
         /\ run_list.prev'[nx[cur]] = x
         /\ \A n \in q : n # nx[cur] /\ n # cur => run_list.prev'[n] = pv[n]
    <3>1. cur \in Node /\ \A n \in q : n \in Node
      BY <2>4, <2>5
    <3>2. nx \in [Node -> Pointer] /\ pv \in [Node -> Pointer]
      BY <1>1
    <3> HIDE DEF q, nx, pv
    <3> QED BY <2>7, <2>9, <3>1, <3>2
  <2>11. \A n \in q : nx[n] = cur => n = x
    BY <2>5, <2>6, SMTT(30)
  <2>12. OnQueue' = OnQueue \ {cur}
    BY <1>1, <2>4, <2>6, <2>7, <2>10, <2>11, WalkRemove, SMTT(30) DEF OnQueue
  <2>13. QueueLinked'
    <3>1. ASSUME NEW n \in q \ {cur}
          PROVE  /\ run_list.next'[n] \in q \ {cur}
                 /\ run_list.prev'[run_list.next'[n]] = n
      <4>1. CASE n = x
        BY <2>7, <2>10, <4>1
      <4>2. CASE n # x
        <5>1. run_list.next'[n] = nx[n] /\ nx[n] \in q /\ nx[n] # cur
          BY <2>5, <2>10, <2>11, <3>1, <4>2
        <5>2. nx[n] # nx[cur]
          BY <2>4, <2>5, <3>1
        <5> QED BY <2>5, <2>10, <3>1, <5>1, <5>2, SMTT(30)
      <4> QED BY <4>1, <4>2
    <3>2. OnQueue' \cup {rq_head} = q \ {cur}
      BY <1>1, <2>4, <2>12
    <3> QED BY <3>1, <3>2 DEF QueueLinked
  <2>14. QueueMembers'
    BY <1>2, <1>3, <1>5, <2>1, <2>12 DEF RunInv, QueueMembers
  <2>15. AddInv'
    BY <2>3 DEF AddInv
  <2> QED BY <1>7, <2>4, <2>12, <2>13, <2>14, <2>15 DEF RunInv
<1> QED BY <1>6, <1>7

(* The switch goes to a thread of the queue.                               *)
LEMMA RunSwitch ==
  ASSUME PreemptInv, RunInv, PickInv, cpu_switch_to \/ keep_running
  PROVE  RunInv'
<1>1. /\ pick.at = "switch" /\ pick'.at = "none" /\ cur' = pick.next
      /\ pick.next \in Task /\ UNCHANGED <<run_list, state, base, loc>>
  BY SMTT(30) DEF cpu_switch_to, keep_running, AtSwitch, NoPick, queue, who, PreemptInv, TypeOK
<1>2. pick.next \in OnQueue
  BY <1>1, PageFacts DEF PickInv
<1>3. Fresh' = Fresh
  <2>1. ctx \in [Task -> {"none", "ret_from_fork", "switched"}] /\ cur \in Task
        /\ cur \notin Fresh
    BY DEF PreemptInv, TypeOK, FreshUnreached
  <2> QED BY <2>1, PageFacts DEF cpu_switch_to, keep_running, who, Fresh
<1>4. OnQueue' = OnQueue /\ \A t \in Page : Arriving(t)' <=> Arriving(t)
  BY <1>1 DEF OnQueue, Arriving
<1>5. QueueLinked' /\ AddInv'
  BY <1>1, <1>4 DEF RunInv, QueueLinked, AddInv
<1>6. QueueMembers'
  BY <1>1, <1>2, <1>3, <1>4 DEF RunInv, QueueMembers
<1> QED BY <1>5, <1>6 DEF RunInv

(* All other steps.                                                        *)
LEMMA RunOther ==
  ASSUME PreemptInv, RunInv, [Next]_vars,
         ~(\/ fork_slot \/ wake_up_process \/ set_sleep \/ call_wake
           \/ enqueue_add \/ __schedule \/ cpu_switch_to \/ keep_running)
  PROVE  RunInv' /\ OnQueue' = OnQueue
<1>1. base \in [Task -> BasePC] /\ cur \in Task
  BY DEF PreemptInv, TypeOK
<1>2. UNCHANGED <<run_list, state, cur, ctx>>
  BY Frames, MoreFrames
<1>3. Fresh' = Fresh /\ OnQueue' = OnQueue
  BY <1>2 DEF Fresh, OnQueue
<1>4. pick'.at = "none" <=> pick.at = "none"
  <2>1. pick \in [at : {"none", "scan", "reset", "switch"},
                  tmp : Pointer, c : Int, next : Task \cup {UNINIT}]
    BY DEF PreemptInv, TypeOK
  <2>2. CASE pick_scan
    BY <2>1, <2>2 DEF pick_scan
  <2>3. CASE pick_scanned
    BY <2>1, <2>3 DEF pick_scanned, when_spent
  <2>4. CASE reset_score
    BY <2>1, <2>4 DEF reset_score
  <2>5. CASE reset_done
    BY <2>1, <2>5 DEF reset_done, repeat
  <2>6. CASE UNCHANGED pick
    BY <2>6
  <2> QED
    BY <2>2, <2>3, <2>4, <2>5, <2>6
    DEF Next, Kernel, Client, vars, el1_irq, preempt_return, switch_wild,
        schedule_return, kernel_main, fork_page, fork_count, fork_load,
        fork_store, fork_table, SET_LINKS, enqueue_count, schedule, stopped
<1> SUFFICES RunInv'
  BY <1>3
<1>5. \A t \in Task : t # cur => base'[t] = base[t] /\ loc'[t] = loc[t]
  BY OthersStay DEF PreemptInv
<1>6. ASSUME \/ base'[cur] = base[cur] /\ loc'[cur] = loc[cur]
             \/ base[cur] \notin ArrivePC /\ base'[cur] \notin ArrivePC
             \/ /\ base[cur] \in ArrivePC \ {"add1", "add2", "add3", "add4"}
                /\ base'[cur] \in ArrivePC \ {"add1", "add2", "add3", "add4"}
                /\ loc'[cur].p = loc[cur].p
      PROVE  RunInv'
  <2>1. \A t \in Task :
           /\ base'[t] \in ArrivePC <=> base[t] \in ArrivePC
           /\ base[t] \in ArrivePC => loc'[t].p = loc[t].p
           /\ base'[t] \in {"add1", "add2", "add3", "add4"} =>
                base'[t] = base[t] /\ loc'[t] = loc[t]
           /\ base[t] \in {"add2", "add3", "add4"} => base'[t] = base[t]
    BY <1>5, <1>6 DEF ArrivePC
  <2> QED BY <1>2, <1>3, <1>4, <2>1, RunQuiet
<1>7. CASE UNCHANGED <<base, loc>>
  BY <1>6, <1>7
<1>8. CASE kernel_main \/ schedule \/ schedule_return
  BY <1>1, <1>6, <1>8 DEF kernel_main, schedule, schedule_return, Running, Goto, ArrivePC
<1>9. CASE fork_page \/ enqueue_count
  <2>1. /\ base[cur] \in {"f_page", "nr_running"}
        /\ base'[cur] \in {"main", "body", "f_slot"}
    BY <1>1, <1>9 DEF fork_page, enqueue_count, Running, Return, Home, Goto
  <2> QED BY <1>6, <2>1 DEF ArrivePC
<1>10. CASE fork_count \/ fork_load \/ fork_store \/ fork_table
  <2>1. loc \in [Task -> [p : Page \cup {NULL}, pid : 0 .. NR_TASK - 1,
                          given : Nat, reg : Nat, next : Pointer]]
    BY DEF PreemptInv, TypeOK
  <2>2. /\ base[cur] \in {"f_count", "f_load", "f_store", "f_table"}
        /\ base'[cur] \in {"f_load", "f_store", "f_table", "link1"}
        /\ loc'[cur].p = loc[cur].p
    BY <1>1, <1>10, <2>1 DEF fork_count, fork_load, fork_store, fork_table,
       Running, Goto
  <2> QED BY <1>6, <2>2 DEF ArrivePC
<1>11. CASE SET_LINKS
  <2>1. PICK k \in 1 .. 4 : Running(LinkPC[k]) /\ Goto(LinkPC[k + 1]) /\ UNCHANGED loc
    BY <1>11 DEF SET_LINKS
  <2>2. k = 1 \/ k = 2 \/ k = 3 \/ k = 4
    BY SMTT(30)
  <2>3. /\ base[cur] \in {"link1", "link2", "link3", "link4"}
        /\ base'[cur] \in {"link2", "link3", "link4", "wake"}
    BY <1>1, <2>1, <2>2, SMTT(30) DEF Running, Goto, LinkPC
  <2> QED BY <1>6, <2>1, <2>3 DEF ArrivePC
<1> QED
  BY <1>7, <1>8, <1>9, <1>10, <1>11
  DEF Next, Kernel, Client, vars, el1_irq, preempt_return, pick_scan,
      pick_scanned, reset_score, reset_done, switch_wild, stopped

LEMMA RunStep ==
  ASSUME Disciplined, PreemptInv, InitForks, OneCaller, Sleepers, PickInv,
         RunInv, [Next]_vars
  PROVE  RunInv'
  BY RunFork, RunState, RunAdd, RunSchedule, RunSwitch, RunOther

(* The loops of the pick stay on the two lists, so they never fault.       *)
LEMMA PickStep ==
  ASSUME PreemptInv, ListInv, RunInv, RunInv', PickInv, NoFault, [Next]_vars
  PROVE  PickInv' /\ NoFault'
<1>1. /\ pick \in [at : {"none", "scan", "reset", "switch"},
                   tmp : Pointer, c : Int, next : Task \cup {UNINIT}]
      /\ run_list.next[rq_head] \in OnQueue \cup {rq_head}
      /\ \A n \in OnQueue : run_list.next[n] \in OnQueue \cup {rq_head}
      /\ \A n \in OnList \cup {init_task} : links.next[n] \in OnList \cup {init_task}
      /\ OnQueue \subseteq Task /\ OnList \subseteq Task
      /\ rq_head \notin OnList
  BY PageFacts, WalkClosed
  DEF PreemptInv, TypeOK, RunInv, QueueLinked, ListInv, OnQueue, OnList
<1>2. CASE __schedule
  <2>1. pick' = repeat(run_list'.next[rq_head], UNINIT) /\ UNCHANGED mode
    BY <1>2 DEF __schedule
  <2>2. run_list'.next[rq_head] \in OnQueue' \cup {rq_head}
    BY DEF RunInv, QueueLinked
  <2> QED BY <2>1, <2>2 DEF PickInv, repeat, NoFault
<1>3. CASE pick_scan
  <2>1. pick.at = "scan" /\ pick.tmp \in OnQueue /\ UNCHANGED <<run_list, links>>
    BY <1>3 DEF pick_scan, PickInv, queue, fork
  <2>2. /\ pick'.at = "scan" /\ pick'.tmp = run_list.next[pick.tmp]
        /\ pick'.next \in {pick.tmp, pick.next} /\ UNCHANGED mode
    BY <1>1, <1>3, <2>1 DEF pick_scan
  <2>3. OnQueue' = OnQueue
    BY <2>1 DEF OnQueue
  <2> QED BY <1>1, <2>1, <2>2, <2>3 DEF PickInv, NoFault
<1>4. CASE pick_scanned
  <2>1. UNCHANGED <<run_list, links, mode>> /\ pick.at = "scan"
        /\ pick' = IF pick.c = 0 THEN when_spent ELSE [pick EXCEPT !.at = "switch"]
    BY <1>4 DEF pick_scanned, queue, fork
  <2>2. /\ pick'.next = pick.next
        /\ \/ pick'.at = "reset" /\ pick'.tmp = links.next[init_task]
           \/ pick'.at = "switch"
    BY <1>1, <2>1 DEF when_spent
  <2>3. OnQueue' = OnQueue /\ OnList' = OnList
    BY <2>1 DEF OnQueue, OnList
  <2> QED BY <1>1, <2>1, <2>2, <2>3 DEF PickInv, NoFault
<1>5. CASE reset_score
  <2>1. pick.at = "reset" /\ pick.tmp \in OnList /\ UNCHANGED <<run_list, links>>
    BY <1>5 DEF reset_score, PickInv, queue, fork
  <2>2. /\ pick'.at = "reset" /\ pick'.tmp = links.next[pick.tmp]
        /\ pick'.next = pick.next /\ UNCHANGED mode
    BY <1>1, <1>5, <2>1 DEF reset_score
  <2>3. OnQueue' = OnQueue /\ OnList' = OnList
    BY <2>1 DEF OnQueue, OnList
  <2> QED BY <1>1, <2>1, <2>2, <2>3 DEF PickInv, NoFault
<1>6. CASE reset_done
  <2>1. /\ pick.at = "reset" /\ pick' = repeat(run_list.next[rq_head], pick.next)
        /\ UNCHANGED <<run_list, mode>>
    BY <1>6 DEF reset_done, queue
  <2>2. OnQueue' = OnQueue
    BY <2>1 DEF OnQueue
  <2> QED BY <1>1, <2>1, <2>2 DEF PickInv, repeat, NoFault
<1>7. CASE cpu_switch_to \/ keep_running
  <2>1. pick' = NoPick /\ UNCHANGED mode
    BY <1>7 DEF cpu_switch_to, keep_running
  <2>2. PickInv'
    BY <2>1 DEF PickInv, NoPick
  <2> QED BY <2>1, <2>2 DEF NoFault
<1>8. CASE pick.at = "none" /\ UNCHANGED <<pick, mode>>
  BY <1>8 DEF PickInv, NoFault
<1>9. CASE UNCHANGED <<pick, run_list, links>> /\ (UNCHANGED mode \/ mode' = "wild")
  BY <1>9 DEF PickInv, NoFault, OnQueue, OnList
<1> QED
  BY <1>2, <1>3, <1>4, <1>5, <1>6, <1>7, <1>8, <1>9
  DEF Next, Kernel, Client, vars, fork, queue, el1_irq, preempt_return,
      switch_wild, schedule_return, kernel_main, fork_page, fork_slot,
      fork_count, fork_load, fork_store, fork_table, SET_LINKS,
      wake_up_process, enqueue_add, enqueue_count, schedule, set_sleep,
      call_wake, stopped, Running, InPreempt

LEMMA QueueInvInit == Init => QueueInv
<1> SUFFICES ASSUME Init PROVE QueueInv
  OBVIOUS
<1>1. /\ run_list.next = [n \in Node |-> IF n = rq_head THEN rq_head ELSE NULL]
      /\ run_list.prev = [n \in Node |-> IF n = rq_head THEN rq_head ELSE NULL]
      /\ links.next = [n \in Task |-> IF n = init_task THEN init_task ELSE NULL]
      /\ links.prev = [n \in Task |-> IF n = init_task THEN init_task ELSE NULL]
      /\ cur = init_task /\ mode = "ok" /\ pick.at = "none"
  BY PageFacts DEF Init, sched_init, INIT_LIST_HEAD, Unlinked, NoPick
<1>2. /\ \A t \in Task : /\ base[t] \in {"main", "body"}
                         /\ state[t] = TASK_RUNNING /\ ctx[t] = "none"
      /\ \A i \in 0 .. NR_TASK - 1 : g_task[i] \in {init_task, NULL}
  BY DEF Init
<1>3. /\ init_task \in Task /\ rq_head \in Node /\ init_task \notin Page
      /\ rq_head \notin Page /\ Page \subseteq Task /\ NULL \notin Page
      /\ {} \in SUBSET Page
  BY PageFacts DEF Node
<1>4. OnQueue = {}
  <2>1. Closed(run_list.next, rq_head, {})
    BY <1>1, <1>3, SMTT(30) DEF Closed
  <2> QED BY <1>3, <2>1 DEF OnQueue, Walk
<1>5. OnList = {}
  <2>1. Closed(links.next, init_task, {})
    BY <1>1, <1>3 DEF Closed
  <2> QED BY <1>3, <2>1 DEF OnList, Walk
<1>6. Fresh = Page
  BY <1>2, <1>3 DEF Fresh
<1>7. OneCaller /\ Sleepers
  BY <1>2 DEF OneCaller, Calling, Sleepers
<1>8. ListInv
  BY <1>1, <1>2, <1>3, <1>5, <1>6 DEF ListInv, Unlisted
<1>9. QueueLinked
  BY <1>1, <1>3, <1>4 DEF QueueLinked
<1>10. QueueMembers /\ AddInv
  BY <1>1, <1>2, <1>4, <1>6 DEF QueueMembers, AddInv
<1>11. PickInv /\ NoFault
  BY <1>1 DEF PickInv, NoFault
<1>12. TableWritten
  BY <1>2, <1>3, <1>6 DEF TableWritten
<1> QED BY <1>7, <1>8, <1>9, <1>10, <1>11, <1>12 DEF QueueInv

LEMMA InitForksInit == Init => InitForks
  BY PageFacts, SMTT(30) DEF Init, InitForks

LEMMA QueueInvariant ==
  ASSUME Disciplined
  PROVE  Spec => [](PreemptInv /\ InitForks /\ QueueInv)
<1>1. PreemptInv /\ PreemptInv' /\ InitUnqueued /\ InitForks /\ QueueInv /\ [Next]_vars
        => InitForks' /\ QueueInv'
  <2> SUFFICES ASSUME PreemptInv, InitUnqueued, InitForks, QueueInv, [Next]_vars
               PROVE  InitForks' /\ QueueInv'
    OBVIOUS
  <2>1. /\ OneCaller /\ Sleepers /\ ListInv /\ RunInv /\ PickInv /\ TableWritten
        /\ NoFault
    BY DEF QueueInv, RunInv
  <2>2. InitForks' /\ OneCaller' /\ Sleepers' /\ ListInv' /\ TableWritten'
    BY <2>1, InitForksStep, OneCallerStep, SleepersStep, ListStep, TableStep
  <2>3. RunInv'
    BY <2>1, RunStep
  <2>4. PickInv' /\ NoFault'
    BY <2>1, <2>3, PickStep
  <2> QED BY <2>2, <2>3, <2>4 DEF QueueInv, RunInv
<1> QED
  BY <1>1, QueueInvInit, InitForksInit, PreemptInvariant, UnqueuedInvariant, PTL DEF Spec

(* Wherever in do_fork or wake_up_process the interrupt came, the pick and *)
(* reset_score follow only pointers that were written: for the kernel as   *)
(* it is, whose threads never call the scheduler, and for any threads that *)
(* do, when callers mask IRQs.                                             *)
THEOREM ForkNeverFaults ==
  ASSUME CallersMask \/ Voluntary = {}
  PROVE  Spec => []NoFault
<1>1. QueueInv => NoFault
  BY DEF QueueInv
<1> QED BY <1>1, QueueInvariant, PTL DEF Disciplined

(* __schedule's dequeue and wake_up_process keep on the run queue exactly  *)
(* the threads that may run.                                               *)
THEOREM RunnableQueued ==
  ASSUME CallersMask \/ Voluntary = {}
  PROVE  Spec => []QueueHoldsRunnable
<1>1. PreemptInv /\ QueueInv => QueueHoldsRunnable
  <2> SUFFICES ASSUME PreemptInv, QueueInv, NEW t \in Threads \ InFlight
               PROVE  t \in OnQueue <=> \/ state[t] = TASK_RUNNING
                                        \/ t = cur /\ pick.at = "none"
    BY DEF QueueHoldsRunnable
  <2>1. PICK i \in 0 .. NR_TASK - 1 : t = g_task[i]
    BY SMTT(30) DEF PreemptInv, TypeOK, Threads
  <2>2. t \in Page /\ t \notin Fresh
    BY <2>1 DEF PreemptInv, TypeOK, QueueInv, TableWritten, Threads, Task
  <2>3. ~Arriving(t)
    BY DEF Arriving, InFlight
  <2> QED BY <2>2, <2>3 DEF QueueInv, QueueMembers
<1> QED BY <1>1, QueueInvariant, PTL DEF Disciplined
------------------------------------------------------------------------------
(* The tick, __schedule, the pick and the switch share the CPU in rounds:  *)
(* the scheduler core implements TimeShare.                                *)

(* What the walk of links nx from head comes to once it stands at tmp.     *)
Ahead(nx, head, tmp) == Walk([nx EXCEPT ![head] = tmp], head)

(* need_resched is set in the running task only, when its slice is used    *)
(* up, and preempt_schedule_irq is entered for no other reason.            *)
ReschedInv ==
  \A t \in Task :
    /\ need_resched[t] # 0 =>
         t = cur /\ (t = init_task \/ pick.at # "none" \/ count[t] = 0)
    /\ traps[t] = <<"enter">> => t = cur /\ pick.at = "none" /\ need_resched[t] # 0
    /\ base[t] = "sched_enter" => t \in Voluntary

(* __schedule runs with IRQs masked up to its switch.                      *)
PickMasked == pick.at # "none" => ~irqOn

(* What do_fork halves is no more than a slice.                            *)
InitBound ==
  /\ count[init_task] <= DEF_COUNTER
  /\ base[init_task] = "f_store" => loc[init_task].reg <= DEF_COUNTER

(* `next` is the task of the largest count among those the loop has passed.*)
Passed == IF pick.at = "scan" THEN OnQueue \ Ahead(run_list.next, rq_head, pick.tmp)
                              ELSE OnQueue

ScanInv ==
  pick.at \in {"scan", "switch"} =>
    /\ \A t \in Passed : count[t] <= pick.c
    /\ \/ Passed = {} /\ pick.c = -1000
       \/ pick.next \in OnQueue /\ pick.c = count[pick.next]
    /\ pick.at = "switch" => pick.c # 0

ShareInv == ReschedInv /\ PickMasked /\ InitBound /\ ScanInv
------------------------------------------------------------------------------
(* What a step may touch of the slices and flags.                          *)
LEMMA ShareFrames ==
  ASSUME [Next]_vars
  PROVE  /\ UNCHANGED count \/ el1_irq \/ reset_score \/ fork_count \/ fork_store
         /\ \/ UNCHANGED need_resched \/ el1_irq \/ fork_slot \/ cpu_switch_to
            \/ keep_running \/ switch_wild
         /\ UNCHANGED traps \/ el1_irq \/ preempt_return \/ __schedule
         /\ \/ UNCHANGED irqOn \/ preempt_return \/ __schedule \/ cpu_switch_to
            \/ kernel_main \/ fork_page \/ fork_slot \/ enqueue_count \/ call_wake
  BY DEF Next, Kernel, Client, vars, fork, queue, who, el1_irq, preempt_return,
     __schedule, pick_scan, pick_scanned, reset_score, reset_done,
     cpu_switch_to, keep_running, switch_wild, schedule_return, kernel_main,
     fork_page, fork_slot, fork_count, fork_load, fork_store, fork_table,
     SET_LINKS, wake_up_process, enqueue_add, enqueue_count, schedule,
     set_sleep, call_wake, stopped

LEMMA PickMaskedStep ==
  ASSUME PreemptInv, PickMasked, [Next]_vars
  PROVE  PickMasked'
<1>1. pick \in [at : {"none", "scan", "reset", "switch"},
                tmp : Pointer, c : Int, next : Task \cup {UNINIT}]
  BY DEF PreemptInv, TypeOK
<1>2. CASE cpu_switch_to \/ keep_running
  BY <1>2, SMTT(30) DEF cpu_switch_to, keep_running, NoPick, PickMasked
<1>3. CASE __schedule
  BY <1>3 DEF __schedule, PickMasked
<1>4. CASE pick.at # "none" /\ UNCHANGED irqOn
  BY <1>4 DEF PickMasked
<1>5. CASE UNCHANGED <<pick, irqOn>>
  BY <1>5 DEF PickMasked
<1>6. CASE pick.at = "none" /\ UNCHANGED pick
  BY <1>6 DEF PickMasked
<1> QED
  BY <1>2, <1>3, <1>4, <1>5, <1>6, Frames, ShareFrames
  DEF pick_scan, pick_scanned, reset_score, reset_done, preempt_return,
      kernel_main, fork_page, fork_slot, enqueue_count, call_wake, Running,
      InPreempt

LEMMA InitBoundStep ==
  ASSUME PreemptInv, InitBound, [Next]_vars
  PROVE  InitBound'
<1>1. /\ count \in [Task -> Nat] /\ base \in [Task -> BasePC]
      /\ cur \in Task /\ init_task \in Task /\ init_task \notin Page
      /\ loc \in [Task -> [p : Page \cup {NULL}, pid : 0 .. NR_TASK - 1,
                           given : Nat, reg : Nat, next : Pointer]]
      /\ DEF_COUNTER \in Nat
  BY PageFacts, SchedAssumption DEF PreemptInv, TypeOK
<1>2. count'[init_task] <= DEF_COUNTER
  <2>1. CASE el1_irq
    <3>1. \/ UNCHANGED count
          \/ count' = [count EXCEPT ![cur] = IF count[cur] - 1 <= 0 THEN 0
                                                                ELSE count[cur] - 1]
      BY <2>1 DEF el1_irq, do_irq, task_tick_simple
    <3> QED BY <1>1, <3>1, SMTT(30) DEF InitBound
  <2>2. CASE reset_score
    <3>1. pick.tmp # init_task /\ \/ UNCHANGED count
                                  \/ \E n : count' = [count EXCEPT ![pick.tmp] = n]
      BY <2>2 DEF reset_score
    <3> QED BY <1>1, <3>1 DEF InitBound
  <2>3. CASE fork_count
    <3>1. base[cur] = "f_count" /\ \E n : count' = [count EXCEPT ![loc[cur].p] = n]
      BY <2>3 DEF fork_count, Running, child
    <3>2. loc[cur].p # init_task
      BY <1>1, <3>1 DEF PreemptInv, ForkedPage, ChildPC
    <3> QED BY <1>1, <3>1, <3>2 DEF InitBound
  <2>4. CASE fork_store
    <3>1. base[cur] = "f_store" /\ count' = [count EXCEPT ![cur] = loc[cur].reg \div 2]
      BY <2>4 DEF fork_store, Running, halved
    <3>2. cur = init_task
      BY <1>1, <3>1 DEF PreemptInv, OnlyInitForks, ForkPC
    <3>3. loc[cur].reg \in Nat /\ loc[cur].reg <= DEF_COUNTER
      BY <1>1, <3>1, <3>2 DEF InitBound
    <3> QED BY <1>1, <3>1, <3>2, <3>3, SMTT(30)
  <2> QED BY <2>1, <2>2, <2>3, <2>4, ShareFrames DEF InitBound
<1>3. ASSUME base'[init_task] = "f_store"
      PROVE  loc'[init_task].reg <= DEF_COUNTER
  <2>1. CASE fork_load
    <3>1. /\ base[cur] = "f_load" /\ loc' = [loc EXCEPT ![cur].reg = count[cur]]
      BY <2>1 DEF fork_load, Running
    <3>2. cur = init_task
      BY <1>1, <3>1 DEF PreemptInv, OnlyInitForks, ForkPC
    <3> QED BY <1>1, <3>1, <3>2 DEF InitBound
  <2>2. CASE cur # init_task
    BY <1>1, <1>3, <2>2, OthersStay DEF InitBound, PreemptInv
  <2>3. CASE UNCHANGED <<base, loc>>
    BY <1>3, <2>3 DEF InitBound
  <2>4. CASE cur = init_task /\ \E pc \in BasePC \ {"f_store"} : Goto(pc)
    BY <1>1, <1>3, <2>4 DEF Goto
  <2>5. CASE SET_LINKS \/ enqueue_add
    <3>1. PICK k \in 1 .. 4 : Goto(LinkPC[k + 1]) \/ Goto(AddPC[k + 1])
      BY <2>5 DEF SET_LINKS, enqueue_add
    <3>2. k = 1 \/ k = 2 \/ k = 3 \/ k = 4
      BY SMTT(30)
    <3>3. \E pc \in BasePC \ {"f_store"} : Goto(pc)
      BY <3>1, <3>2, SMTT(30) DEF LinkPC, AddPC, BasePC
    <3> QED BY <2>2, <2>4, <3>3
  <2>6. CASE fork_page \/ fork_slot \/ enqueue_count
    <3>1. Goto(Home(cur)) \/ Goto("f_slot") \/ Goto("f_count")
      BY <2>6 DEF fork_page, fork_slot, enqueue_count, Return
    <3>2. \E pc \in BasePC \ {"f_store"} : Goto(pc)
      BY <3>1 DEF Home, BasePC
    <3> QED BY <2>2, <2>4, <3>2
  <2>7. CASE __schedule \/ schedule_return \/ kernel_main \/ schedule
    <3>1. UNCHANGED <<base, loc>> \/ Goto("sched_leave") \/ Goto("body")
          \/ Goto("f_page") \/ Goto("sched_enter")
      BY <2>7 DEF __schedule, schedule_return, kernel_main, schedule
    <3>2. UNCHANGED <<base, loc>> \/ \E pc \in BasePC \ {"f_store"} : Goto(pc)
      BY <3>1 DEF BasePC
    <3> QED BY <2>2, <2>3, <2>4, <3>2
  <2>8. CASE fork_count \/ fork_store \/ fork_table \/ wake_up_process \/ call_wake
    <3>1. Goto("f_load") \/ Goto("f_table") \/ Goto("link1") \/ Goto("add1") \/ Goto("wake")
      BY <2>8 DEF fork_count, fork_store, fork_table, wake_up_process, call_wake
    <3>2. \E pc \in BasePC \ {"f_store"} : Goto(pc)
      BY <3>1 DEF BasePC
    <3> QED BY <2>2, <2>4, <3>2
  <2> QED
    BY <2>1, <2>3, <2>5, <2>6, <2>7, <2>8
    DEF Next, Kernel, Client, vars, el1_irq, preempt_return, pick_scan,
        pick_scanned, reset_score, reset_done, cpu_switch_to, keep_running,
        switch_wild, set_sleep, stopped
<1> QED BY <1>2, <1>3 DEF InitBound

LEMMA ReschedStep ==
  ASSUME PreemptInv, PickMasked, ReschedInv, [Next]_vars
  PROVE  ReschedInv'
<1>1. /\ base \in [Task -> BasePC] /\ cur \in Task
      /\ need_resched \in [Task -> {0, 1}] /\ count \in [Task -> Nat]
      /\ traps \in [Task -> Seq({"enter", "leave"})]
      /\ pick \in [at : {"none", "scan", "reset", "switch"},
                   tmp : Pointer, c : Int, next : Task \cup {UNINIT}]
  BY DEF PreemptInv, TypeOK
<1>2. \A t \in Task : traps[t] \in {<<>>, <<"enter">>, <<"leave">>}
  BY DEF PreemptInv, OneFrame
<1>3. ASSUME NEW t \in Task, base'[t] = "sched_enter"
      PROVE  t \in Voluntary
  <2>1. CASE t # cur
    BY <1>3, <2>1, OthersStay DEF ReschedInv, PreemptInv
  <2>2. CASE UNCHANGED base
    BY <1>3, <2>2 DEF ReschedInv
  <2>3. CASE cur \in Voluntary
    BY <2>1, <2>3
  <2>4. CASE \E pc \in BasePC \ {"sched_enter"} : Goto(pc)
    BY <1>1, <1>3, <2>1, <2>4 DEF Goto
  <2>5. CASE SET_LINKS \/ enqueue_add
    <3>1. PICK k \in 1 .. 4 : Goto(LinkPC[k + 1]) \/ Goto(AddPC[k + 1])
      BY <2>5 DEF SET_LINKS, enqueue_add
    <3>2. k = 1 \/ k = 2 \/ k = 3 \/ k = 4
      BY SMTT(30)
    <3> QED BY <2>4, <3>1, <3>2, SMTT(30) DEF LinkPC, AddPC, BasePC
  <2>6. CASE fork_page \/ fork_slot \/ enqueue_count
    <3>1. Goto(Home(cur)) \/ Goto("f_slot") \/ Goto("f_count")
      BY <2>6 DEF fork_page, fork_slot, enqueue_count, Return
    <3> QED BY <2>4, <3>1 DEF Home, BasePC
  <2>7. CASE __schedule \/ schedule_return \/ kernel_main \/ schedule
    <3>1. UNCHANGED base \/ Goto("sched_leave") \/ Goto("body")
          \/ Goto("f_page") \/ cur \in Voluntary
      BY <2>7 DEF __schedule, schedule_return, kernel_main, schedule
    <3> QED BY <2>2, <2>3, <2>4, <3>1 DEF BasePC
  <2>8. CASE fork_count \/ fork_load \/ fork_store \/ fork_table
             \/ wake_up_process \/ call_wake
    <3>1. Goto("f_load") \/ Goto("f_store") \/ Goto("f_table") \/ Goto("link1")
          \/ Goto("add1") \/ Goto("wake")
      BY <2>8 DEF fork_count, fork_load, fork_store, fork_table, wake_up_process, call_wake
    <3> QED BY <2>4, <3>1 DEF BasePC
  <2> QED
    BY <2>2, <2>5, <2>6, <2>7, <2>8
    DEF Next, Kernel, Client, vars, el1_irq, preempt_return, pick_scan,
        pick_scanned, reset_score, reset_done, cpu_switch_to, keep_running,
        switch_wild, set_sleep, stopped
<1>4. ASSUME el1_irq, NEW t \in Task
      PROVE  /\ need_resched'[t] # 0 => t = cur /\ (t = init_task \/ count'[t] = 0)
             /\ traps'[t] = <<"enter">> => t = cur /\ need_resched'[t] # 0
             /\ pick'.at = "none" /\ UNCHANGED cur
  <2>1. pick'.at = "none" /\ pick.at = "none" /\ UNCHANGED cur
    BY <1>4 DEF el1_irq, PickMasked, who
  <2>2. CASE UNCHANGED <<count, need_resched>>
    <3>1. CASE need_resched'[cur] # 0
      BY <1>1, <1>4, <2>1, <2>2, <3>1 DEF el1_irq, ReschedInv
    <3>2. CASE need_resched'[cur] = 0
      BY <1>4, <2>1, <2>2, <3>2 DEF el1_irq, el1_preempts, ReschedInv
    <3> QED BY <3>1, <3>2
  <2>3. CASE task_tick_simple(cur)
    <3>1. /\ t # cur => need_resched'[t] = need_resched[t] /\ count'[t] = count[t]
          /\ count[cur] - 1 <= 0 => need_resched'[cur] = 1 /\ count'[cur] = 0
          /\ ~(count[cur] - 1 <= 0) => need_resched'[cur] = need_resched[cur]
      BY <1>1, <2>3 DEF task_tick_simple
    <3>2. need_resched[cur] # 0 => cur = init_task \/ count[cur] = 0
      BY <1>1, <2>1 DEF ReschedInv
    <3>3. need_resched[cur] # 0 /\ cur # init_task => need_resched'[cur] = 1 /\ count'[cur] = 0
      BY <3>1, <3>2, SMTT(30)
    <3>4. need_resched[cur] # 0 => need_resched'[cur] # 0
      BY <3>1, SMTT(30)
    <3>5. t # cur => need_resched[t] = 0 /\ traps[t] # <<"enter">> /\ traps'[t] = traps[t]
      BY <1>1, <1>4 DEF el1_irq, ReschedInv
    <3>6. traps'[cur] = <<"enter">> => need_resched'[cur] # 0
      <4>1. CASE need_resched'[cur] # 0
        BY <4>1
      <4>2. CASE need_resched'[cur] = 0
        BY <1>1, <1>4, <3>4, <4>2 DEF el1_irq, el1_preempts, ReschedInv
      <4> QED BY <4>1, <4>2
    <3> QED BY <2>1, <3>1, <3>2, <3>3, <3>5, <3>6
  <2> QED BY <1>4, <2>2, <2>3 DEF el1_irq, do_irq
<1>5. ASSUME NEW t \in Task, need_resched'[t] # 0
      PROVE  t = cur' /\ (t = init_task \/ pick'.at # "none" \/ count'[t] = 0)
  <2>1. CASE el1_irq
    BY <1>4, <1>5, <2>1
  <2>2. CASE cpu_switch_to \/ keep_running \/ switch_wild
    BY <1>1, <1>5, <2>2 DEF cpu_switch_to, keep_running, switch_wild,
       clear_task_resched, ReschedInv
  <2>3. CASE fork_slot
    <3>1. /\ UNCHANGED <<cur, count, pick>>
          /\ UNCHANGED need_resched \/ need_resched' = [need_resched EXCEPT ![loc[cur].p] = 0]
      BY <2>3 DEF fork_slot, copy_thread, child
    <3> QED BY <1>1, <1>5, <3>1 DEF ReschedInv
  <2>4. CASE fork_count \/ fork_store
    <3>1. base[cur] \in {"f_count", "f_store"} /\ UNCHANGED <<cur, need_resched>>
      BY <2>4 DEF fork_count, fork_store, Running, who
    <3>2. cur = init_task
      BY <1>1, <3>1 DEF PreemptInv, OnlyInitForks, ForkPC
    <3> QED BY <1>5, <3>1, <3>2 DEF ReschedInv
  <2>5. CASE /\ UNCHANGED <<cur, need_resched>>
             /\ pick'.at # "none"
    BY <1>5, <2>5 DEF ReschedInv
  <2>6. CASE UNCHANGED <<cur, need_resched, count, pick>>
    BY <1>5, <2>6 DEF ReschedInv
  <2>7. CASE __schedule \/ pick_scan \/ pick_scanned \/ reset_score \/ reset_done
    <3>1. UNCHANGED <<cur, need_resched>>
      BY <2>7 DEF __schedule, pick_scan, pick_scanned, reset_score, reset_done, who
    <3>2. CASE __schedule
      BY <2>5, <3>1, <3>2 DEF __schedule, repeat
    <3>3. CASE pick_scan
      BY <1>1, <2>5, <3>1, <3>3 DEF pick_scan
    <3>4. CASE pick_scanned
      BY <1>1, <2>5, <3>1, <3>4 DEF pick_scanned, when_spent
    <3>5. CASE reset_score
      BY <1>1, <2>5, <3>1, <3>5 DEF reset_score
    <3>6. CASE reset_done
      BY <2>5, <3>1, <3>6 DEF reset_done, repeat
    <3> QED BY <2>7, <3>2, <3>3, <3>4, <3>5, <3>6
  <2> QED BY <2>1, <2>2, <2>3, <2>4, <2>6, <2>7, Frames, ShareFrames
<1>6. ASSUME NEW t \in Task, traps'[t] = <<"enter">>
      PROVE  t = cur' /\ pick'.at = "none" /\ need_resched'[t] # 0
  <2>1. CASE el1_irq
    BY <1>4, <1>6, <2>1
  <2>2. <<"leave">> # <<"enter">> /\ <<>> # <<"enter">>
    OBVIOUS
  <2>3. CASE __schedule
    <3>1. \/ traps[cur] # <<>> /\ traps' = [traps EXCEPT ![cur] = <<"leave">> \o Tail(@)]
          \/ traps[cur] = <<>> /\ UNCHANGED traps
      BY <2>3 DEF __schedule, InPreempt, Running
    <3>2. \/ traps' = [traps EXCEPT ![cur] = <<"leave">>]
          \/ traps[cur] = <<>> /\ UNCHANGED traps
      BY <1>1, <1>2, <3>1, FrameSeqs
    <3> QED BY <1>1, <1>6, <2>2, <3>2 DEF ReschedInv
  <2>4. CASE preempt_return
    <3>1. traps' = [traps EXCEPT ![cur] = Tail(@)] /\ traps[cur] # <<>>
      BY <2>4 DEF preempt_return, InPreempt
    <3>2. traps' = [traps EXCEPT ![cur] = <<>>]
      BY <1>1, <1>2, <3>1, FrameSeqs
    <3> QED BY <1>1, <1>6, <2>2, <3>2 DEF ReschedInv
  <2> SUFFICES ASSUME UNCHANGED traps PROVE t = cur' /\ pick'.at = "none" /\ need_resched'[t] # 0
    BY <2>1, <2>3, <2>4, ShareFrames
  <2>5. t = cur /\ pick.at = "none" /\ need_resched[t] # 0
    BY <1>6 DEF ReschedInv
  <2>6. CASE fork_slot
    <3>1. traps[cur] = <<>>
      BY <2>6 DEF fork_slot, Running
    <3> QED BY <1>6, <2>2, <2>5, <3>1
  <2>7. CASE UNCHANGED <<cur, pick, need_resched>>
    BY <2>5, <2>7
  <2> QED BY <2>1, <2>3, <2>5, <2>6, <2>7, Frames, ShareFrames
          DEF cpu_switch_to, keep_running, switch_wild, AtSwitch, pick_scan,
              pick_scanned, reset_score, reset_done
<1> QED BY <1>3, <1>5, <1>6 DEF ReschedInv
------------------------------------------------------------------------------
LEMMA AheadNext ==
  ASSUME NEW D, Page \subseteq D, NEW head \in D \ Page, NEW V, NEW nx \in [D -> V],
         NEW tmp \in Page
  PROVE  /\ Ahead(nx, head, nx[tmp]) \subseteq Ahead(nx, head, tmp)
         /\ Ahead(nx, head, tmp) \ {tmp} \subseteq Ahead(nx, head, nx[tmp])
         /\ tmp \in Ahead(nx, head, tmp)
<1> DEFINE f == [nx EXCEPT ![head] = tmp]
           g == [nx EXCEPT ![head] = nx[tmp]]
           A == Walk(f, head)
           B == Walk(g, head)
<1>1. /\ f[head] = tmp /\ g[head] = nx[tmp]
      /\ \A n \in Page : f[n] = nx[n] /\ g[n] = nx[n]
  OBVIOUS
<1>2. /\ A \in SUBSET Page /\ Closed(f, head, A)
      /\ B \in SUBSET Page /\ Closed(g, head, B)
  BY WalkClosed
<1> HIDE DEF f, g, A, B
<1>3. tmp \in A
  BY <1>1, <1>2 DEF Closed
<1>4. Closed(g, head, A)
  BY <1>1, <1>2, <1>3 DEF Closed
<1>5. B \subseteq A
  BY <1>2, <1>4, WalkLeast DEF B
<1>6. Closed(f, head, B \cup {tmp}) /\ B \cup {tmp} \in SUBSET Page
  BY <1>1, <1>2 DEF Closed
<1>7. A \subseteq B \cup {tmp}
  BY <1>6, WalkLeast DEF A
<1> QED BY <1>3, <1>5, <1>7 DEF Ahead, A, B, f, g

LEMMA AheadEnds ==
  ASSUME NEW D, NEW head \in D \ Page, NEW V, NEW nx \in [D -> V]
  PROVE  /\ Ahead(nx, head, nx[head]) = Walk(nx, head)
         /\ \A x : x \notin Page => Ahead(nx, head, x) = {}
<1>1. [nx EXCEPT ![head] = nx[head]] = nx
  OBVIOUS
<1>2. ASSUME NEW x, x \notin Page
      PROVE  Ahead(nx, head, x) = {}
  <2>1. [nx EXCEPT ![head] = x][head] = x
    OBVIOUS
  <2>2. Closed([nx EXCEPT ![head] = x], head, {}) /\ {} \in SUBSET Page
    BY <1>2, <2>1 DEF Closed
  <2> QED BY <2>2, WalkLeast DEF Ahead
<1> QED BY <1>1, <1>2 DEF Ahead

LEMMA ScanStep ==
  ASSUME PreemptInv, PreemptInv', PickMasked, PickInv, ScanInv, [Next]_vars
  PROVE  ScanInv'
<1>1. /\ pick \in [at : {"none", "scan", "reset", "switch"},
                   tmp : Pointer, c : Int, next : Task \cup {UNINIT}]
      /\ count \in [Task -> Nat] /\ run_list.next \in [Node -> Pointer]
      /\ run_list'.next \in [Node -> Pointer]
      /\ OnQueue \subseteq Page /\ Page \subseteq Task /\ Page \subseteq Node
      /\ rq_head \in Node \ Page
  BY PageFacts, WalkClosed DEF PreemptInv, TypeOK, OnQueue, Node
<1>2. CASE __schedule \/ reset_done
  <2>1. pick'.at = "scan" /\ pick'.c = -1000 /\ pick'.tmp = run_list'.next[rq_head]
    BY <1>2, SMTT(30) DEF __schedule, reset_done, repeat, queue
  <2>2. Passed' = {}
    <3>1. Ahead(run_list'.next, rq_head, run_list'.next[rq_head])
            = Walk(run_list'.next, rq_head)
      BY <1>1, AheadEnds
    <3>2. (Ahead(run_list.next, rq_head, pick.tmp))' = OnQueue'
      BY <2>1, <3>1 DEF OnQueue, Ahead
    <3> QED BY <2>1, <3>2 DEF Passed
  <2> QED BY <2>1, <2>2 DEF ScanInv
<1>3. CASE pick_scan
  <2>1. pick.at = "scan" /\ pick.tmp \in OnQueue /\ UNCHANGED <<run_list, count>>
    BY <1>3 DEF pick_scan, PickInv, queue
  <2>2. LET better == count[pick.tmp] > pick.c IN
        /\ pick'.at = "scan" /\ pick'.tmp = run_list.next[pick.tmp]
        /\ pick'.c = IF better THEN count[pick.tmp] ELSE pick.c
        /\ pick'.next = IF better THEN pick.tmp ELSE pick.next
    BY <1>1, <1>3, <2>1 DEF pick_scan, goodness
  <2>3. OnQueue' = OnQueue
    BY <2>1 DEF OnQueue
  <2>4. Passed' \subseteq Passed \cup {pick.tmp}
    BY <1>1, <2>1, <2>2, <2>3, AheadNext DEF Passed
  <2>5. count[pick.tmp] \in Nat /\ pick.c \in Int
    BY <1>1, <2>1
  <2>6. \A t \in Passed' : count'[t] <= pick'.c
    <3> SUFFICES ASSUME NEW t \in Passed' PROVE count[t] <= pick'.c
      BY <2>1
    <3>1. count[t] \in Nat
      BY <1>1, <2>2, <2>3 DEF Passed
    <3> QED BY <2>1, <2>2, <2>4, <2>5, <3>1, SMTT(30) DEF ScanInv
  <2>7. pick'.next \in OnQueue' /\ pick'.c = count'[pick'.next]
    <3>1. CASE count[pick.tmp] > pick.c
      BY <2>1, <2>2, <2>3, <3>1
    <3>2. CASE ~(count[pick.tmp] > pick.c)
      <4>1. pick.c # -1000
        BY <2>5, <3>2, SMTT(30)
      <4> QED BY <2>1, <2>2, <2>3, <3>2, <4>1, SMTT(30) DEF ScanInv
    <3> QED BY <3>1, <3>2
  <2> QED BY <2>2, <2>6, <2>7 DEF ScanInv
<1>4. CASE pick_scanned
  <2>1. /\ pick.at = "scan" /\ pick.tmp = rq_head /\ UNCHANGED <<run_list, count>>
        /\ pick' = IF pick.c = 0 THEN when_spent ELSE [pick EXCEPT !.at = "switch"]
    BY <1>4 DEF pick_scanned, queue
  <2>2. CASE pick.c = 0
    BY <1>1, <2>1, <2>2 DEF when_spent, ScanInv
  <2>3. CASE pick.c # 0
    <3>1. pick'.at = "switch" /\ pick'.c = pick.c /\ pick'.next = pick.next
      BY <1>1, <2>1, <2>3
    <3>2. OnQueue' = OnQueue /\ Passed' = Passed
      BY <1>1, <2>1, <3>1, AheadEnds DEF Passed, OnQueue
    <3> QED BY <2>1, <2>3, <3>1, <3>2, SMTT(30) DEF ScanInv
  <2> QED BY <2>2, <2>3
<1>5. CASE reset_score
  BY <1>1, <1>5 DEF reset_score, ScanInv
<1>6. CASE cpu_switch_to \/ keep_running
  BY <1>6, SMTT(30) DEF cpu_switch_to, keep_running, NoPick, ScanInv
<1>7. CASE UNCHANGED <<pick, count, run_list>>
  BY <1>7, SMTT(30) DEF ScanInv, Passed, OnQueue
<1>8. CASE pick.at = "none" /\ UNCHANGED pick
  BY <1>8 DEF ScanInv
<1> QED
  BY <1>2, <1>3, <1>4, <1>5, <1>6, <1>7, <1>8
  DEF Next, Kernel, Client, vars, queue, el1_irq, preempt_return, switch_wild,
      schedule_return, kernel_main, fork_page, fork_slot, fork_count,
      fork_load, fork_store, fork_table, SET_LINKS, wake_up_process,
      enqueue_add, enqueue_count, schedule, set_sleep, call_wake, stopped,
      Running, InPreempt, PickMasked
------------------------------------------------------------------------------
(* The refinement mapping, by name.                                        *)
Slice == [t \in Page |-> IF t \in ToReset THEN full[t] ELSE count[t]]
Turn  == IF pick.at = "none" THEN "runs" ELSE "over"

Shares == TS!Next \/ UNCHANGED <<OnQueue, Slice, cur, Turn>>

LEMMA SliceIsCount ==
  ASSUME pick.at # "reset"
  PROVE  Slice = [t \in Page |-> count[t]]
<1>1. ToReset = {}
  BY DEF ToReset
<1> QED BY <1>1 DEF Slice

LEMMA SliceIsCountNext ==
  ASSUME pick'.at # "reset"
  PROVE  Slice' = [t \in Page |-> count'[t]]
<1>1. ToReset' = {}
  BY DEF ToReset
<1> QED BY <1>1 DEF Slice

(* A tick uses up the slice of the running thread.                         *)
LEMMA ShareTick ==
  ASSUME PreemptInv, ShareInv, el1_irq
  PROVE  Shares
<1>1. /\ pick.at = "none" /\ UNCHANGED <<pick, run_list, cur>>
      /\ count \in [Task -> Nat] /\ cur \in Task /\ Page \subseteq Task
  BY PageFacts DEF ShareInv, PickMasked, el1_irq, queue, who, PreemptInv, TypeOK
<1>2. /\ Slice = [t \in Page |-> count[t]] /\ Slice' = [t \in Page |-> count'[t]]
      /\ Turn = "runs" /\ UNCHANGED <<OnQueue, cur, Turn>>
  BY <1>1, SliceIsCount, SliceIsCountNext DEF OnQueue, Turn
<1>3. CASE UNCHANGED count \/ cur \notin Page \/ count[cur] = 0
  <2>1. \A t \in Page : count'[t] = count[t]
    <3>1. CASE UNCHANGED count
      BY <3>1
    <3>2. CASE task_tick_simple(cur)
      BY <1>1, <1>3, <3>2, SMTT(30) DEF task_tick_simple
    <3> QED BY <3>1, <3>2 DEF el1_irq, do_irq
  <2>2. Slice' = Slice
    BY <1>2, <2>1
  <2> QED BY <1>2, <2>2 DEF Shares
<1>4. CASE task_tick_simple(cur) /\ cur \in Page /\ count[cur] # 0
  <2>1. count[cur] \in Nat \ {0} /\ count' = [count EXCEPT ![cur] = count[cur] - 1]
    <3>1. count[cur] \in Nat \ {0}
      BY <1>1, <1>4
    <3>2. count' = [count EXCEPT ![cur] = IF count[cur] - 1 <= 0 THEN 0 ELSE count[cur] - 1]
      BY <1>4 DEF task_tick_simple
    <3>3. (IF count[cur] - 1 <= 0 THEN 0 ELSE count[cur] - 1) = count[cur] - 1
      BY <3>1, SMTT(30)
    <3> QED BY <3>1, <3>2, <3>3
  <2>2. Slice[cur] > 0 /\ Slice' = [Slice EXCEPT ![cur] = Slice[cur] - 1]
    BY <1>1, <1>2, <1>4, <2>1, SMTT(30)
  <2>3. TS!Tick
    BY <1>2, <1>4, <2>2 DEF TS!Tick, Slice, Turn
  <2> QED BY <2>3 DEF Shares, TS!Next
<1> QED BY <1>3, <1>4 DEF el1_irq, do_irq

(* do_fork gives the child a part of a slice.                              *)
LEMMA ShareGrant ==
  ASSUME PreemptInv, QueueInv, ShareInv, fork_count
  PROVE  Shares
<1>1. /\ pick.at = "none" /\ UNCHANGED <<pick, run_list, cur>> /\ base[cur] = "f_count"
      /\ count' = [count EXCEPT ![loc[cur].p] = (count[cur] + 1) \div 2]
      /\ count \in [Task -> Nat] /\ cur \in Task /\ Page \subseteq Task
  BY PageFacts DEF fork_count, child, Running, queue, who, PreemptInv, TypeOK
<1>2. /\ Slice = [t \in Page |-> count[t]] /\ Slice' = [t \in Page |-> count'[t]]
      /\ UNCHANGED <<OnQueue, cur, Turn>>
  BY <1>1, SliceIsCount, SliceIsCountNext DEF OnQueue, Turn
<1>3. cur = init_task
  BY <1>1 DEF PreemptInv, OnlyInitForks, ForkPC
<1>4. loc[cur].p \in Page \ OnQueue
  <2>1. loc[cur].p \in Page
    BY <1>1 DEF PreemptInv, ForkedPage, ChildPC
  <2>2. Arriving(loc[cur].p)
    BY <1>1 DEF Arriving, ArrivePC
  <2> QED BY <2>1, <2>2 DEF QueueInv, QueueMembers
<1>5. (count[cur] + 1) \div 2 \in 0 .. full[loc[cur].p]
  <2>1. full[loc[cur].p] = DEF_COUNTER + 2
    BY <1>4, PageFacts DEF full, priority
  <2>2. count[cur] <= DEF_COUNTER /\ count[cur] \in Nat /\ DEF_COUNTER \in Nat
    BY <1>1, <1>3, SchedAssumption DEF ShareInv, InitBound
  <2>3. (count[cur] + 1) \div 2 \in Nat /\ (count[cur] + 1) \div 2 <= count[cur] + 1
    BY <2>2, SMTT(30)
  <2> QED BY <2>1, <2>2, <2>3, SMTT(30)
<1>6. Slice' = [Slice EXCEPT ![loc[cur].p] = (count[cur] + 1) \div 2]
  BY <1>1, <1>2, <1>4
<1>7. TS!Grant
  BY <1>2, <1>4, <1>5, <1>6 DEF TS!Grant, Slice, Turn
<1> QED BY <1>7 DEF Shares, TS!Next

(* The store of list_add that publishes the task makes it ready.           *)
LEMMA ShareAdmit ==
  ASSUME PreemptInv, QueueInv, enqueue_add
  PROVE  Shares
<1>1. /\ pick.at = "none" /\ UNCHANGED <<pick, count, cur>>
      /\ cur \in Task /\ base[cur] \in {"add1", "add2", "add3", "add4"}
  <2>1. PICK k \in 1 .. 4 : Running(AddPC[k]) /\ UNCHANGED <<pick, count, who>>
    BY DEF enqueue_add
  <2>2. k = 1 \/ k = 2 \/ k = 3 \/ k = 4
    BY SMTT(30)
  <2> QED BY <2>1, <2>2, SMTT(30) DEF Running, AddPC, who, PreemptInv, TypeOK
<1>2. UNCHANGED <<Slice, cur, Turn>> /\ Turn = "runs"
  BY <1>1, SliceIsCount, SliceIsCountNext DEF Turn
<1>3. OnQueue' = OnQueue \cup (IF base'[cur] = "nr_running" THEN {loc[cur].p} ELSE {})
  BY RunAdd DEF QueueInv, RunInv
<1>4. loc[cur].p \in Page \ OnQueue
  <2>1. loc[cur].p \in Page
    BY <1>1 DEF PreemptInv, ForkedPage, ChildPC
  <2>2. Arriving(loc[cur].p)
    BY <1>1 DEF Arriving, ArrivePC
  <2> QED BY <2>1, <2>2 DEF QueueInv, QueueMembers
<1>5. CASE base'[cur] = "nr_running"
  <2>1. TS!Admit
    BY <1>2, <1>3, <1>4, <1>5 DEF TS!Admit, Slice, Turn
  <2> QED BY <2>1 DEF Shares, TS!Next
<1>6. CASE base'[cur] # "nr_running"
  BY <1>2, <1>3, <1>6 DEF Shares
<1> QED BY <1>5, <1>6

(* __schedule ends the turn of a thread whose slice is used up, or that    *)
(* called schedule(); the latter may have gone to sleep.                   *)
LEMMA ShareEndTurn ==
  ASSUME Disciplined, PreemptInv, InitForks, QueueInv, ShareInv, __schedule
  PROVE  Shares
<1>1. /\ pick.at = "none" /\ pick'.at = "scan" /\ UNCHANGED <<count, cur>> /\ cur \in Task
  BY DEF __schedule, InPreempt, Running, repeat, who, PreemptInv, TypeOK
<1>2. /\ Slice = [t \in Page |-> count[t]] /\ Slice' = Slice
      /\ Turn = "runs" /\ Turn' = "over"
  BY <1>1, SliceIsCount, SliceIsCountNext DEF Turn
<1>3. OnQueue' = IF blocks(cur) THEN OnQueue \ {cur} ELSE OnQueue
  BY RunSchedule DEF QueueInv, RunInv
<1>4. blocks(cur) => cur \in Voluntary
  BY <1>1 DEF blocks, QueueInv, Sleepers
<1>5. cur = init_task \/ cur \in Voluntary \/ Slice[cur] = 0
  <2>1. CASE InPreempt("enter")
    <3>1. traps[cur] # <<>> /\ Head(traps[cur]) = "enter"
          /\ traps[cur] \in {<<>>, <<"enter">>, <<"leave">>}
      BY <1>1, <2>1 DEF InPreempt, PreemptInv, OneFrame
    <3>2. traps[cur] = <<"enter">>
      BY <3>1, FrameSeqs
    <3>3. cur = init_task \/ count[cur] = 0
      BY <1>1, <3>2 DEF ShareInv, ReschedInv
    <3> QED BY <1>1, <1>2, <3>3 DEF Task
  <2>2. CASE Running("sched_enter")
    BY <1>1, <2>2 DEF Running, ShareInv, ReschedInv
  <2> QED BY <2>1, <2>2 DEF __schedule
<1>6. TS!EndTurn
  BY <1>1, <1>2, <1>3, <1>4, <1>5 DEF TS!EndTurn, Slice, Turn
<1> QED BY <1>6 DEF Shares, TS!Next

(* if (!c): no ready thread has any slice left, and reset_score refills    *)
(* all of the task list.                                                   *)
LEMMA ShareRefill ==
  ASSUME PreemptInv, QueueInv, ShareInv, pick_scanned
  PROVE  Shares
<1>1. /\ pick \in [at : {"none", "scan", "reset", "switch"},
                   tmp : Pointer, c : Int, next : Task \cup {UNINIT}]
      /\ count \in [Task -> Nat] /\ links.next \in [Task -> Task \cup {NULL}]
      /\ run_list.next \in [Node -> Pointer]
      /\ Page \subseteq Task /\ init_task \in Task \ Page /\ rq_head \in Node \ Page
      /\ OnQueue \subseteq Page
  BY PageFacts, WalkClosed DEF PreemptInv, TypeOK, Node, OnQueue
<1>2. /\ pick.at = "scan" /\ pick.tmp = rq_head
      /\ UNCHANGED <<run_list, links, count, cur>>
      /\ pick' = IF pick.c = 0 THEN when_spent ELSE [pick EXCEPT !.at = "switch"]
  BY DEF pick_scanned, queue, fork, who
<1>3. /\ Slice = [t \in Page |-> count[t]] /\ Turn = "over"
      /\ UNCHANGED <<OnQueue, cur>>
  BY <1>2, SliceIsCount DEF OnQueue, Turn
<1>4. CASE pick.c # 0
  <2>1. pick'.at = "switch"
    BY <1>1, <1>2, <1>4
  <2> QED BY <1>2, <1>3, <2>1, SliceIsCountNext DEF Shares, Turn
<1>5. CASE pick.c = 0
  <2>1. pick'.at = "reset" /\ pick'.tmp = links.next[init_task]
    BY <1>1, <1>2, <1>5 DEF when_spent
  <2>2. ToReset' = OnList
    <3> DEFINE V == Task \cup {NULL}
    <3>1. Ahead(links.next, init_task, links.next[init_task]) = Walk(links.next, init_task)
      <4>1. links.next \in [Task -> V] /\ init_task \in Task \ Page
        BY <1>1
      <4> HIDE DEF V
      <4> QED BY <4>1, AheadEnds
    <3> QED BY <1>2, <2>1, <3>1 DEF ToReset, Ahead, OnList
  <2>3. Slice' = [t \in Page |-> IF t \in OnList THEN full[t] ELSE Slice[t]]
    BY <1>2, <1>3, <2>2 DEF Slice, full
  <2>4. Passed = OnQueue
    BY <1>1, <1>2, AheadEnds DEF Passed
  <2>5. OnQueue # {} /\ \A t \in OnQueue : Slice[t] = 0
    <3>1. OnQueue # {}
      BY <1>2, <1>5, SMTT(30) DEF ShareInv, ScanInv
    <3>2. \A t \in OnQueue : count[t] <= 0 /\ count[t] \in Nat
      BY <1>1, <1>2, <1>5, <2>4 DEF ShareInv, ScanInv
    <3> QED BY <1>1, <1>3, <3>1, <3>2, SMTT(30)
  <2>6. OnQueue \subseteq OnList /\ OnList \in SUBSET Page
    <3>1. \A t \in Page : Unlisted(t) => Arriving(t)
      BY <1>1 DEF Unlisted, Arriving, ArrivePC
    <3> QED BY <1>1, <3>1, WalkClosed DEF QueueInv, QueueMembers, ListInv, OnList
  <2>7. Turn' = Turn
    BY <1>3, <2>1 DEF Turn
  <2>8. TS!Refill
    BY <1>3, <2>3, <2>5, <2>6, <2>7 DEF TS!Refill, Slice, Turn
  <2> QED BY <2>8 DEF Shares, TS!Next
<1> QED BY <1>4, <1>5

(* reset_score comes to one task after the other; each counted as refilled *)
(* already.                                                                *)
LEMMA ShareReset ==
  ASSUME PreemptInv, QueueInv, QueueInv', reset_score \/ reset_done
  PROVE  UNCHANGED <<OnQueue, Slice, cur, Turn>>
<1>1. /\ pick \in [at : {"none", "scan", "reset", "switch"},
                   tmp : Pointer, c : Int, next : Task \cup {UNINIT}]
      /\ count \in [Task -> Nat] /\ links.next \in [Task -> Task \cup {NULL}]
      /\ Page \subseteq Task /\ init_task \in Task \ Page /\ OnList \subseteq Page
  BY PageFacts, WalkClosed DEF PreemptInv, TypeOK, OnList
<1>2. pick.at = "reset" /\ UNCHANGED <<run_list, links, cur>>
  BY DEF reset_score, reset_done, queue, fork, who
<1>3. CASE reset_score
  <2>1. pick.tmp \in Page
    BY <1>1, <1>2, <1>3 DEF reset_score, QueueInv, PickInv
  <2>2. /\ count' = [count EXCEPT ![pick.tmp] = full[pick.tmp]]
        /\ pick'.at = "reset" /\ pick'.tmp = links.next[pick.tmp]
    BY <1>1, <1>3, <2>1 DEF reset_score, fresh_score, full
  <2>3. /\ ToReset = Ahead(links.next, init_task, pick.tmp)
        /\ ToReset' = Ahead(links.next, init_task, links.next[pick.tmp])
    BY <1>2, <2>2 DEF ToReset, Ahead
  <2>4. ToReset' \subseteq ToReset /\ ToReset \ {pick.tmp} \subseteq ToReset'
        /\ pick.tmp \in ToReset
    BY <1>1, <2>1, <2>3, AheadNext
  <2>5. Slice' = Slice
    <3>1. full' = full
      BY DEF full, priority
    <3>2. \A t \in Page : (IF t \in ToReset' THEN full[t] ELSE count'[t])
                            = (IF t \in ToReset THEN full[t] ELSE count[t])
      BY <1>1, <2>1, <2>2, <2>4
    <3> QED BY <3>1, <3>2 DEF Slice
  <2> QED BY <1>2, <2>2, <2>5 DEF OnQueue, Turn
<1>4. CASE reset_done
  <2>1. pick.tmp = init_task /\ pick'.at = "scan" /\ UNCHANGED count
    BY <1>4 DEF reset_done, repeat
  <2>2. ToReset = {} /\ ToReset' = {}
    BY <1>1, <2>1, AheadEnds DEF ToReset, Ahead
  <2>3. Slice' = Slice
    BY <2>1, <2>2 DEF Slice, full
  <2> QED BY <1>2, <2>1, <2>3 DEF OnQueue, Turn
<1> QED BY <1>3, <1>4

(* The switch goes to the ready thread that has the most slice left.       *)
LEMMA ShareDispatch ==
  ASSUME PreemptInv, QueueInv, ShareInv, cpu_switch_to \/ keep_running
  PROVE  Shares
<1>1. /\ pick.at = "switch" /\ pick'.at = "none" /\ cur' = pick.next
      /\ pick.next \in Task /\ UNCHANGED <<run_list, count>>
  BY SMTT(30) DEF cpu_switch_to, keep_running, AtSwitch, NoPick, queue, who, PreemptInv, TypeOK
<1>2. pick.next \in OnQueue
  BY <1>1, PageFacts DEF QueueInv, PickInv
<1>3. /\ Slice = [t \in Page |-> count[t]] /\ Slice' = Slice
      /\ Turn = "over" /\ Turn' = "runs" /\ UNCHANGED OnQueue
  BY <1>1, SliceIsCount, SliceIsCountNext DEF Turn, OnQueue
<1>4. OnQueue \subseteq Page /\ count \in [Task -> Nat] /\ Page \subseteq Task
  BY PageFacts, WalkClosed DEF OnQueue, PreemptInv, TypeOK
<1>5. count[pick.next] = pick.c /\ pick.c # 0 /\ \A u \in OnQueue : count[u] <= pick.c
  <2>1. pick.at # "scan"
    BY <1>1
  <2>2. Passed = OnQueue
    BY <2>1 DEF Passed
  <2>3. ScanInv
    BY DEF ShareInv
  <2>4. /\ \A u \in OnQueue : count[u] <= pick.c
        /\ \/ OnQueue = {} /\ pick.c = -1000
           \/ pick.next \in OnQueue /\ pick.c = count[pick.next]
        /\ pick.c # 0
    BY <1>1, <2>2, <2>3 DEF ScanInv
  <2>5. OnQueue # {}
    BY <1>2
  <2> QED BY <2>4, <2>5
<1>6. Slice[pick.next] > 0 /\ \A u \in OnQueue : Slice[pick.next] >= Slice[u]
  BY <1>2, <1>3, <1>4, <1>5, SMTT(30)
<1>7. TS!Dispatch
  BY <1>1, <1>2, <1>3, <1>6 DEF TS!Dispatch, Slice, Turn
<1> QED BY <1>7 DEF Shares, TS!Next

(* Every step of the scheduler is a step of TimeShare or changes nothing   *)
(* of it.                                                                  *)
LEMMA ShareStep ==
  ASSUME Disciplined, PreemptInv, InitForks, QueueInv, QueueInv', ShareInv, [Next]_vars
  PROVE  Shares
<1>1. pick \in [at : {"none", "scan", "reset", "switch"},
                tmp : Pointer, c : Int, next : Task \cup {UNINIT}]
      /\ cur \in Task /\ count \in [Task -> Nat] /\ init_task \notin Page
  BY PageFacts DEF PreemptInv, TypeOK
<1>2. CASE fork_store
  <2>1. /\ base[cur] = "f_store" /\ pick.at = "none" /\ UNCHANGED <<pick, run_list, cur>>
        /\ count' = [count EXCEPT ![cur] = halved(loc[cur].reg)]
    BY <1>2 DEF fork_store, Running, queue, who
  <2>2. cur = init_task
    BY <1>1, <2>1 DEF PreemptInv, OnlyInitForks, ForkPC
  <2>3. \A t \in Page : count'[t] = count[t]
    BY <1>1, <2>1, <2>2, PageFacts
  <2>4. Slice' = Slice
    BY <2>1, <2>3, SliceIsCount, SliceIsCountNext
  <2> QED BY <2>1, <2>4 DEF Shares, OnQueue, Turn
<1>3. CASE pick_scan
  <2>1. pick.at = "scan" /\ pick'.at = "scan" /\ UNCHANGED <<count, run_list, cur>>
    BY <1>1, <1>3 DEF pick_scan, queue, who
  <2> QED BY <2>1, SliceIsCount, SliceIsCountNext DEF Shares, OnQueue, Turn
<1>4. CASE UNCHANGED <<pick, links, count, run_list, cur>>
  BY <1>4 DEF Shares, OnQueue, Turn, Slice, ToReset, full
<1>5. CASE SET_LINKS
  <2>1. pick.at = "none" /\ UNCHANGED <<pick, count, run_list, cur>>
    BY <1>5 DEF SET_LINKS, Running, queue, who
  <2> QED BY <2>1, SliceIsCount, SliceIsCountNext DEF Shares, OnQueue, Turn
<1> QED
  BY <1>2, <1>3, <1>4, <1>5, ShareTick, ShareGrant, ShareAdmit, ShareEndTurn,
     ShareRefill, ShareReset, ShareDispatch
  DEF Next, Kernel, Client, vars, queue, fork, who, preempt_return, switch_wild,
      schedule_return, kernel_main, fork_page, fork_slot, fork_load,
      fork_table, wake_up_process, enqueue_count, schedule, set_sleep,
      call_wake, stopped, Shares

LEMMA ShareInit == Init => ShareInv /\ TS!Init
<1> SUFFICES ASSUME Init PROVE ShareInv /\ TS!Init
  OBVIOUS
<1>1. /\ pick.at = "none" /\ cur = init_task /\ init_task \in Task \ Page
      /\ \A t \in Task : /\ need_resched[t] = 0 /\ traps[t] = <<>>
                         /\ base[t] # "sched_enter" /\ base[t] # "f_store"
      /\ count[init_task] = DEF_COUNTER /\ \A t \in Page : count[t] = 0
  BY PageFacts DEF Init, NoPick
<1>2. <<>> # <<"enter">>
  OBVIOUS
<1>3. ReschedInv
  <2>1. \A t \in Task : traps[t] # <<"enter">>
    BY <1>1, <1>2
  <2> QED BY <1>1, <2>1 DEF ReschedInv
<1>4. PickMasked /\ InitBound /\ ScanInv
  BY <1>1, SchedAssumption, SMTT(30) DEF PickMasked, InitBound, ScanInv
<1>5. OnQueue = {}
  <2>1. run_list.next[rq_head] = rq_head /\ rq_head \notin Page
    BY PageFacts DEF Init, sched_init, INIT_LIST_HEAD, Unlinked, Node
  <2>2. Closed(run_list.next, rq_head, {}) /\ {} \in SUBSET Page
    BY <2>1 DEF Closed
  <2> QED BY <2>2 DEF OnQueue, Walk
<1>6. Slice = [t \in Page |-> 0]
  BY <1>1, SliceIsCount
<1>7. TS!Init
  BY <1>1, <1>5, <1>6 DEF TS!Init, Slice
<1> QED BY <1>3, <1>4, <1>7 DEF ShareInv

(* The tick, __schedule, the pick with its reset_score and the switch      *)
(* implement TimeShare: for the kernel as it is, whose threads never call  *)
(* the scheduler, and for any threads that do, when callers mask IRQs.     *)
THEOREM SharesTheCPU ==
  ASSUME CallersMask \/ Voluntary = {}
  PROVE  Spec => ImplementsTimeShare
<1> DEFINE Inv == PreemptInv /\ InitForks /\ QueueInv
<1>1. Inv /\ Inv' /\ ShareInv /\ [Next]_vars => ShareInv'
  <2> SUFFICES ASSUME Inv, Inv', ShareInv, [Next]_vars PROVE ShareInv'
    OBVIOUS
  <2>1. PickMasked' /\ InitBound' /\ ReschedInv'
    BY PickMaskedStep, InitBoundStep, ReschedStep DEF ShareInv
  <2>2. ScanInv'
    BY ScanStep DEF ShareInv, QueueInv
  <2> QED BY <2>1, <2>2 DEF ShareInv
<1>2. Inv /\ Inv' /\ ShareInv /\ [Next]_vars
        => [TS!Next]_<<OnQueue, [t \in Page |-> IF t \in ToReset THEN full[t]
                                                             ELSE count[t]],
                       cur, IF pick.at = "none" THEN "runs" ELSE "over">>
  <2> SUFFICES ASSUME Inv, Inv', ShareInv, [Next]_vars
               PROVE  TS!Next \/ UNCHANGED <<OnQueue, Slice, cur, Turn>>
    BY DEF Slice, Turn
  <2> QED BY ShareStep DEF Shares, Disciplined
<1>3. Spec => []Inv
  BY QueueInvariant DEF Disciplined
<1> HIDE DEF Inv
<1> QED
  BY <1>1, <1>2, <1>3, ShareInit, PTL DEF Spec, ImplementsTimeShare, TS!Spec
------------------------------------------------------------------------------
(* rq->nr_running is the length of the run queue.                          *)

(* Tasks that are about to count what they enqueued.                       *)
Counting == {t \in Task : base[t] = "nr_running"}

(* Steps that neither count nor are about to.                              *)
LEMMA CountQuiet ==
  ASSUME PreemptInv, [Next]_vars, ~enqueue_add, ~enqueue_count, ~__schedule
  PROVE  UNCHANGED <<nr_running, run_list>> /\ Counting' = Counting
<1>1. base \in [Task -> BasePC] /\ cur \in Task
  BY DEF PreemptInv, TypeOK
<1>2. UNCHANGED <<nr_running, run_list>>
  BY DEF Next, Kernel, Client, vars, queue, el1_irq, preempt_return, pick_scan,
     pick_scanned, reset_score, reset_done, cpu_switch_to, keep_running,
     switch_wild, schedule_return, kernel_main, fork_page, fork_slot,
     fork_count, fork_load, fork_store, fork_table, SET_LINKS,
     wake_up_process, schedule, set_sleep, call_wake, stopped
<1>3. CASE UNCHANGED base
  BY <1>2, <1>3 DEF Counting
<1>4. CASE base[cur] # "nr_running" /\ \E pc : pc # "nr_running" /\ Goto(pc)
  BY <1>1, <1>2, <1>4 DEF Goto, Counting
<1>5. CASE SET_LINKS
  <2>1. PICK k \in 1 .. 4 : Running(LinkPC[k]) /\ Goto(LinkPC[k + 1])
    BY <1>5 DEF SET_LINKS
  <2>2. k = 1 \/ k = 2 \/ k = 3 \/ k = 4
    BY SMTT(30)
  <2> QED BY <1>4, <2>1, <2>2, SMTT(30) DEF Running, LinkPC
<1>6. Home(cur) # "nr_running"
  BY DEF Home
<1> QED
  BY <1>3, <1>4, <1>5, <1>6
  DEF Next, Kernel, Client, vars, el1_irq, preempt_return, pick_scan,
     pick_scanned, reset_score, reset_done, cpu_switch_to, keep_running,
     switch_wild, schedule_return, kernel_main, fork_page, fork_slot,
     fork_count, fork_load, fork_store, fork_table, wake_up_process,
     schedule, set_sleep, call_wake, stopped, Running, Return

(* A store of list_add takes the caller to the next one.                   *)
LEMMA AddMoves ==
  ASSUME PreemptInv, enqueue_add
  PROVE  /\ base[cur] \in {"add1", "add2", "add3", "add4"} /\ base'[cur] # base[cur]
         /\ \A t \in Task : t # cur => base'[t] = base[t]
         /\ UNCHANGED nr_running
<1>1. base \in [Task -> BasePC] /\ cur \in Task
  BY DEF PreemptInv, TypeOK
<1>2. PICK k \in 1 .. 4 : Running(AddPC[k]) /\ Goto(AddPC[k + 1]) /\ UNCHANGED nr_running
  BY DEF enqueue_add
<1>3. k = 1 \/ k = 2 \/ k = 3 \/ k = 4
  BY SMTT(30)
<1> QED BY <1>1, <1>2, <1>3, SMTT(30) DEF Running, Goto, AddPC

LEMMA Sums ==
  /\ 0 + 0 = 0
  /\ \A n, q \in Int : n + 0 = q => n + 1 = q + 1
  /\ \A n, q \in Int : n + 1 = q => n + 1 + 0 = q
  BY SMTT(30)

LEMMA SumDown ==
  ASSUME NEW n \in Int, NEW c \in Int, NEW q \in Int, n + c = q
  PROVE  n - 1 + c = q - 1
  BY SMTT(30)

LEMMA SmallInts == 0 \in Int /\ 1 \in Int
  BY SMTT(30)

LEMMA PageBounds ==
  Page \subseteq 0 .. NR_PAGES + LOW_MEMORY /\ NR_PAGES + LOW_MEMORY \in Int /\ Nat \subseteq Int
  BY SchedAssumption, SMTT(30) DEF Page, PA!Page, PA!MapIndex

FST == INSTANCE FiniteSetTheorems

LEMMA Cardinalities ==
  \A S : Cardinality(S) = FST!Cardinality(S) /\ (IsFiniteSet(S) <=> FST!IsFiniteSet(S))
  BY DEF Cardinality, FST!Cardinality, IsFiniteSet, FST!IsFiniteSet

LEMMA QueueFinite == IsFiniteSet(OnQueue) /\ Cardinality(OnQueue) \in Int
<1>1. OnQueue \subseteq Page
  BY DEF OnQueue, Walk
<1>2. FST!IsFiniteSet(0 .. NR_PAGES + LOW_MEMORY)
  BY SmallInts, PageBounds, FST!FS_Interval
<1>3. FST!IsFiniteSet(OnQueue)
  BY <1>1, <1>2, PageBounds, FST!FS_Subset
<1> QED BY <1>3, PageBounds, Cardinalities, FST!FS_CardinalityType

(* The length of the queue with a task more, and with one less.            *)
LEMMA QueueLength ==
  ASSUME NEW t
  PROVE  /\ t \notin OnQueue => Cardinality(OnQueue \cup {t}) = Cardinality(OnQueue) + 1
         /\ t \in OnQueue => Cardinality(OnQueue \ {t}) = Cardinality(OnQueue) - 1
<1>1. FST!IsFiniteSet(OnQueue)
  BY QueueFinite, Cardinalities
<1> QED BY <1>1, Cardinalities, FST!FS_AddElement, FST!FS_RemoveElement

LEMMA SmallSets == Cardinality({}) = 0 /\ \A t : Cardinality({t}) = 1
  BY Cardinalities, FST!FS_EmptySet, FST!FS_Singleton

LEMMA NrRunningStep ==
  ASSUME Disciplined, PreemptInv, InitForks, QueueInv, NrRunningExact, [Next]_vars
  PROVE  NrRunningExact'
<1>1. /\ base \in [Task -> BasePC] /\ cur \in Task /\ nr_running \in Int
      /\ nr_running + Cardinality(Counting) = Cardinality(OnQueue)
      /\ OneCaller /\ Sleepers /\ RunInv
  BY DEF PreemptInv, TypeOK, NrRunningExact, Counting, QueueInv, RunInv
<1>2. Cardinality(OnQueue) \in Int
  BY QueueFinite
<1> SUFFICES nr_running' + Cardinality(Counting') = Cardinality(OnQueue')
  BY DEF NrRunningExact, Counting
<1>3. Counting = {} \/ \E t \in Task : Counting = {t}
  BY <1>1, UniqueCaller DEF Counting, Calling
<1>4. \A t \in Counting : Calling(cur) => t = cur
  BY <1>1, UniqueCaller DEF Counting, Calling
<1>5. CASE enqueue_add
  <2>1. Counting = {}
    BY <1>4, <1>5, AddMoves DEF Calling, Counting
  <2>2. Counting' = IF base'[cur] = "nr_running" THEN {cur} ELSE {}
    BY <1>1, <1>5, <2>1, AddMoves DEF Counting
  <2>3. OnQueue' = OnQueue \cup (IF base'[cur] = "nr_running" THEN {loc[cur].p} ELSE {})
    BY <1>1, <1>5, RunAdd
  <2>4. loc[cur].p \notin OnQueue
    <3>1. Arriving(loc[cur].p)
      BY <1>1, <1>5, AddMoves DEF Arriving, ArrivePC
    <3>2. OnQueue \subseteq Page
      BY DEF OnQueue, Walk
    <3> QED BY <1>1, <3>1, <3>2 DEF RunInv, QueueMembers
  <2>5. CASE base'[cur] = "nr_running"
    <3>1. Cardinality(OnQueue') = Cardinality(OnQueue) + 1
      BY <2>3, <2>4, <2>5, QueueLength
    <3>2. /\ Cardinality(Counting) = 0 /\ Cardinality(Counting') = 1
          /\ nr_running' = nr_running
      BY <1>5, <2>1, <2>2, <2>5, AddMoves, SmallSets
    <3>3. nr_running + 0 = Cardinality(OnQueue)
      BY <1>1, <3>2
    <3>4. nr_running + 1 = Cardinality(OnQueue) + 1
      BY <1>1, <1>2, <3>3, Sums
    <3> QED BY <3>1, <3>2, <3>4
  <2>6. CASE base'[cur] # "nr_running"
    BY <1>1, <1>5, <2>1, <2>2, <2>3, <2>6, AddMoves
  <2> QED BY <2>5, <2>6
<1>6. CASE enqueue_count
  <2>1. /\ base[cur] = "nr_running" /\ Goto(Home(cur)) /\ UNCHANGED run_list
        /\ nr_running' = nr_running + 1 /\ Home(cur) # "nr_running"
    BY <1>6 DEF enqueue_count, Running, Return, Home
  <2>2. Counting = {cur}
    BY <1>1, <1>4, <2>1 DEF Calling, Counting
  <2>3. Counting' = {}
    BY <1>1, <2>1, <2>2 DEF Goto, Counting
  <2>4. OnQueue' = OnQueue
    BY <2>1 DEF OnQueue
  <2>5. Cardinality(Counting) = 1 /\ Cardinality(Counting') = 0
    BY <2>2, <2>3, SmallSets
  <2>6. nr_running + 1 = Cardinality(OnQueue)
    BY <1>1, <2>5
  <2>7. nr_running + 1 + 0 = Cardinality(OnQueue)
    BY <1>1, <1>2, <2>6, Sums
  <2> QED BY <2>1, <2>4, <2>5, <2>7
<1>7. CASE __schedule
  <2>1. Counting' = Counting
    BY <1>1, <1>7 DEF __schedule, InPreempt, Running, Goto, Counting
  <2>2. nr_running' = IF blocks(cur) THEN nr_running - 1 ELSE nr_running
    BY <1>7 DEF __schedule, dequeue_task_simple, queue
  <2>3. /\ OnQueue' = IF blocks(cur) THEN OnQueue \ {cur} ELSE OnQueue
        /\ blocks(cur) => cur \in OnQueue
    BY <1>1, <1>7, RunSchedule
  <2>4. Cardinality(Counting) \in Int
    BY <1>3, SmallSets, SmallInts
  <2>5. CASE blocks(cur)
    <3>1. Cardinality(OnQueue') = Cardinality(OnQueue) - 1
      BY <2>3, <2>5, QueueLength
    <3>2. nr_running - 1 + Cardinality(Counting) = Cardinality(OnQueue) - 1
      BY <1>1, <1>2, <2>4, SumDown
    <3> QED BY <2>1, <2>2, <2>5, <3>1, <3>2
  <2> QED BY <1>1, <2>1, <2>2, <2>3, <2>5
<1>8. CASE ~enqueue_add /\ ~enqueue_count /\ ~__schedule
  <2>1. UNCHANGED <<nr_running, run_list>> /\ Counting' = Counting
    BY <1>8, CountQuiet
  <2> QED BY <1>1, <2>1 DEF OnQueue
<1> QED BY <1>5, <1>6, <1>7, <1>8

(* rq->nr_running: the counter is the length of the queue, but for an      *)
(* enqueue between list_add and the increment.                             *)
THEOREM NrRunningCounts ==
  ASSUME CallersMask \/ Voluntary = {}
  PROVE  Spec => []NrRunningExact
<1>1. Init => NrRunningExact
  <2> SUFFICES ASSUME Init PROVE NrRunningExact
    OBVIOUS
  <2>1. /\ run_list.next[rq_head] = rq_head /\ rq_head \notin Page
        /\ \A t \in Task : base[t] # "nr_running"
    BY PageFacts DEF Init, sched_init, INIT_LIST_HEAD, Unlinked, Node
  <2>2. OnQueue = {}
    <3>1. Closed(run_list.next, rq_head, {}) /\ {} \in SUBSET Page
      BY <2>1 DEF Closed
    <3> QED BY <3>1 DEF OnQueue, Walk
  <2>3. {t \in Task : base[t] = "nr_running"} = {}
    BY <2>1
  <2>4. nr_running = 0
    BY DEF Init
  <2> QED BY <2>2, <2>3, <2>4, SmallSets, Sums DEF NrRunningExact
<1>2. PreemptInv /\ InitForks /\ QueueInv /\ NrRunningExact /\ [Next]_vars
        => NrRunningExact'
  BY NrRunningStep DEF Disciplined
<1> QED BY <1>1, <1>2, QueueInvariant, PTL DEF Spec, Disciplined
==============================================================================
