# A TLA+ model of YiOS

YiOS is a small ARMv8 kernel for the Raspberry Pi 4. This directory holds TLA+
modules that model it from the first instruction to preemptive threads, the TLC
configurations that check them on small instances, and TLAPS proofs of the
properties that matter most, for every value of the constants.

## The system

One CPU runs the kernel (`start.S` parks the others). `kernel_main`
(`init/main.c`) runs on `init_task`, brings up the serial port, the page
allocator, the run queue, the interrupt controller and the timer, enables IRQs,
builds the page tables and loops. The parts meet in the timer interrupt:

    start.S, early_uart.S ---> kernel_main ---> paging_init ---> dump_pgtable
                                   |                |
    timer ---> GIC ---> el1_irq (entry.S)           +---> get_free_page
                          |  gic_handle_irq ---> handle_timer_irq ---> printk ---> UART
                          |                      tick_handle_periodic (not connected)
                          +---> preempt_schedule_irq ---> __schedule
                                                            |  pick_next_task_simple
    do_fork ---> SET_LINKS, wake_up_process ---> run queue -+  reset_score
       |                                                    v
       +---> get_free_page                           cpu_switch_to / ret_from_fork

### Inventory

| Part | Source | Modules |
|---|---|---|
| scheduler core | `kernel/sched.c`, `kernel/sched_simple.c` | `Sched`, `SchedProps`, `TimeShare`, `SchedShare`; `SchedProofs`, `SchedQueueProofs` |
| process creation | `kernel/fork.c`, `init/init_task.c` | `Sched`, `Entry` |
| preemption and switch | `arch/arm64/core/entry.S` | `Entry`, `EntryProofs`, `Sched` |
| linked list | `include/yios/list.h` | `ListOps`, `ListHead`, `ListSeq`; run from `Library` |
| page allocator | `mm/page_alloc.c` | `PageAlloc`, `PageClients`, `PagePool`, `PageProofs` |
| page tables and MMU | `arch/arm64/core/mmu.c`, `pgtable*.h` | `PgTable`, `Mmu`, `MmuProofs` |
| page table dump | `kernel/dump_pgtable.c` | `DumpPgtable` |
| interrupt controller, timer | `gic_v2.c`, `mach-rpi4/timer.c` | `Gic`, `GicProofs` |
| printk | `kernel/printk.c` | `Printk` (formatter; run from `Library`), `Console` (buffer and output); `ConsoleProofs` |
| exception reports | `arch/arm64/core/traps.c`, `esr.h` | `Traps` (run from `Library`), `Entry` |
| boot | `start.S`, `init/main.c` | `Boot`, `BootProofs` |
| serial port | `pl_uart.c`, `early_uart.S` | `Console`, `Boot` (the initialisers are not modelled) |
| memory functions | `memset.S`, `lib/string.c` | `Memory` (run from `Library`) |

## Modules

Operators introduced by "Slip:" are wrong variants of the definition that
follows them; substituting one must break a property.

### Scheduler

**`Sched`**: the machine. A step is a stretch of code that no interrupt can
split, or one store of a stretch that it can split.

| Model | Code |
|---|---|
| `cur` | `sp_el0`, the macro `current` |
| `irqOn` | PSTATE.I is clear |
| `base[t]` | where the code of task `t` itself stands (`do_fork`, `wake_up_process`, `schedule()`, or its own body) |
| `traps[t]` | frames of `preempt_schedule_irq` on its stack, before ("enter") or after ("leave") `__schedule` |
| `loc[t]` | locals of `do_fork` and `wake_up_process` |
| `pick` | control and locals of the `__schedule` in progress, IRQs masked |
| `ctx[t]` | what `cpu_context` resumes: nothing, `ret_from_fork`, or a switched-out `__schedule` |
| `run_list`, `nr_running`, `rq_curr` | `struct run_queue` |
| `links` | `next_task`, `prev_task` |
| `mode` | "ok"; "wild" after the use of an uninitialised `next`; "fault" after following a pointer that is none |

Pages, and thus tasks, are numbers; `init_task`, `rq_head`, the poison value and
the uninitialised pointer are negative numbers. `el1_irq` is the whole handler:
tick, the two tests, entry into `preempt_schedule_irq`. `__schedule` runs from
the masking of IRQs to the first node of the pick; each node of the pick and of
`reset_score` is a step; `cpu_switch_to`, `keep_running` and `switch_wild` are
its three endings. `do_fork` is `fork_page`, `fork_slot` (with `copy_thread` and
the fields of the child that nothing can observe yet),
`fork_count`, `fork_load` and `fork_store` (a load and a store), `fork_table`,
the four stores of `SET_LINKS`, then `wake_up_process`, the four stores of
`list_add` and the counter.

Parameters select the kernel that is looked at:

* `TickWired`: does the timer interrupt call `tick_handle_periodic`? In the
  source it does not (a finding), and with it off there is no preemption to
  check; most runs switch it on.
* `Voluntary`: threads that set their state, call `schedule()` and wake others.
  The two threads in `main.c` never do (`{}`); the scheduler's interface allows it.
* `CallersMask`: do callers of `do_fork` and `wake_up_process` mask IRQs?
  `kernel_main` enables them first and does not (`FALSE`).
* `Forks`: the number of `do_fork` calls. The two calls in `main.c` are under
  `#if 0`; the model makes them, and enough more to fill the task table.

**`SchedProps`** states the properties. The nodes reachable from a list head
(`Walk`) are the least set closed under the forward pointers, so that what a
list holds can be reasoned about without recursion. **`TimeShare`** is what the scheduler
promises: a set of ready threads with slices, sharing the CPU in rounds.
**`SchedShare`** maps `Sched` to it: ready threads are those on the run queue,
the running thread is `cur`, the turn is over while `pick` is in progress. The
one subtle part is `reset_score`, which goes from task to task: a task it has
not come to yet counts as refilled from the moment the loop starts.

**`Entry`** looks at the same code one level lower: what the registers, the
stacks, ELR_EL1, SPSR_EL1 and `cpu_context` hold. A register value is a token
(which thread computed it, where, in which of its two phases), so a value that
is lost or mixed up is seen when the thread runs on. Its exceptions are IRQs,
at every boundary where they make a difference, and the ones that end in `panic`.

### Lists and pages

**`ListOps`**: the list of `list.h` on a heap `[next, prev]`. `list_add_store`
is the k-th store of `__list_add`; the build is not optimised, so this is the
order in memory. `list_del` poisons the node it removes. **`ListHead`** is one
list under every sequence of calls; **`ListSeq`** the sequence it implements.

**`PageAlloc`**: `get_free_page(r)` is "the call returns r", in one step, for
`Sched` and `Mmu`. Addresses are counted in pages. **`PageClients`** takes
`get_free_page` apart, entry by entry, between contexts that run meanwhile, free
their pages and pass pages on. **`PagePool`** is the promise, implemented under
`pool <- FreePages, owned <- Owned, reply <- ret`: each page is owned once, and a
request is refused only if nothing was left when it was made. That takes a
history variable, `wasEmpty`, because a page may be freed behind the scan.

**`PgTable`** has the macros of the `pgtable*.h` headers for any page size and
any number of entries per table (`PAGE_SIZE`, `PTRS`), descriptors as a physical
address and a set of attribute bits, and the walk of the hardware, one operator
per level. **`Mmu`** is
`paging_init`, store by store: the three nested `alloc_init_*` have one shape,
so a frame of the stack `stk` is one of them, told apart by its level. Tables
come from `PageAlloc`; a page that was never cleared holds stale descriptors.
**`DumpPgtable`** runs the dump on the tables that `Mmu` built; the call in
`main.c` is commented out, its place after `paging_init` is taken from there.

### Devices, boot, library

* **`Gic`**: distributor, CPU interface and timer as far as the driver uses
  them; any firmware state, then `gic_init`, `timer_init`, `el1_irq`, nested
  under `preempt_schedule_irq`. `owed` counts expiries not yet handled.
* **`Console`**: `printk` with its static buffer, `putchar`, `uart_send`, the
  transmit FIFO; an interrupt or a preemption between any two steps. A byte is
  the line it belongs to and its place in it.
* **`Printk`**: `myprintf` directive by directive and `number`, with integers
  scaled to `SHORT`, `INT` and `LONG` bits. A digit is its value.
* **`Traps`**: `parse_esr`; a syndrome is the set of its bits that are 1, and the
  reference is the layout the architecture gives it.
* **`Boot`**: `start.S` and `early_uart.S` with the link registers x30, x10 and
  x6, on every CPU, and the order of the calls in `kernel_main`.
* **`Memory`**: `memset` by branches, `memcpy`, `strlen`.
* **`Library`** puts `ListHead`, `Memory`, `Printk` and `Traps` under one
  specification so that one run checks them. They do not interact: the variable
  `unit`, fixed in the initial state, says which of the four a behaviour uses,
  and each property is the one of that module, for behaviours that use it.

## Runs

| Run | Module | Instance | Checks |
|---|---|---|---|
| `sched_boot` | `SchedShare` | 4 pages, 4 table entries, 5 forks, spinning threads, IRQs on everywhere, fairness | `NoFault`, `NrRunningExact`, `ForkSharesSlice`, `LeakOnlyWhenFull`, `InitNeverResumes`, `ScheduleEnds`, `NoStarvation`, `ImplementsTimeShare` |
| `sched_clients` | `SchedShare` | 4 pages, 4 forks, threads 2 and 3 sleep, wake and call `schedule()`, callers mask | `NoFault`, `UninitOnlyWhenEmpty`, `QueueHoldsRunnable`, `PreemptBalance`, `NotAtomic`, `MaskConfined`, `ImplementsTimeShare` |
| `page_alloc` | `PageClients` | 4 pages, 3 contexts | `MapMatchesOwners`, `ImplementsPool` |
| `mmu` | `DumpPgtable` | 8 entries per table, 23 positions of `_etext`, CPUs with and without 4K pages | `NeverMismapped`, `MapsExactly`, `TablesFormTree`, `DumpComplete`, `DumpTellsRights`, `DumpTerminates` |
| `entry` | `Entry` | 3 threads | `OwnRegisters`, `StartsOwnFunction`, `StackBounded`, `ExitMasked` |
| `gic` | `Gic` | interrupts 1, 27, 30, 63, 1019; 32, 256 or 1020 lines | `TickExact`, `AckExpected`, `TicksForever` |
| `console` | `Console` | boot code, 2 threads, 2 interrupts, FIFO of 2 | `WholeUnlessHit`, `MaskedPrintkFinishes` |
| `library` | `Library` | lists of 5 entries; 22 bytes of memory; 3, 5 and 6 bit integers with boundary values and all flags; every exception class and fault code | `ImplementsSequence`, `ResultExact`, `ValueReadsBack`, `FieldFilled`, `ReportExact` |
| `boot` | `Boot` | 3 CPUs, entry at EL1, EL2 or EL3 | `KernelEntry`, `BssKept`, `Boots` |
| `sched_no_tick`, `sched_self_pick` | `SchedProps` | 2 pages, 2 forks | violate `SliceExpires`: findings |
| `page_range` | `PageClients` | 4 pages, 2 contexts | violates `PagesInsideMemory`: a finding |

What the properties say, where the name
does not tell:

* `NoFault`: no loop of the scheduler follows an unwritten or poisoned pointer;
* `UninitOnlyWhenEmpty`: the uninitialised `next` is returned only from an empty queue;
* `QueueHoldsRunnable`: a thread is queued exactly when it may run;
* `NrRunningExact`: `nr_running` is the queue's length, less an interrupted enqueue;
* `PreemptBalance`, `NotAtomic`: `preempt_count` counts the scheduler calls on the stack; "scheduling while atomic" is never printed;
* `MaskConfined`: no switch leaves a task that does not use `schedule()` with IRQs masked;
* `ForkSharesSlice`: parent and child never gain slice together. A tick between the
  load and the store of `current->count >>= 1` is undone, which the bound allows;
* `LeakOnlyWhenFull`: until the table is full every page is free, a thread's, or held
  by a `do_fork` in progress. A `do_fork` that is preempted for good (`init_task` is
  never picked again) keeps its page, and this is not counted as a loss;
* `InitNeverResumes`: `init_task`, never queued, does not run again once switched out;
* `ImplementsTimeShare`: the thread switched to is ready, has slice left, and none
  has more; the CPU is taken only from a thread whose slice is used up or that
  gave it up; slices are refilled only when no ready thread has any left;
* `MapMatchesOwners`: no page has two owners although `get_free_page` tests and
  sets in two steps with IRQs on, and `mem_map` mirrors ownership. It rests on
  only `init_task` allocating; with a second allocating context it fails at once
  (this is the mutant of the property);
* `NeverMismapped`: after every store an address faults or translates as it is
  meant to; `MapsExactly`: in the end it translates exactly as meant;
  `TablesFormTree`: no table is linked twice, and each is a page that is taken;
* `DumpComplete`: the dump prints every mapped page of its range once, in order;
* `FieldFilled`: a field has the width asked for, or what its contents need; one more
  at most with a minus sign;
* `TickExact`: no expiry of the timer is lost, none is handled twice;
* `WholeUnlessHit`: a line goes out whole unless another context ran during its
  `printk`; that it may be mixed otherwise follows from the static buffer.

**Bounds.** Slices of `DEF_COUNTER = 2` run out and are reloaded within a fork.
Four pages against a table of 4 entries (3 of them free) let the table fill
first, with a page leaked; then the pages run out; against 5 entries the table
never fills. Three threads give a queue with a head, a middle and an end. The
tick may come at any step, so no bound limits interleaving, except `MaxIrqs` in
`Console`, where two interrupts suffice for one to hit a line that another has
already overwritten. `MaxFrames = 3` in `Entry` is one more frame than
`StackBounded` allows. `count` is never above `DEF_COUNTER + 2`, so the width of
`int` plays no part. In `mmu` text lies below
`LOW_MEMORY` and memory within the first PUD entry, as on the board; the device
window is placed across a PUD and a PGD boundary, so that tables of every level
are made twice; every alignment of `_etext` to pages and sections occurs. Pages
suffice for the tables, as on the board (`MmuAssumption`, see Proofs). A FIFO of 2 is filled by one
line of the handler. 22 bytes hold every tail of `memset` behind one step of 8
with bytes on either side, and nearly all behind two. The widths of `Printk` keep
short < int < long, with two digits in every base. Deadlock is
checked except in `mmu`, which ends; elsewhere `stopped`, `panic`, `idle` and the like mark where the
system really stays.

Each property of the scheduler is checked on the instance that strains it most:
those about `do_fork` where callers do not mask, those about sleeping, waking and
`schedule()` where threads do so, and `NoFault`, which is about both, on both. Most hold on both, by the theorems below.

**Fairness.** `Sched`: weak fairness of `Kernel` (the CPU executes the next
instruction) and of `el1_irq` (`handle_timer_irq` re-arms the timer each time, so
an interrupt comes while IRQs stay enabled); nothing is assumed of threads
(`Client`). `Gic`: the CPU executes and takes an interrupt that is signalled and
not masked, the counter runs; devices are free to stay silent. `Console`: the CPU
executes and the UART sends what is in its FIFO. `Boot`: every CPU executes.
`DumpPgtable`: `paging_init` and the dump go on. The list, memory,
formatter and report modules have no liveness property.

## Findings

* `sched_no_tick`: `tick_handle_periodic` has no caller. With the timer as it is
  wired, a task keeps the CPU for ever; `sched.h:67` gives the slice as "100ms time".
* `sched_self_pick`: `__schedule` unmasks IRQs in `schedule_tail`, called only
  when `switch_to` returned a task. When the pick is `prev`, `schedule()`
  returns with IRQs masked and no tick ends the slice. (In
  `preempt_schedule_irq` the `eret` restores the mask, so no harm is done.)
* `page_range`: `mem_map` has `TOTAL_MEMORY / PAGE_SIZE` entries and starts at
  `LOW_MEMORY`; its last entries are past the end of memory.

Behaviours met while modelling that no run reports. With
`CallersMask = FALSE`, `sched_clients` violates `QueueHoldsRunnable`: `init_task`
reads `head->next` in `list_add`, is preempted, the thread at the head sleeps and
is removed and poisoned, and a wake-up completes over it; nothing in the
repository sleeps yet. An empty run queue makes `pick_next_task_simple` return
its uninitialised `next` (a tick before the first fork is enough);
`UninitOnlyWhenEmpty` shows it is the only way. Entered at EL3, `el3_entry`
executes `eret` with registers nobody set, and entered at EL1 `el2_entry` faults;
`Boots` is about EL2, where the Raspberry Pi firmware enters.
`walk_pud` of the dump compares with a boundary that never moves and ends only
because memory lies in one PUD entry. The access of the self test above the
memory would fault at level 2, since its level 1 entry already leads to the table of
the memory below; the comment at `main.c:97` shows level 1. Without 4K pages
`enable_mmu` fails, and `paging_init` prints "enable mmu done" all the same. Out
of pages, `early_pgtable_alloc` would link page 0 as a table (`NR_PAGES = 6` in
`mmu` shows it once the last clause of `MmuAssumption`, which excludes it, is
dropped). An interrupt between the flag test and the write of `uart_send` can
fill the FIFO, and a byte of the interrupted line is lost. `printk` makes the
field of a padded negative number one character too wide, and `%*d` prints the
directive instead of the number. `uart_init` sets the pull-down bits of its pins
over what the firmware left, so a pin that was pulled up ends with a reserved
value.

## Proofs

All theorems hold for every value of the constants that the named assumption of
the module admits (`SchedAssumption`, `PageAllocAssumption`, `ContextAssumption`,
`EntryAssumption`, `GicAssumption`, `BootAssumption`, `PgTableAssumption`,
`MmuAssumption`, `ConsoleAssumption`), unless stated. Those of
the scheduler are thus about any number of pages, table entries, forks and
threads, any slice and any interleaving with the timer. `BootAssumption` has one
clause that is about the board: CPU 0 is the only one whose lowest affinity byte
is 0. `_start` tests that byte alone, so on a machine with several clusters two
CPUs would boot; the Raspberry Pi 4 has one cluster.

`MmuAssumption` is the memory layout `mmu.c` relies on and does not test. The
image starts at 0x80000 (`vmyios.lds.S`), and its text and the page of
`idmap_pg_dir` behind it end below `LOW_MEMORY` (4 MB), where the pages that are
handed out begin; it ends below `TOTAL_MEMORY` (512 MB), which is below the
devices (`PBASE` = 0xFE000000, page-aligned, 32 MB up to 4 GB), which are within
what the top-level table covers (2^48). The last clause says that there are at
least as many pages as tables that can be needed (`TablesNeeded`): about 300
against the 131072 of the board. The values of the `mmu` run satisfy all of it.

| Theorem | Statement | Argument |
|---|---|---|
| `TypeCorrect` | `Spec => []TypeOK` | inductive as it stands, one step per action group |
| `InitStaysOut` | `Spec => InitNeverResumes` | `InitUnqueued`: no queue pointer, saved `head->next`, `tmp` or `next` is `init_task` |
| `PreemptCountExact` | `Spec => []PreemptBalance` | `PreemptInv`, below |
| `NeverWhileAtomic` | `Spec => []NotAtomic` | the same |
| `NoPageLost` | `Spec => []LeakOnlyWhenFull` | `LeakInv`: a free pid has an empty table entry; until the table is full, each page is free in `mem_map`, in the table, or held by a fork in progress |
| `SliceShared` | `Spec => []ForkSharesSlice` | `SliceInv`, below |
| `UninitFromEmpty` | `Spec => []UninitOnlyWhenEmpty` | `UninitInv`: while `next` is unwritten the loop stands at the first node with c = -1000; counts are naturals (`TypeOK`) |
| `MaskStaysConfined` | `Spec => []MaskConfined` | `MaskInv`: a pick runs masked and on a stack that will unmask, or in a thread that called `schedule()` |
| `ForkNeverFaults` | `Spec => []NoFault` (1) | `QueueInv`, below |
| `RunnableQueued` | `Spec => []QueueHoldsRunnable` (1) | the same |
| `NrRunningCounts` | `Spec => []NrRunningExact` (1) | `QueueInv`, and what a list_add or list_del does to the cardinality of the queue |
| `SharesTheCPU` | `Spec => ImplementsTimeShare` (1) | `QueueInv` and `ShareInv`, below |
| `OwnersExact` | `Spec => []MapMatchesOwners` | `PageInv`: only `init_task` scans, and the entry it is about to set is still 0 |
| `AllocatorIsPool` | `Spec => ImplementsPool` | `PageInv`: as long as a scan goes on, the map was full at the call or has a free entry at or after i; then every step maps to one of `PagePool` or to none |
| `RegistersKept` | `Spec => []OwnRegisters` | `EntryInv`, below |
| `OwnFunction` | `Spec => []StartsOwnFunction` | the same |
| `TwoFrames` | `Spec => []StackBounded` | the same |
| `MaskedExit` | `Spec => []ExitMasked` | the same |
| `EveryTickOnce` | `Spec => []TickExact` | `GicInv`, below |
| `OnlyExpectedAcked` | `Spec => []AckExpected` | the same |
| `MmuInvariant` | `Spec => []MmuInv` | below |
| `MmuNeverMismapped` | `Spec => []NeverMismapped` | `MmuInv` |
| `MmuMapsExactly` | `Spec => []MapsExactly` | the same |
| `MmuTablesFormTree` | `Spec => []TablesFormTree` | the same |
| `LinesGoOutWhole` | `Spec => []WholeUnlessHit` | `ConsoleInv`, below |
| `KernelMainEntry` | `Spec => []KernelEntry` | `BootInv`, below |
| `BssNotClearedAgain` | `Spec => []BssKept` | the same |

(1) Assuming `CallersMask \/ Voluntary = {}`. The second alternative is the
kernel as it is: its threads never sleep, wake or call `schedule()`, and the
stores of `do_fork` and `wake_up_process` are open to preemption. The first is
any use of the scheduler's interface with IRQs masked around the calls that
change lists. Without either, `QueueHoldsRunnable` is false (see Findings).

`PreemptBalance` is not inductive: `copy_thread` zeroes the `preempt_count` of
the page it is given, which would break the balance if that page were a task
with a scheduler call on its stack. `PreemptInv` therefore adds that a page not
yet written by `copy_thread` (`Fresh`) is idle, is not reachable from the queue,
the task list or any local, that every free entry of `mem_map` is fresh, that
only `init_task` forks, that the page of a fork in progress is fresh until
`copy_thread` and taken in `mem_map`, and that a stack has at most one scheduler
call.

`ForkSharesSlice` is about the running parent, which is `init_task`. A reset of
the slices between the store into the child and the one into the parent would
refill a slice that is being shared. `SliceInv` excludes it: `init_task` runs only
until the first switch, and the pick of that switch finds slice left, because
the thread at the end of the queue, the first one forked, was given at least 1
and has not run; so no reset happens while `init_task` is current. What remains
between the load and the store are ticks, which only lessen what the parent has.

`QueueInv` is about the stores of `list_add`, one at a time. The nodes
`Walk` reaches from `rq_head` are linked to each other in both directions, apart
from the first one, whose back pointer a `list_add` in progress has already
changed; `AddInv` says which of its stores are done. A node that is arriving is
not reachable until the last store, and its own pointers are written by then: the
order of the stores in `__list_add` decides. Reachable are exactly the threads that are
linked and may run, and the one that is running. The task list
(`ListInv`) has the same shape but only grows. At most one task is inside a call
that changes a list (`OneCaller`), which is where hypothesis (1) enters:
`init_task`, once preempted, never comes back, and everyone else masks. The
loops of the pick (`PickInv`) then stand on a node of the list, or at its head.

`ShareInv` adds what the refinement needs: `need_resched` is set only in the
running task, with its slice used up (`init_task`, which `TimeShare` lets go at
any time, apart); a pick is never interrupted; what `do_fork` halves is no more
than a slice; and `pick.next` has the largest count among the nodes the loop has
passed, those that the walk from `tmp` no longer comes to. With it each step of a
loop is a stutter of `TimeShare`, the end of a scan that found only used-up
slices is its `Refill`, and the switch its `Dispatch`.

`OwnRegisters` speaks of a thread that runs; the invariant must say where its
registers are while it does not. `EntryInv` says of every other thread that it
starts at `ret_from_fork` with function and argument in x19 and x20, or was
switched out inside `preempt_schedule_irq` with one frame on its stack that
holds what it needs at the address it returns to; and of the running one, label
by label, how deep its stack is, what its `preempt_count` is, and which of the
registers, the frame and ELR_EL1 hold its values. The second frame can only
have been pushed in the window in which `preempt_schedule_irq` has IRQs on,
where `preempt_count` is 1; this bounds the stack. After an unexpected exception
the invariant only keeps that IRQs stay masked.

`GicInv`: after `gic_init` only software interrupts and the timer are enabled;
the handler runs masked, so what made the interrupt pending is still up
when the acknowledge reads it, and an acknowledged timer has expired; nothing is
owed before the timer is armed. `BootInv`: the CPUs other than 0
stay in the parking loop and touch no shared state; each link register holds the
return point of the call in progress, label by label; and what each label
requires of the registers it has passed.

`MmuInv` describes half-built tables. It says that there are a level `lv` and a
number `no` for every page that is a table (level 4: not a table), such that
table `no` of level `lv` is the one for the `no`-th entry of all tables of the
level above. From that follows where each entry belongs, and the conjuncts are
about single entries:

* `Shape`: `idmap_pg_dir` is the only table of level 0;
* `Filled`: an entry is none, the link to the table of its level and number, or
  a block or page that maps the addresses of its own number to themselves, with
  the attributes of a region that contains all of them;
* `Linkage`, `Distinct`: every table has its link in the table above, and no two
  tables have the same level and number, so that each has one parent;
* `Ragged`: there is no table of pages where a region contains a whole section;
  it is why a section never overwrites a link;
* `Needed`, `Taken`: tables are among `TablesNeeded`, and `mem_map` is set for
  the tables and for the page just allocated, and for nothing else;
* `Frames`: each frame of the recursion stands in the table its address needs,
  and ends where the entry of the frame above ends;
* `FreshOk`: a page that is allocated and not linked yet is cleared, and the entry
  it is for is still none;
* `Progress`: what lies below the address reached by the innermost loop is mapped.

`NeverMismapped` needs `Filled` down the four levels of the walk (`WalkSound`),
`MapsExactly` also `Progress` at the end (`MappedWalks`), and `TablesFormTree`
`Linkage` and `Distinct`. The arithmetic is a handful of lemmas about `\div` and
`%` with one divisor that is a multiple of the other. That `get_free_page` does
not return 0 is the pigeonhole principle (`EnoughPages`): were all pages taken,
they would be tables with different levels and numbers among those needed, and
the one to come, needed as well, would not be one of them.

`WholeUnlessHit` speaks of the end of a line; `ConsoleInv` follows it from the
first byte, for any threads, line lengths and FIFO depth and any number of
interrupts. As long as nobody has run since the executing context entered
`printk`, the buffer holds what that context has formatted, and what went to the
UART, the FIFO after the wire, ends in the first bytes of its line. How many
(`Done`) follows from the label and the index of the loop; the carriage return
comes before the last one. Between the flag test and the write the FIFO has room,
because meanwhile only the UART touches it, and that takes bytes out. Every other
context is marked as hit or is not inside `printk`; so when the CPU
goes to another one, by an interrupt or a return, nothing has to be known of its
line. What a transmission does is an equation of sequences: moving the head of
the FIFO to the end of the wire does not change the two put together.

The strengthened invariants were checked with TLC on the instances above before
they were proved (`MmuInv` with `lv` and `no` computed from the tables, for six
positions of `_etext`).

In the proof modules with `USE ZenonT(30)` at their head, a leaf that names no
prover is one for Zenon, and leaves with arithmetic, records or strings name
SMT: encoding the scheduler's context for SMT takes far longer than most of
these leaves need. In `MmuProofs` a leaf names its prover, and the hypotheses of
some lemmas are packed into predicates (`NewLink`, `NewLeaf`, `Store`, `Grown`)
so that Zenon can match them whole.

Only model-checked:

* `ImplementsSequence`: the abstraction of a linked list to a sequence is a
  recursive function, and what it computes for every list needs induction over
  data, out of the prover's reach;
* `DumpComplete` and `DumpTellsRights`: they would take an invariant of the four
  walkers on top of `MmuInv`, like `Frames` and `Progress` for the builder;
* `Printk`, `Memory` and `Traps` (`ResultExact`, `ValueReadsBack`, `FieldFilled`,
  `ReportExact`): what a loop or a RECURSIVE operator computes for every input;
* the liveness properties `ScheduleEnds`, `NoStarvation`, `DumpTerminates`,
  `TicksForever`, `MaskedPrintkFinishes` and `Boots` (fairness and ENABLED are
  out of the prover's reach).

## Not modelled

* The vectors for EL0: there is no user code; a thread function that returns
  ends in `ret_to_user`, a panic, which `Entry` has.
* `uart_init` and `__init_uart`: straight lines of register stores without a
  decision, whose effect is in the UART hardware.
* `uart_recv`, `uart_send_string`, `gicv2_mask_irq`, the log buffer with
  `init_printk_done`: no caller, or compiled out. `arch/arm64/core/timer.c` is
  not built.
* `nr_switches` (never read; nothing reads `rq->curr` either, which is modelled and
  has no property), `mem_init` and `print_segment` (they only print),
  the wording of messages, the unit in which the dump prints a size.
* The length limit of `printk`: `myprintf` ignores the size it is given, and no
  format of the kernel comes near the 1024 bytes of the buffer.
* Caches, barriers and TLB maintenance: one CPU, and the MMU is switched on
  after the last store to the tables.
* Headers with declarations, `asm-offsets.c`, the build: no run-time behaviour.

## Plan

1. `DumpComplete` and `DumpTellsRights` as theorems.
2. A second allocating context, or threads that sleep, once the kernel has them:
   `MapMatchesOwners` and `QueueHoldsRunnable` say what has to be masked then.
