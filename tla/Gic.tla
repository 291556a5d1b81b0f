--------------------------------- MODULE Gic ---------------------------------
(***************************************************************************)
(* The interrupt path: drivers/irqchips/gic_v2.c, mach-rpi4/timer.c, the   *)
(* end of kernel_main that starts them, and el1_irq around the handler.    *)
(* The distributor, the CPU interface and the generic timer are hardware,  *)
(* modelled as far as the driver's register accesses reach.                *)
(***************************************************************************)
EXTENDS Integers, FiniteSets, FiniteSetsExt

CONSTANTS Sample,      \* the interrupt numbers that are followed
          Typers       \* values of GIC_DIST_CTR that firmware may present

ASSUME GicAssumption == Sample \subseteq 0 .. 1019 /\ Typers \subseteq 0 .. 31

VARIABLES
  typer,                                      \* GIC_DIST_CTR & 0x1f
  gicd_ctrl, enabled, active, pri, target,    \* distributor
  lines, latched,       \* device lines that are up; software interrupts sent
  gicc_ctrl, primask,                         \* CPU interface
  ctl, expired, routed,                       \* generic timer and its routing
  pc, irqOn, irqnr, ret,                      \* the CPU
  owed                  \* expiries of the armed timer not yet handled

dist  == <<gicd_ctrl, enabled, active, pri, target>>
wires == <<typer, lines, latched>>
cpuif == <<gicc_ctrl, primask>>
timer == <<ctl, expired, routed, owed>>
vars  == <<typer, gicd_ctrl, enabled, active, pri, target, lines, latched, gicc_ctrl,
           primask, ctl, expired, routed, pc, irqOn, irqnr, ret, owed>>

GENERIC_TIMER_IRQ      == 30
GICC_INT_SPURIOUS      == 1023
GICC_INT_PRI_THRESHOLD == 240
GICD_INT_DEF_PRI       == 160
Idle                   == 255     \* running priority with nothing active

Sgi     == {i \in Sample : i < 16}
Banked  == {i \in Sample : i < 32}
Present == {i \in Sample : i < (typer + 1) * 32}

(* Whatever firmware left: everything but the CPU's own state is open, and *)
(* _start masked IRQs long ago.                                            *)
Init ==
  /\ typer \in Typers
  /\ gicd_ctrl \in BOOLEAN /\ gicc_ctrl \in BOOLEAN
  /\ enabled \in SUBSET Present /\ active \in {{}, {GENERIC_TIMER_IRQ}} /\ target \in {Banked, Present}
  /\ pri = [i \in Sample |-> 0] /\ primask \in {0, GICC_INT_PRI_THRESHOLD}
  /\ lines = {} /\ latched \in SUBSET Sgi
  /\ ctl \in BOOLEAN /\ expired \in BOOLEAN /\ routed = FALSE
  /\ pc = "gic_dist_init" /\ irqOn = FALSE /\ irqnr = GICC_INT_SPURIOUS
  /\ ret = "run" /\ owed = 0
------------------------------------------------------------------------------
(* The hardware.                                                           *)
LinesUp == lines \cup (IF ctl /\ expired /\ routed THEN {GENERIC_TIMER_IRQ} ELSE {})

RunningPri == Min({Idle} \cup {pri[i] : i \in active})

(* The interrupts the CPU interface would signal.                          *)
Pending ==
  {i \in enabled \cap target \cap (LinesUp \cup latched) :
     /\ gicd_ctrl /\ gicc_ctrl /\ i \notin active
     /\ pri[i] < primask /\ pri[i] < RunningPri}

timer_expires ==
  /\ ctl /\ ~expired /\ expired' = TRUE
  /\ owed' = IF pc \in {"gic_dist_init", "gic_cpu_init", "timer_init", "timer_reset"}
               THEN owed ELSE owed + 1
  /\ UNCHANGED <<dist, wires, cpuif, ctl, routed, pc, irqOn, irqnr, ret>>

(* A device that no driver serves raises or lowers its line.               *)
device(i) ==
  /\ i \in Present \ (Sgi \cup {GENERIC_TIMER_IRQ})
  /\ lines' = IF i \in lines THEN lines \ {i} ELSE lines \cup {i}
  /\ UNCHANGED <<dist, typer, latched, cpuif, timer, pc, irqOn, irqnr, ret>>
------------------------------------------------------------------------------
(* gic_init, timer_init and raw_local_irq_enable of kernel_main.           *)

Clamped(n) == IF n > 1020 THEN 1020 ELSE n

gic_irqs == Clamped((typer + 1) * 32)

(* The interrupts that a write to the 32-bit registers of the loop         *)
(* for (i = from; i < gic_irqs; i += per) reaches, `per` of them each.     *)
Reached(from, per) ==
  {id \in Present : from <= id /\ id - ((id - from) % per) < gic_irqs}

(* Slip: the loop starts at the shared interrupts.                         *)
disable_shared == Reached(32, 32)

disable_all == Reached(0, 32)

gic_dist_init ==
  /\ pc = "gic_dist_init" /\ pc' = "gic_cpu_init"
  /\ target' = target \cup Reached(32, 4)
  /\ active' = active \ disable_all
  /\ enabled' = (enabled \ disable_all) \cup Sgi
  /\ gicd_ctrl' = TRUE
  /\ UNCHANGED <<pri, wires, cpuif, timer, irqOn, irqnr, ret>>

gic_cpu_init ==
  /\ pc = "gic_cpu_init" /\ pc' = "timer_init"
  /\ pri' = [i \in Sample |-> IF i \in Banked THEN GICD_INT_DEF_PRI ELSE pri[i]]
  /\ primask' = GICC_INT_PRI_THRESHOLD /\ gicc_ctrl' = TRUE
  /\ UNCHANGED <<gicd_ctrl, enabled, active, target, wires, timer, irqOn, irqnr, ret>>

generic_timer_init ==
  /\ pc = "timer_init" /\ pc' = "timer_reset"
  /\ ctl' = TRUE
  /\ UNCHANGED <<dist, wires, cpuif, expired, routed, owed, irqOn, irqnr, ret>>

(* Slip: the interval is not written.                                      *)
timer_not_reset == UNCHANGED expired

(* A write of cntp_tval_el0 moves the compare value into the future.       *)
generic_timer_reset == expired' = FALSE

timer_reset ==
  /\ pc = "timer_reset" /\ pc' = "timer_unmask"
  /\ generic_timer_reset
  /\ UNCHANGED <<dist, wires, cpuif, ctl, routed, owed, irqOn, irqnr, ret>>

(* gicv2_unmask_irq: bit irq % 32 of word irq / 32.                        *)
gic_set_irq(irq) ==
  {i \in Present : i \div 32 = irq \div 32 /\ i % 32 = irq % 32}

timer_unmask ==
  /\ pc = "timer_unmask" /\ pc' = "enable_timer_interrupt"
  /\ enabled' = enabled \cup gic_set_irq(GENERIC_TIMER_IRQ)
  /\ UNCHANGED <<gicd_ctrl, active, pri, target, wires, cpuif, timer, irqOn, irqnr, ret>>

enable_timer_interrupt ==
  /\ pc = "enable_timer_interrupt" /\ pc' = "irq_enable"
  /\ routed' = TRUE
  /\ UNCHANGED <<dist, wires, cpuif, ctl, expired, owed, irqOn, irqnr, ret>>

raw_local_irq_enable ==
  /\ pc = "irq_enable" /\ pc' = "run"
  /\ irqOn' = TRUE
  /\ UNCHANGED <<dist, wires, cpuif, timer, irqnr, ret>>
------------------------------------------------------------------------------
(* The exception, and gic_handle_irq.                                      *)

take_irq ==
  /\ irqOn /\ Pending # {}
  /\ irqOn' = FALSE /\ ret' = pc /\ pc' = "gic_handle_irq"
  /\ UNCHANGED <<dist, wires, cpuif, timer, irqnr>>

(* The read of GIC_CPU_INTACK: the pending interrupt of the highest        *)
(* priority becomes active; without one the read gives 1023.               *)
intack ==
  /\ pc = "gic_handle_irq"
  /\ irqnr' \in IF Pending = {} THEN {GICC_INT_SPURIOUS}
                ELSE {i \in Pending : \A j \in Pending : pri[i] <= pri[j]}
  /\ active' = active \cup ({irqnr'} \cap Sample) /\ latched' = latched \ {irqnr'}
  /\ pc' = IF irqnr' = GENERIC_TIMER_IRQ THEN "handle_timer_irq" ELSE "eoi"
  /\ UNCHANGED <<typer, gicd_ctrl, enabled, pri, target, lines, cpuif, timer, irqOn, ret>>

handle_timer_irq ==
  /\ pc = "handle_timer_irq" /\ pc' = "eoi"
  /\ generic_timer_reset
  /\ owed' = owed - 1
  /\ UNCHANGED <<dist, wires, cpuif, ctl, routed, irqOn, irqnr, ret>>

(* Slip: the driver's own interrupt is not ended.                          *)
eoi_others_only == IF irqnr = GENERIC_TIMER_IRQ THEN active ELSE active \ {irqnr}

(* irqnr is what GICC_IAR gave, masked; its source field is 0 with one CPU.*)
gicv2_eoi_irq == active \ {irqnr}

eoi ==
  /\ pc = "eoi" /\ pc' = "exit"
  /\ active' = gicv2_eoi_irq
  /\ irqnr' = GICC_INT_SPURIOUS
  /\ UNCHANGED <<gicd_ctrl, enabled, pri, target, wires, cpuif, timer, irqOn, ret>>

(* The end of el1_irq: eret, or preempt_schedule_irq with IRQs enabled,    *)
(* where the preempt count keeps a nested interrupt from preempting.       *)
exit ==
  /\ pc = "exit" /\ irqOn' = TRUE
  /\ pc' \in IF ret = "preempt" THEN {"preempt"} ELSE {"run", "preempt"}
  /\ ret' = "run"
  /\ UNCHANGED <<dist, wires, cpuif, timer, irqnr>>

(* preempt_schedule_irq is over, in this thread or in the one it picked.   *)
preempt_schedule_irq ==
  /\ pc = "preempt" /\ pc' = "run"
  /\ UNCHANGED <<dist, wires, cpuif, timer, irqOn, irqnr, ret>>

boot == \/ gic_dist_init \/ gic_cpu_init \/ generic_timer_init \/ timer_reset
        \/ timer_unmask \/ enable_timer_interrupt \/ raw_local_irq_enable

handler == take_irq \/ intack \/ handle_timer_irq \/ eoi \/ exit

Next == boot \/ handler \/ preempt_schedule_irq \/ timer_expires
        \/ \E i \in Sample : device(i)

(* The CPU executes, an IRQ that is signalled and not masked is taken, and *)
(* the counter of the timer runs.                                          *)
Spec == /\ Init /\ [][Next]_vars
        /\ WF_vars(boot \/ handler) /\ WF_vars(timer_expires)
------------------------------------------------------------------------------
Booted == pc \notin {"gic_dist_init", "gic_cpu_init", "timer_init", "timer_reset"}

(* Every expiry of the armed timer is handled once: it is neither lost     *)
(* when it comes while its own interrupt is still active, nor handled      *)
(* again because the line was still up at the EOI of gic_handle_irq.       *)
TickExact == Booted => owed = IF expired THEN 1 ELSE 0

(* gic_handle_irq only ever sees a software interrupt or the timer, never  *)
(* a device firmware had enabled (which nobody would silence) and never    *)
(* 1023: gic_dist_init disables all, for every number of interrupt lines,  *)
(* and nothing withdraws an interrupt between the exception and the        *)
(* acknowledge.                                                            *)
AckExpected == pc \in {"handle_timer_irq", "eoi"} => irqnr \in Sgi \cup {GENERIC_TIMER_IRQ}

(* The timer interrupt is handled again and again.                         *)
TicksForever == []<>(pc = "handle_timer_irq")
==============================================================================
