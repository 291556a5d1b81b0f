------------------------------ MODULE GicProofs ------------------------------
(***************************************************************************)
(* The interrupt path of module Gic, for every set of interrupt numbers    *)
(* and every number of interrupt lines the distributor may report.         *)
(***************************************************************************)
EXTENDS Gic, TLAPS

(* A leaf that names no prover is one for Zenon.                           *)
USE ZenonT(30)

Setup == {"gic_dist_init", "gic_cpu_init", "timer_init", "timer_reset"}

Arming == {"timer_unmask", "enable_timer_interrupt", "irq_enable"}

Thread == {"run", "preempt"}

InHandler == {"gic_handle_irq", "handle_timer_irq", "eoi", "exit"}

(* The interrupts the kernel expects.                                      *)
Expected == Sgi \cup {GENERIC_TIMER_IRQ}

TypeOK ==
  /\ typer \in 0 .. 31 /\ owed \in Int
  /\ ctl \in BOOLEAN /\ expired \in BOOLEAN /\ routed \in BOOLEAN /\ irqOn \in BOOLEAN
  /\ enabled \subseteq Present /\ latched \subseteq Sgi
  /\ lines \subseteq Present \ Expected
  /\ pc \in Setup \cup Arming \cup Thread \cup InHandler /\ ret \in Thread

(* Inside the handler IRQs stay masked, so it is not entered again.        *)
MaskedInHandler == irqOn <=> pc \in Thread

(* After gic_dist_init only software interrupts and the timer can be       *)
(* enabled, whatever firmware had enabled.                                 *)
OnlyExpected == pc # "gic_dist_init" => enabled \subseteq Expected

(* What raised the exception is still pending when it is acknowledged.     *)
StillPending == pc = "gic_handle_irq" => Pending # {}

(* The timer interrupt is acknowledged only while the timer has expired.   *)
TimerUp == pc = "handle_timer_irq" => expired

GicInv == /\ TypeOK /\ MaskedInHandler /\ OnlyExpected /\ StillPending /\ TimerUp
          /\ AckExpected /\ TickExact
          /\ pc \in Setup => owed = 0
------------------------------------------------------------------------------
(* The loop that writes 32 enable bits at a time from interrupt 0 reaches  *)
(* every interrupt, although gic_irqs is clamped to 1020 in gic_dist_init. *)
LEMMA DisablesAll ==
  ASSUME typer \in 0 .. 31
  PROVE  disable_all = Present
<1>1. ASSUME NEW id \in Present
      PROVE  0 <= id /\ id - ((id - 0) % 32) < gic_irqs
  <2>1. id \in 0 .. 1019 /\ id < (typer + 1) * 32
    BY GicAssumption, SMTT(30) DEF Present
  <2> QED BY <2>1, SMTT(30) DEF gic_irqs, Clamped
<1> QED BY <1>1 DEF disable_all, Reached

(* gicv2_unmask_irq sets the enable bit of its argument and no other.      *)
LEMMA UnmasksOne == gic_set_irq(GENERIC_TIMER_IRQ) \subseteq Present \cap {GENERIC_TIMER_IRQ}
<1> SUFFICES ASSUME NEW i \in Present, i \div 32 = 30 \div 32, i % 32 = 30 % 32
             PROVE  i = 30
  BY DEF gic_set_irq, GENERIC_TIMER_IRQ
<1>1. i \in 0 .. 1019
  BY GicAssumption, SMTT(30) DEF Present
<1> QED BY <1>1, SMTT(30)

LEMMA GicInit == Init => GicInv
<1> SUFFICES ASSUME Init PROVE GicInv
  OBVIOUS
<1>1. pc = "gic_dist_init" /\ irqOn = FALSE /\ owed = 0 /\ ret = "run"
  BY DEF Init
<1>2. TypeOK
  <2>1. typer \in 0 .. 31 /\ owed \in Int
    BY GicAssumption, SMTT(30) DEF Init
  <2> QED BY <1>1, <2>1 DEF Init, TypeOK, Setup, Thread
<1>3. MaskedInHandler
  BY <1>1 DEF MaskedInHandler, Thread
<1> QED
  BY <1>1, <1>2, <1>3, SMTT(30)
  DEF GicInv, OnlyExpected, StillPending, TimerUp, AckExpected, TickExact, Booted

(* The type invariant, and the mask over the handler.                      *)
LEMMA TypeStep ==
  ASSUME GicInv, [Next]_vars
  PROVE  TypeOK' /\ MaskedInHandler' /\ typer' = typer /\ Present' = Present
<1>1. typer' = typer
  BY DEF Next, boot, handler, vars, wires, gic_dist_init, gic_cpu_init,
         generic_timer_init, timer_reset, timer_unmask, enable_timer_interrupt,
         raw_local_irq_enable, take_irq, intack, handle_timer_irq, eoi, exit,
         preempt_schedule_irq, timer_expires, device
<1>2. Present' = Present
  BY <1>1 DEF Present
<1>3. ctl' \in BOOLEAN /\ expired' \in BOOLEAN /\ routed' \in BOOLEAN
  BY DEF GicInv, TypeOK, Next, boot, handler, vars, timer, gic_dist_init, gic_cpu_init,
         generic_timer_init, timer_reset, timer_unmask, enable_timer_interrupt,
         raw_local_irq_enable, take_irq, intack, handle_timer_irq, eoi, exit,
         preempt_schedule_irq, timer_expires, device, generic_timer_reset
<1>4. owed' \in Int
  <2>1. owed' \in {owed, owed + 1, owed - 1}
    BY DEF Next, boot, handler, vars, timer, gic_dist_init, gic_cpu_init,
           generic_timer_init, timer_reset, timer_unmask, enable_timer_interrupt,
           raw_local_irq_enable, take_irq, intack, handle_timer_irq, eoi, exit,
           preempt_schedule_irq, timer_expires, device
  <2> QED BY <2>1, SMTT(30) DEF GicInv, TypeOK
<1>5. enabled' \subseteq Present
  <2>1. enabled' \in {enabled, (enabled \ disable_all) \cup Sgi,
                      enabled \cup gic_set_irq(GENERIC_TIMER_IRQ)}
    BY DEF Next, boot, handler, vars, dist, gic_dist_init, gic_cpu_init,
           generic_timer_init, timer_reset, timer_unmask, enable_timer_interrupt,
           raw_local_irq_enable, take_irq, intack, handle_timer_irq, eoi, exit,
           preempt_schedule_irq, timer_expires, device
  <2>2. Sgi \subseteq Present
    <3>1. typer \in 0 .. 31
      BY DEF GicInv, TypeOK
    <3>2. ASSUME NEW i \in Sample, i < 16 PROVE i < (typer + 1) * 32
      BY <3>1, <3>2, GicAssumption, SMTT(30)
    <3> QED BY <3>2 DEF Sgi, Present
  <2> QED BY <2>1, <2>2, UnmasksOne DEF GicInv, TypeOK
<1>6. latched' \subseteq Sgi
  <2>1. UNCHANGED latched \/ latched' = latched \ {irqnr'}
    BY DEF Next, boot, handler, vars, wires, gic_dist_init, gic_cpu_init,
           generic_timer_init, timer_reset, timer_unmask, enable_timer_interrupt,
           raw_local_irq_enable, take_irq, intack, handle_timer_irq, eoi, exit,
           preempt_schedule_irq, timer_expires, device
  <2> QED BY <2>1 DEF GicInv, TypeOK
<1>7. lines' \subseteq Present \ Expected
  <2>1. \/ UNCHANGED lines
        \/ \E i \in Present \ Expected : lines' \in {lines \ {i}, lines \cup {i}}
    BY DEF Next, boot, handler, vars, wires, gic_dist_init, gic_cpu_init,
           generic_timer_init, timer_reset, timer_unmask, enable_timer_interrupt,
           raw_local_irq_enable, take_irq, intack, handle_timer_irq, eoi, exit,
           preempt_schedule_irq, timer_expires, device, Expected
  <2> QED BY <2>1 DEF GicInv, TypeOK
<1>8. /\ pc' \in Setup \cup Arming \cup Thread \cup InHandler
      /\ ret' \in Thread /\ irqOn' \in BOOLEAN /\ MaskedInHandler'
  <2> USE DEF Setup, Arming, Thread, InHandler
  <2>1. CASE boot
    <3>1. /\ pc \in Setup \cup Arming /\ UNCHANGED ret
          /\ \/ pc' \in Setup \cup Arming /\ UNCHANGED irqOn
             \/ pc' = "run" /\ irqOn' = TRUE
      BY <2>1
      DEF boot, gic_dist_init, gic_cpu_init, generic_timer_init, timer_reset,
          timer_unmask, enable_timer_interrupt, raw_local_irq_enable
    <3>2. ret \in Thread /\ irqOn \in BOOLEAN /\ (irqOn <=> pc \in Thread)
      BY DEF GicInv, TypeOK, MaskedInHandler
    <3>3. pc \notin Thread
      BY <3>1
    <3>4. CASE pc' \in Setup \cup Arming /\ UNCHANGED irqOn
      <4>1. pc' \notin Thread /\ irqOn = FALSE
        BY <3>2, <3>3, <3>4
      <4> QED BY <3>1, <3>2, <3>4, <4>1 DEF MaskedInHandler
    <3>5. CASE pc' = "run" /\ irqOn' = TRUE
      BY <3>1, <3>2, <3>5 DEF MaskedInHandler
    <3> QED BY <3>1, <3>4, <3>5
  <2>2. CASE take_irq \/ exit \/ preempt_schedule_irq
    BY <2>2 DEF GicInv, TypeOK, MaskedInHandler, take_irq, exit, preempt_schedule_irq
  <2>3. CASE intack \/ handle_timer_irq \/ eoi
    BY <2>3, SMTT(30) DEF GicInv, TypeOK, MaskedInHandler, intack, handle_timer_irq, eoi
  <2>4. CASE UNCHANGED <<pc, ret, irqOn>>
    BY <2>4 DEF GicInv, TypeOK, MaskedInHandler
  <2> QED BY <2>1, <2>2, <2>3, <2>4 DEF Next, handler, vars, timer_expires, device
<1> QED BY <1>1, <1>2, <1>3, <1>4, <1>5, <1>6, <1>7, <1>8 DEF GicInv, TypeOK, Expected

(* Only gic_dist_init and gicv2_unmask_irq write the enable bits.          *)
LEMMA EnabledStep ==
  ASSUME GicInv, [Next]_vars
  PROVE  OnlyExpected'
<1>1. typer \in 0 .. 31 /\ enabled \subseteq Present /\ OnlyExpected
  BY DEF GicInv, TypeOK
<1>2. Expected' = Expected
  BY DEF Expected, Sgi
<1>3. CASE gic_dist_init
  BY <1>1, <1>2, <1>3, DisablesAll DEF gic_dist_init, OnlyExpected, Expected
<1>4. CASE timer_unmask
  BY <1>1, <1>2, <1>4, UnmasksOne, SMTT(30) DEF timer_unmask, OnlyExpected, Expected
<1>5. CASE UNCHANGED enabled /\ (pc # "gic_dist_init" \/ pc' = "gic_dist_init")
  BY <1>1, <1>2, <1>5 DEF OnlyExpected
<1>6. take_irq => pc # "gic_dist_init"
  BY DEF take_irq, GicInv, MaskedInHandler, Thread
<1> QED
  BY <1>3, <1>4, <1>5, <1>6
  DEF Next, boot, handler, vars, dist, gic_cpu_init, generic_timer_init, timer_reset,
      enable_timer_interrupt, raw_local_irq_enable, take_irq, intack,
      handle_timer_irq, eoi, exit, preempt_schedule_irq, timer_expires, device

(* While the handler runs up to the acknowledge nothing that is pending is *)
(* withdrawn: the devices that change their lines are not enabled.         *)
LEMMA PendingStep ==
  ASSUME GicInv, [Next]_vars
  PROVE  StillPending'
<1> SUFFICES ASSUME pc' = "gic_handle_irq" PROVE Pending' # {}
  BY DEF StillPending
<1>1. CASE take_irq
  <2>1. Pending # {} /\ UNCHANGED <<dist, wires, cpuif, timer>>
    BY <1>1 DEF take_irq
  <2> QED BY <2>1 DEF Pending, LinesUp, RunningPri, dist, wires, cpuif, timer
<1>2. CASE pc = "gic_handle_irq" /\ (timer_expires \/ \E i \in Sample : device(i))
  <2>1. Pending # {} /\ enabled \subseteq Expected /\ lines \cap Expected = {}
    BY <1>2 DEF GicInv, StillPending, OnlyExpected, TypeOK
  <2>2. UNCHANGED <<dist, latched, cpuif, ctl, routed>>
    BY <1>2 DEF timer_expires, device, wires, timer
  <2>3. RunningPri' = RunningPri
    BY <2>2 DEF RunningPri, dist
  <2>4. LinesUp \cap Expected \subseteq LinesUp'
    <3>1. CASE timer_expires
      BY <3>1 DEF timer_expires, LinesUp, wires
    <3>2. CASE \E i \in Sample : device(i)
      <4>1. PICK i : /\ i \notin Expected /\ UNCHANGED timer
                     /\ lines' = IF i \in lines THEN lines \ {i} ELSE lines \cup {i}
        BY <3>2 DEF device, Expected
      <4>2. lines \cap Expected \subseteq lines'
        BY <4>1
      <4> QED BY <4>1, <4>2 DEF LinesUp, timer
    <3> QED BY <1>2, <3>1, <3>2
  <2> QED BY <2>1, <2>2, <2>3, <2>4 DEF Pending, dist, cpuif
<1>3. CASE pc = "gic_handle_irq" /\ UNCHANGED vars
  BY <1>3 DEF GicInv, StillPending, Pending, LinesUp, RunningPri, vars
<1> QED
  BY <1>1, <1>2, <1>3
  DEF Next, boot, handler, vars, gic_dist_init, gic_cpu_init, generic_timer_init,
      timer_reset, timer_unmask, enable_timer_interrupt, raw_local_irq_enable,
      intack, handle_timer_irq, eoi, exit, preempt_schedule_irq, timer_expires, device

(* The acknowledge returns an interrupt the kernel expects, and the timer  *)
(* only when it has expired.                                               *)
LEMMA AckStep ==
  ASSUME GicInv, intack
  PROVE  irqnr' \in Expected /\ (irqnr' = GENERIC_TIMER_IRQ => expired)
<1>1. irqnr' \in Pending
  BY DEF intack, GicInv, StillPending
<1>2. enabled \subseteq Expected /\ latched \subseteq Sgi /\ lines \cap Expected = {}
  BY DEF intack, GicInv, OnlyExpected, TypeOK
<1>3. GENERIC_TIMER_IRQ \notin Sgi
  BY SMTT(30) DEF GENERIC_TIMER_IRQ, Sgi
<1> QED BY <1>1, <1>2, <1>3 DEF Pending, LinesUp, Expected

(* The handler hands on what was acknowledged.                             *)
LEMMA HandlerStep ==
  ASSUME GicInv, [Next]_vars
  PROVE  TimerUp' /\ AckExpected'
<1>1. CASE intack
  <2>1. pc' = "handle_timer_irq" => irqnr' = GENERIC_TIMER_IRQ
    BY <1>1 DEF intack
  <2>2. UNCHANGED expired
    BY <1>1 DEF intack, timer
  <2> QED BY <1>1, <2>1, <2>2, AckStep DEF TimerUp, AckExpected, Expected, Sgi
<1>2. CASE handle_timer_irq
  BY <1>2 DEF handle_timer_irq, GicInv, TimerUp, AckExpected, Sgi
<1>3. CASE pc' \notin {"handle_timer_irq", "eoi"}
  BY <1>3 DEF TimerUp, AckExpected
<1>4. CASE UNCHANGED <<pc, irqnr>> /\ (UNCHANGED expired \/ expired' = TRUE)
  BY <1>4 DEF GicInv, TimerUp, AckExpected, Sgi
<1> QED
  BY <1>1, <1>2, <1>3, <1>4
  DEF Next, boot, handler, vars, timer, gic_dist_init, gic_cpu_init,
      generic_timer_init, timer_reset, timer_unmask, enable_timer_interrupt,
      raw_local_irq_enable, take_irq, eoi, exit, preempt_schedule_irq,
      timer_expires, device

(* Every expiry is counted once and handled once.                          *)
LEMMA OwedStep ==
  ASSUME GicInv, [Next]_vars
  PROVE  TickExact' /\ (pc' \in Setup => owed' = 0)
<1> USE DEF Setup
<1>1. /\ owed \in Int /\ expired \in BOOLEAN /\ (pc \in Setup => owed = 0)
      /\ pc \notin Setup => owed = IF expired THEN 1 ELSE 0
  BY DEF GicInv, TypeOK, TickExact, Booted
<1> SUFFICES /\ pc' \in Setup => owed' = 0
             /\ pc' \notin Setup => owed' = IF expired' THEN 1 ELSE 0
  BY DEF TickExact, Booted
<1>2. CASE timer_expires
  BY <1>1, <1>2, SMTT(30) DEF timer_expires
<1>3. CASE handle_timer_irq
  <2>1. expired = TRUE /\ pc \notin Setup /\ pc' \notin Setup
    BY <1>1, <1>3 DEF handle_timer_irq, GicInv, TimerUp
  <2> QED BY <1>1, <1>3, <2>1, SMTT(30) DEF handle_timer_irq, generic_timer_reset
<1>4. CASE timer_reset
  BY <1>1, <1>4 DEF timer_reset, generic_timer_reset
<1>5. CASE pc \in Setup /\ pc' \in Setup /\ UNCHANGED owed
  BY <1>1, <1>5
<1>6. CASE pc \notin Setup /\ pc' \notin Setup /\ UNCHANGED <<owed, expired>>
  BY <1>1, <1>6
<1>7. take_irq => pc \notin Setup
  BY DEF take_irq, GicInv, MaskedInHandler, Thread
<1> QED
  BY <1>2, <1>3, <1>4, <1>5, <1>6, <1>7
  DEF Next, boot, handler, vars, timer, gic_dist_init, gic_cpu_init,
      generic_timer_init, timer_unmask, enable_timer_interrupt, raw_local_irq_enable,
      take_irq, intack, eoi, exit, preempt_schedule_irq, device

LEMMA GicInvariant == Spec => []GicInv
<1>1. GicInv /\ [Next]_vars => GicInv'
  BY TypeStep, EnabledStep, PendingStep, HandlerStep, OwedStep DEF GicInv
<1> QED BY <1>1, GicInit, PTL DEF Spec

(* Each expiry of the armed generic timer is handled exactly once by       *)
(* gic_handle_irq, for every interleaving of the counter, the other        *)
(* devices and the handler: none is lost, none is handled twice.           *)
THEOREM EveryTickOnce == Spec => []TickExact
<1>1. GicInv => TickExact
  BY DEF GicInv
<1> QED BY <1>1, GicInvariant, PTL

(* gic_handle_irq acknowledges software interrupts and the timer only,     *)
(* never a device firmware had left enabled and never the spurious 1023,   *)
(* for every number of interrupt lines GIC_DIST_CTR reports.               *)
THEOREM OnlyExpectedAcked == Spec => []AckExpected
<1>1. GicInv => AckExpected
  BY DEF GicInv
<1> QED BY <1>1, GicInvariant, PTL
==============================================================================
