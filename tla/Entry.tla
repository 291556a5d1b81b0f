-------------------------------- MODULE Entry --------------------------------
(***************************************************************************)
(* Registers, stacks and return addresses through exceptions, preemption   *)
(* and context switches: arch/arm64/core/entry.S with the C code it calls  *)
(* between two of its instructions that matter (sched.c, fork.c, traps.c). *)
(*                                                                         *)
(* A register holds a token: which thread computed it, in which register,  *)
(* in which of its two phases.  Code addresses are the labels of pc.       *)
(***************************************************************************)
EXTENDS Naturals

CONSTANTS Threads,     \* the kernel threads; init_task is the first that runs
          init_task,
          MaxFrames    \* bound: pt_regs frames that fit on a stack

ASSUME EntryAssumption == init_task \in Threads /\ MaxFrames \in Nat /\ MaxFrames >= 2

VARIABLES
  pc, regs, sp, elr, spsr, irqOn, sp_el0,  \* the CPU
  stack,          \* stack[t][i]: the i-th pt_regs frame on the stack of t
  cpu_context,    \* cpu_context[t]: saved callee-saved registers, sp and pc
  preempt_count,
  phase,          \* phase[t]: the phase of its own code t is in
  report          \* what do_bad_mode said, and what had happened

cpu  == <<regs, sp, elr, spsr, sp_el0>>
vars == <<pc, regs, sp, elr, spsr, irqOn, sp_el0, stack, cpu_context,
          preempt_count, phase, report>>

(* One register stands for the others of its class: x0 for those a call    *)
(* may clobber, x19 and x20 for those it preserves.  lr is x30.            *)
Caller == {"x0", "lr"}
Callee == {"x19", "x20", "x24", "x28"}
Reg    == Caller \cup Callee

Junk       == <<"junk">>
Own(t, k)  == [r \in Reg |-> <<t, r, k>>]
At(l)      == <<"code", l>>
Fn(t)      == <<"fn", t>>
Arg(t)     == <<"arg", t>>
Kinds      == {"sync", "irq", "fiq", "error"}
Nothing    == [said |-> "none", real |-> "none"]

(* Slip: the argument lands in the register of the function.               *)
copy_thread_swapped(t) ==
  [x19 |-> Arg(t), x20 |-> Fn(t), x24 |-> Junk, x28 |-> Junk,
   sp |-> <<t, 0>>, pc |-> At("ret_from_fork")]

(* What copy_thread leaves in a new thread; its pt_regs lie at the top of  *)
(* the stack and are never used to return.                                 *)
copy_thread(t) ==
  [x19 |-> Fn(t), x20 |-> Arg(t), x24 |-> Junk, x28 |-> Junk,
   sp |-> <<t, 0>>, pc |-> At("ret_from_fork")]

(* What is left in memory or in a system register that the code writes     *)
(* before it reads it again is forgotten: these values stand for anything. *)
NoContext == [x19 |-> Junk, x20 |-> Junk, x24 |-> Junk, x28 |-> Junk,
              sp |-> Junk, pc |-> At("none")]

NoFrame == [x |-> [r \in Reg |-> Junk], pc |-> At("none"), pstate |-> FALSE]

Init ==
  /\ phase = [t \in Threads |-> 0]
  /\ pc = "body" /\ irqOn = TRUE /\ sp_el0 = init_task
  /\ regs = Own(init_task, 0) /\ sp = <<init_task, 0>>
  /\ elr = At("none") /\ spsr = FALSE
  /\ stack = [t \in Threads |-> [i \in 1 .. MaxFrames |-> NoFrame]]
  /\ cpu_context = [t \in Threads |-> IF t = init_task THEN NoContext ELSE copy_thread(t)]
  /\ preempt_count = [t \in Threads |-> 0]
  /\ report = Nothing
------------------------------------------------------------------------------
Goto(l) == pc' = l
Clobbered(f) == [r \in Reg |-> IF r \in Caller THEN Junk ELSE f[r]]

(* A thread computes: every register it uses changes.                      *)
body ==
  /\ pc \in {"body", "fn"} /\ Goto("body")
  /\ phase' = [phase EXCEPT ![sp_el0] = 1 - @]
  /\ regs' = Own(sp_el0, 1 - phase[sp_el0])
  /\ UNCHANGED <<sp, elr, spsr, irqOn, sp_el0, stack, cpu_context, preempt_count, report>>

(* The rows of vector_table for an exception taken at EL1 with SP_EL1, the *)
(* only state the kernel runs in; the label of each invalid entry carries  *)
(* the reason it passes on.                                                *)
vector_table == [sync |-> "sync_invalid", irq |-> "el1_irq",
                 fiq |-> "fiq_invalid", error |-> "error_invalid"]

(* Exception entry, by the hardware.  An IRQ needs PSTATE.I clear; the     *)
(* others come at any instruction.                                         *)
exception(kind) ==
  /\ pc # "panic" \/ kind = "irq"
  /\ kind = "irq" => irqOn
  /\ elr' = At(pc) /\ spsr' = irqOn /\ irqOn' = FALSE
  /\ Goto(vector_table[kind])
  /\ report' = IF kind = "irq" THEN report ELSE [report EXCEPT !.real = kind]
  /\ UNCHANGED <<regs, sp, sp_el0, stack, cpu_context, preempt_count, phase>>

(* Slip: x24 and x28 are not in the frame.                                 *)
trap_frame_short ==
  [x |-> [regs EXCEPT !["x24"] = Junk, !["x28"] = Junk], pc |-> elr, pstate |-> spsr]

(* The struct pt_regs that trap_entry stores.                              *)
trap_frame == [x |-> regs, pc |-> elr, pstate |-> spsr]

trap_entry ==
  /\ pc = "el1_irq" /\ Goto("do_irq")
  /\ sp' = <<sp[1], sp[2] + 1>>
  /\ stack' = [stack EXCEPT ![sp[1]][sp[2] + 1] = trap_frame]
  /\ elr' = At("none") /\ spsr' = FALSE
  /\ UNCHANGED <<regs, irqOn, sp_el0, cpu_context, preempt_count, phase, report>>

(* do_irq() is C code.  Then tsk and the preempt count are loaded, and bl  *)
(* el1_preempt happens if the count is 0 and need_resched is set, which    *)
(* do_irq may or may not have done.                                        *)
Handled(f, t) == [Clobbered(f) EXCEPT !["x28"] = <<"task", t>>,
                                      !["x24"] = <<"count", preempt_count[t]>>]

(* Slip: the count is loaded and not tested.                               *)
may_preempt_always(t) == TRUE

may_preempt(t) == preempt_count[t] = 0

do_irq ==
  /\ pc = "do_irq"
  /\ \/ regs' = Handled(regs, sp_el0) /\ Goto("trap_exit")
     \/ /\ may_preempt(sp_el0)
        /\ regs' = [Handled(regs, sp_el0) EXCEPT !["lr"] = At("trap_exit")]
        /\ Goto("el1_preempt")
  /\ UNCHANGED <<sp, elr, spsr, irqOn, sp_el0, stack, cpu_context, preempt_count, phase, report>>

(* mov x24, lr, and preempt_schedule_irq up to raw_local_irq_enable().     *)
el1_preempt ==
  /\ pc = "el1_preempt" /\ Goto("preempt_schedule_irq")
  /\ regs' = [Clobbered(regs) EXCEPT !["x24"] = regs["lr"]]
  /\ preempt_count' = [preempt_count EXCEPT ![sp_el0] = @ + 1]
  /\ irqOn' = TRUE
  /\ UNCHANGED <<sp, elr, spsr, sp_el0, stack, cpu_context, phase, report>>

(* raw_local_irq_disable() of __schedule.                                  *)
__schedule ==
  /\ pc = "preempt_schedule_irq" /\ Goto("switch_to")
  /\ irqOn' = FALSE
  /\ UNCHANGED <<cpu, stack, cpu_context, preempt_count, phase, report>>

(* What cpu_switch_to stores for prev; lr is the return into __schedule.   *)
switch_frame == [x19 |-> regs["x19"], x20 |-> regs["x20"], x24 |-> regs["x24"],
                 x28 |-> regs["x28"], sp |-> sp, pc |-> At("switched")]

(* cpu_switch_to(prev, next) with its ret.                                 *)
cpu_switch_to(next) ==
  /\ pc = "switch_to" /\ next # sp_el0
  /\ cpu_context' = [cpu_context EXCEPT ![sp_el0] = switch_frame,
                                        ![next] = NoContext]
  /\ regs' = [r \in Reg |-> IF r \in Callee THEN cpu_context[next][r]
                            ELSE IF r = "lr" THEN cpu_context[next].pc ELSE Junk]
  /\ sp' = cpu_context[next].sp
  /\ sp_el0' = next
  /\ Goto(cpu_context[next].pc[2])
  /\ UNCHANGED <<elr, spsr, irqOn, stack, preempt_count, phase, report>>

(* The tail of __schedule: schedule_tail(last) unmasks.  When prev was     *)
(* picked again there is no switch and no schedule_tail.                   *)
schedule_tail ==
  /\ \/ pc = "switched" /\ irqOn' = TRUE
     \/ pc = "switch_to" /\ UNCHANGED irqOn
  /\ Goto("schedule_done")
  /\ regs' = Clobbered(regs)
  /\ UNCHANGED <<sp, elr, spsr, sp_el0, stack, cpu_context, preempt_count, phase, report>>

(* Slip: preempt_schedule_irq returns with IRQs as they are.               *)
preempt_leaves_unmasked == UNCHANGED irqOn

preempt_masks == irqOn' = FALSE

(* raw_local_irq_disable(), preempt_enable(), and ret x24.                 *)
preempt_return ==
  /\ pc = "schedule_done" /\ Goto(regs["x24"][2])
  /\ preempt_masks
  /\ preempt_count' = [preempt_count EXCEPT ![sp_el0] = @ - 1]
  /\ regs' = Clobbered(regs)
  /\ UNCHANGED <<sp, elr, spsr, sp_el0, stack, cpu_context, phase, report>>

(* trap_exit up to the two msr: ELR_EL1 and SPSR_EL1 from the frame at sp. *)
trap_exit_sysregs ==
  /\ pc = "trap_exit" /\ Goto("trap_exit_regs")
  /\ elr' = stack[sp[1]][sp[2]].pc /\ spsr' = stack[sp[1]][sp[2]].pstate
  /\ UNCHANGED <<regs, sp, irqOn, sp_el0, stack, cpu_context, preempt_count, phase, report>>

(* The loads of trap_exit, and the frame is popped.                        *)
trap_exit_regs ==
  /\ pc = "trap_exit_regs" /\ Goto("eret")
  /\ regs' = stack[sp[1]][sp[2]].x
  /\ sp' = <<sp[1], sp[2] - 1>>
  /\ stack' = [stack EXCEPT ![sp[1]][sp[2]] = NoFrame]
  /\ UNCHANGED <<elr, spsr, irqOn, sp_el0, cpu_context, preempt_count, phase, report>>

eret ==
  /\ pc = "eret" /\ Goto(elr[2])
  /\ irqOn' = spsr
  /\ elr' = At("none") /\ spsr' = FALSE
  /\ UNCHANGED <<regs, sp, sp_el0, stack, cpu_context, preempt_count, phase, report>>

(* ret_from_fork: bl schedule_tail, which unmasks ...                      *)
ret_from_fork ==
  /\ pc = "ret_from_fork" /\ Goto("call_fn")
  /\ irqOn' = TRUE
  /\ regs' = Clobbered(regs)
  /\ UNCHANGED <<sp, elr, spsr, sp_el0, stack, cpu_context, preempt_count, phase, report>>

(* ... then x0 = x20 and blr x19, which is not 0 in a thread of do_fork.   *)
call_fn ==
  /\ pc = "call_fn" /\ Goto("fn")
  /\ regs' = [regs EXCEPT !["x0"] = regs["x20"], !["lr"] = At("ret_to_user")]
  /\ UNCHANGED <<sp, elr, spsr, irqOn, sp_el0, stack, cpu_context, preempt_count, phase, report>>

(* The function of a new thread returns: ret_to_user.                      *)
ret_to_user ==
  /\ pc = "body" /\ sp_el0 # init_task /\ Goto("ret_to_user")
  /\ report' = [report EXCEPT !.real = "return"]
  /\ UNCHANGED <<cpu, irqOn, stack, cpu_context, preempt_count, phase>>

BAD_SYNC  == 0
BAD_IRQ   == 1
BAD_FIQ   == 2
BAD_ERROR == 3

bad_mode_handler == <<"sync", "irq", "fiq", "error">>

(* The reason that the invalid macro passes at label l.                    *)
invalid(l) == CASE l = "sync_invalid" -> BAD_SYNC
                [] l = "fiq_invalid"  -> BAD_FIQ
                [] l \in {"error_invalid", "ret_to_user"} -> BAD_ERROR

(* do_bad_mode(): the report, then panic().                                *)
do_bad_mode ==
  /\ pc \in {"sync_invalid", "fiq_invalid", "error_invalid", "ret_to_user"}
  /\ report' = [report EXCEPT !.said = bad_mode_handler[invalid(pc) + 1]]
  /\ regs' = Clobbered(regs)
  /\ Goto("panic")
  /\ UNCHANGED <<sp, elr, spsr, irqOn, sp_el0, stack, cpu_context, preempt_count, phase>>

(* while (1) of panic().                                                   *)
panic == pc = "panic" /\ UNCHANGED vars

Next ==
  \/ body \/ (\E k \in Kinds : exception(k))
  \/ trap_entry \/ do_irq \/ el1_preempt \/ __schedule
  \/ (\E t \in Threads : cpu_switch_to(t))
  \/ schedule_tail \/ preempt_return
  \/ trap_exit_sysregs \/ trap_exit_regs \/ eret
  \/ ret_from_fork \/ call_fn \/ ret_to_user \/ do_bad_mode \/ panic

Spec == Init /\ [][Next]_vars
------------------------------------------------------------------------------
(* A thread that executes its own code finds in every register what it put *)
(* there, is on its own stack with no frame left on it, and is the one     *)
(* sp_el0 names: after any nesting of interrupts, preemptions and switches *)
(* between other threads, trap_exit and cpu_switch_to gave everything back.*)
OwnRegisters ==
  pc = "body" => /\ regs = Own(sp_el0, phase[sp_el0])
                 /\ sp = <<sp_el0, 0>>

(* ret_from_fork calls the function do_fork was given with the argument it *)
(* was given, also when the interrupt that schedule_tail lets in came, and *)
(* preempted, before the call.                                             *)
StartsOwnFunction ==
  pc = "fn" => regs["x19"] = Fn(sp_el0) /\ regs["x0"] = Arg(sp_el0)

(* Interrupts nest at most twice on a stack: the preempt count that        *)
(* preempt_schedule_irq holds keeps the window in which it has IRQs on     *)
(* from preempting again, so the page that holds the stack cannot be       *)
(* filled by ticks.                                                        *)
StackBounded == sp[2] <= 2

(* Between the msr of ELR_EL1 and eret no interrupt can come in, and the   *)
(* code that is returned to gets the mask it had.                          *)
ExitMasked ==
  pc \in {"trap_exit_regs", "eret"} => ~irqOn /\ spsr
==============================================================================
