----------------------------- MODULE EntryProofs ------------------------------
(***************************************************************************)
(* entry.S gives every thread its registers and its stack back, for every  *)
(* set of threads and every nesting of interrupts and preemptions.         *)
(***************************************************************************)
EXTENDS Entry, TLAPS

(* Where a thread executes with IRQs on and no frame on its stack, where   *)
(* it does so inside preempt_schedule_irq, and where it never comes back.  *)
Base   == {"body", "fn", "call_fn", "ret_to_user", "panic"}
Window == {"preempt_schedule_irq", "schedule_done"}
Bad    == {"sync_invalid", "fiq_invalid", "error_invalid", "panic"}

(* Registers f are those that thread t, in phase k, needs at label l.      *)
Fits(f, t, k, l) ==
  /\ l = "body" => f = Own(t, k)
  /\ l = "fn" => f["x19"] = Fn(t) /\ f["x0"] = Arg(t)
  /\ l = "call_fn" => DOMAIN f = Reg /\ f["x19"] = Fn(t) /\ f["x20"] = Arg(t)

(* The first frame on a stack was pushed in Base, the second in Window.    *)
FrameOne(F, t, k) ==
  F.pstate = TRUE /\ \E l \in Base : F.pc = At(l) /\ Fits(F.x, t, k, l)

FrameTwo(F) ==
  F.pstate = TRUE /\ F.x["x24"] = At("trap_exit") /\ \E l \in Window : F.pc = At(l)

(* A thread that does not run starts at ret_from_fork, or was switched out *)
(* inside preempt_schedule_irq, one frame deep.                            *)
Suspended(C, F, t, k, n) ==
  \/ /\ C.pc = At("ret_from_fork") /\ C.sp = <<t, 0>> /\ n = 0
     /\ C["x19"] = Fn(t) /\ C["x20"] = Arg(t)
  \/ /\ C.pc = At("switched") /\ C.sp = <<t, 1>> /\ n = 1
     /\ C["x24"] = At("trap_exit") /\ FrameOne(F, t, k)

Others ==
  \A t \in Threads \ {sp_el0} :
    Suspended(cpu_context[t], stack[t][1], t, phase[t], preempt_count[t])

(* The running thread, by where it stands.                                 *)
Depth(d, n) == sp = <<sp_el0, d>> /\ preempt_count[sp_el0] = n
One == FrameOne(stack[sp_el0][1], sp_el0, phase[sp_el0])

CurBase == /\ pc \in Base /\ irqOn = TRUE /\ Depth(0, 0)
           /\ Fits(regs, sp_el0, phase[sp_el0], pc)

CurStart == /\ pc = "ret_from_fork" /\ irqOn = FALSE /\ Depth(0, 0)
            /\ regs["x19"] = Fn(sp_el0) /\ regs["x20"] = Arg(sp_el0)

CurEdge == /\ pc \in {"el1_irq", "eret"} /\ irqOn = FALSE /\ spsr = TRUE
           /\ \/ Depth(0, 0) /\ \E l \in Base : /\ elr = At(l)
                                                /\ Fits(regs, sp_el0, phase[sp_el0], l)
              \/ /\ Depth(1, 1) /\ One /\ regs["x24"] = At("trap_exit")
                 /\ \E l \in Window : elr = At(l)

CurHandler == /\ pc \in {"do_irq", "trap_exit", "trap_exit_regs"} /\ irqOn = FALSE /\ One
              /\ Depth(1, 0) \/ (Depth(2, 1) /\ FrameTwo(stack[sp_el0][2]))
              /\ pc = "trap_exit_regs" => /\ elr = stack[sp_el0][sp[2]].pc
                                          /\ spsr = TRUE

CurPreempt == /\ pc = "el1_preempt" /\ irqOn = FALSE /\ One /\ Depth(1, 0)
              /\ regs["lr"] = At("trap_exit")

CurWindow == /\ pc \in Window \cup {"switch_to", "switched"} /\ One /\ Depth(1, 1)
             /\ regs["x24"] = At("trap_exit")
             /\ pc \notin Window => irqOn = FALSE

Cur == CurBase \/ CurStart \/ CurEdge \/ CurHandler \/ CurPreempt \/ CurWindow

(* After an unexpected exception nothing is given back.                    *)
Doomed == pc \in Bad /\ irqOn = FALSE

Shape ==
  /\ sp_el0 \in Threads /\ irqOn \in BOOLEAN
  /\ DOMAIN phase = Threads /\ DOMAIN preempt_count = Threads
  /\ DOMAIN cpu_context = Threads /\ DOMAIN stack = Threads
  /\ \A t \in Threads : DOMAIN stack[t] = 1 .. MaxFrames
  /\ sp \in {<<sp_el0, 0>>, <<sp_el0, 1>>, <<sp_el0, 2>>}

EntryInv == Shape /\ (Doomed \/ (Cur /\ Others))
------------------------------------------------------------------------------
LEMMA EntryInit == Init => EntryInv
<1> SUFFICES ASSUME Init PROVE EntryInv
  OBVIOUS
<1> USE EntryAssumption
<1>1. Shape
  BY DEF Init, Shape
<1>2. CurBase
  BY DEF Init, CurBase, Base, Depth, Fits
<1>3. ASSUME NEW t \in Threads \ {sp_el0}
      PROVE  Suspended(cpu_context[t], stack[t][1], t, phase[t], preempt_count[t])
  <2>1. cpu_context[t] = copy_thread(t) /\ preempt_count[t] = 0
    BY <1>3 DEF Init
  <2> QED BY <2>1 DEF Suspended, copy_thread
<1> QED BY <1>1, <1>2, <1>3 DEF EntryInv, Cur, Others

(* A step that leaves the other threads alone keeps what is known of them. *)
LEMMA OthersKept ==
  ASSUME Others, sp_el0' = sp_el0, cpu_context' = cpu_context,
         \A t \in Threads \ {sp_el0} : /\ stack'[t][1] = stack[t][1]
                                       /\ phase'[t] = phase[t]
                                       /\ preempt_count'[t] = preempt_count[t]
  PROVE  Others'
  BY DEF Others

(* No step but do_bad_mode, a further exception and panic's loop is taken  *)
(* once an unexpected exception came.                                      *)
LEMMA DoomedStep ==
  ASSUME Shape, Doomed, Next
  PROVE  Shape' /\ Doomed'
<1>1. \/ \E k \in Kinds : exception(k)
      \/ do_bad_mode \/ panic
  BY DEF Next, Doomed, Bad, body, trap_entry, do_irq, el1_preempt, __schedule, cpu_switch_to,
         schedule_tail, preempt_return, trap_exit_sysregs, trap_exit_regs, eret,
         ret_from_fork, call_fn, ret_to_user
<1>2. ASSUME NEW k \in Kinds, exception(k) PROVE Shape' /\ Doomed'
  <2>1. k # "irq"
    BY <1>2 DEF Doomed, exception
  <2>2. pc' \in Bad
    BY <1>2, <2>1 DEF exception, Goto, vector_table, Kinds, Bad
  <2> QED BY Zenon, <1>2, <2>2 DEF exception, Shape, Doomed
<1>3. CASE do_bad_mode
  BY <1>3 DEF do_bad_mode, Goto, Shape, Doomed, Bad
<1>4. CASE panic
  BY <1>4 DEF panic, vars, Shape, Doomed
<1> QED BY <1>1, <1>2, <1>3, <1>4

(* Steps of a thread outside the handler: its own code, and its start.     *)
LEMMA BaseSteps ==
  ASSUME Shape, Cur, Others,
         body \/ ret_from_fork \/ call_fn \/ ret_to_user \/ do_bad_mode \/ panic
  PROVE  Shape' /\ Cur' /\ Others'
<1> USE DEF Shape
<1> DEFINE t == sp_el0
<1>1. CASE body
  <2>1. CurBase
    BY <1>1 DEF body, Cur, CurBase, CurStart, CurEdge, CurHandler, CurPreempt, CurWindow, Window
  <2>2. /\ phase' = [phase EXCEPT ![t] = 1 - @] /\ regs' = Own(t, 1 - phase[t]) /\ pc' = "body"
        /\ UNCHANGED <<sp, irqOn, sp_el0, stack, cpu_context, preempt_count>>
    BY <1>1 DEF body, Goto
  <2>3. Others'
    BY <2>2, OthersKept
  <2>4. CurBase'
    BY <2>1, <2>2 DEF CurBase, Depth, Fits, Base
  <2> QED BY <2>2, <2>3, <2>4 DEF Cur
<1>2. CASE ret_from_fork
  <2>1. CurStart
    BY <1>2 DEF ret_from_fork, Cur, CurBase, CurStart, CurEdge, CurHandler, CurPreempt, CurWindow,
               Window, Base
  <2>2. /\ pc' = "call_fn" /\ irqOn' = TRUE /\ regs' = Clobbered(regs)
        /\ UNCHANGED <<sp, sp_el0, stack, cpu_context, preempt_count, phase>>
    BY <1>2 DEF ret_from_fork, Goto
  <2>3. Others'
    BY <2>2, OthersKept
  <2>4. /\ DOMAIN regs' = Reg
        /\ regs'["x19"] = regs["x19"] /\ regs'["x20"] = regs["x20"]
    BY <2>2 DEF Clobbered, Reg, Caller, Callee
  <2>5. CurBase'
    BY <2>1, <2>2, <2>4 DEF CurStart, CurBase, Depth, Fits, Base
  <2> QED BY <2>2, <2>3, <2>5 DEF Cur
<1>3. CASE call_fn
  <2>1. CurBase
    BY <1>3 DEF call_fn, Cur, CurBase, CurStart, CurEdge, CurHandler, CurPreempt, CurWindow, Window
  <2>2. /\ pc = "call_fn" /\ pc' = "fn"
        /\ regs' = [regs EXCEPT !["x0"] = regs["x20"], !["lr"] = At("ret_to_user")]
        /\ UNCHANGED <<sp, irqOn, sp_el0, stack, cpu_context, preempt_count, phase>>
    BY <1>3 DEF call_fn, Goto
  <2>3. Others'
    BY <2>2, OthersKept
  <2>4. regs'["x19"] = Fn(t) /\ regs'["x0"] = Arg(t)
    BY <2>1, <2>2 DEF CurBase, Fits, Reg, Caller, Callee
  <2>5. CurBase'
    BY <2>1, <2>2, <2>4 DEF CurBase, Depth, Fits, Base
  <2> QED BY <2>2, <2>3, <2>5 DEF Cur
<1>4. CASE ret_to_user \/ do_bad_mode
  <2>1. CurBase
    BY <1>4 DEF ret_to_user, do_bad_mode, Cur, CurBase, CurStart, CurEdge, CurHandler, CurPreempt,
               CurWindow, Window
  <2>2. /\ pc' \in {"ret_to_user", "panic"}
        /\ UNCHANGED <<sp, irqOn, sp_el0, stack, cpu_context, preempt_count, phase>>
    BY <1>4 DEF ret_to_user, do_bad_mode, Goto, cpu
  <2>3. Others'
    BY <2>2, OthersKept
  <2>4. CurBase'
    BY <2>1, <2>2 DEF CurBase, Depth, Fits, Base
  <2> QED BY <2>2, <2>3, <2>4 DEF Cur
<1>5. CASE panic
  BY <1>5 DEF panic, vars, Cur, CurBase, CurStart, CurEdge, CurHandler, CurPreempt, CurWindow,
              Depth, One, Others
<1> QED BY <1>1, <1>2, <1>3, <1>4, <1>5

(* Exception entry: an IRQ comes in Base or in Window only; anything else  *)
(* is the end.                                                             *)
LEMMA ExceptionStep ==
  ASSUME Shape, Cur, Others, NEW k \in Kinds, exception(k)
  PROVE  Shape' /\ (Doomed' \/ (Cur' /\ Others'))
<1>1. /\ elr' = At(pc) /\ spsr' = irqOn /\ irqOn' = FALSE /\ pc' = vector_table[k]
      /\ UNCHANGED <<regs, sp, sp_el0, stack, cpu_context, preempt_count, phase>>
  BY DEF exception, Goto
<1>2. Shape'
  BY Zenon, <1>1 DEF Shape
<1>3. CASE k # "irq"
  BY <1>1, <1>2, <1>3 DEF vector_table, Kinds, Bad, Doomed
<1>4. CASE k = "irq"
  <2>1. irqOn = TRUE
    BY <1>4 DEF exception, Shape
  <2>2. CurBase \/ (CurWindow /\ pc \in Window)
    BY <2>1 DEF Cur, CurStart, CurEdge, CurHandler, CurPreempt, CurWindow
  <2>3. pc' = "el1_irq" /\ spsr' = TRUE
    BY <1>1, <1>4, <2>1 DEF vector_table
  <2>4. Others'
    BY <1>1, OthersKept
  <2>5. ASSUME CurBase PROVE CurEdge'
    BY <1>1, <2>3, <2>5 DEF CurBase, CurEdge, Depth
  <2>6. ASSUME CurWindow, pc \in Window PROVE CurEdge'
    BY <1>1, <2>3, <2>6 DEF CurWindow, CurEdge, Depth, One
  <2> QED BY <1>2, <2>2, <2>4, <2>5, <2>6 DEF Cur
<1> QED BY <1>3, <1>4

(* trap_entry pushes what the edge promised.                               *)
LEMMA TrapEntryStep ==
  ASSUME Shape, Cur, Others, trap_entry
  PROVE  Shape' /\ Cur' /\ Others'
<1> USE EntryAssumption
<1> DEFINE t == sp_el0
<1>1. CurEdge
  BY DEF trap_entry, Cur, CurBase, CurStart, CurHandler, CurPreempt, CurWindow, Window, Base
<1>2. /\ pc' = "do_irq" /\ sp' = <<sp[1], sp[2] + 1>>
      /\ stack' = [stack EXCEPT ![sp[1]][sp[2] + 1] = trap_frame]
      /\ UNCHANGED <<regs, irqOn, sp_el0, cpu_context, preempt_count, phase>>
  BY DEF trap_entry, Goto
<1>3. /\ trap_frame.x = regs /\ trap_frame.pc = elr /\ trap_frame.pstate = TRUE
  BY <1>1 DEF trap_frame, CurEdge
<1>4. ASSUME Depth(0, 0), NEW l \in Base, elr = At(l), Fits(regs, t, phase[t], l)
      PROVE  Shape' /\ Cur' /\ Others'
  <2>1. sp' = <<t, 1>> /\ stack' = [stack EXCEPT ![t][1] = trap_frame]
    BY <1>2, <1>4 DEF Depth
  <2>2. stack'[t][1] = trap_frame /\ \A u \in Threads \ {t} : stack'[u][1] = stack[u][1]
    BY <2>1 DEF Shape
  <2>3. Shape'
    BY <1>2, <2>1 DEF Shape
  <2>4. One'
    BY <1>2, <1>3, <1>4, <2>2 DEF One, FrameOne
  <2>5. CurHandler'
    BY <1>1, <1>2, <1>4, <2>1, <2>4 DEF CurHandler, Depth, CurEdge
  <2>6. Others'
    BY <1>2, <2>2, OthersKept
  <2> QED BY <2>3, <2>5, <2>6 DEF Cur
<1>5. ASSUME Depth(1, 1), One, regs["x24"] = At("trap_exit"), NEW l \in Window, elr = At(l)
      PROVE  Shape' /\ Cur' /\ Others'
  <2>1. sp' = <<t, 2>> /\ stack' = [stack EXCEPT ![t][2] = trap_frame]
    BY <1>2, <1>5 DEF Depth
  <2>2. stack'[t][2] = trap_frame /\ \A u \in Threads : stack'[u][1] = stack[u][1]
    BY <2>1 DEF Shape
  <2>3. Shape'
    BY <1>2, <2>1 DEF Shape
  <2>4. FrameTwo(stack'[t][2])
    BY <1>3, <1>5, <2>2 DEF FrameTwo
  <2>5. One'
    BY <1>2, <1>5, <2>2 DEF One, Shape
  <2>6. CurHandler'
    BY <1>1, <1>2, <1>5, <2>1, <2>4, <2>5 DEF CurHandler, Depth, CurEdge
  <2>7. Others'
    BY <1>2, <2>2, OthersKept
  <2> QED BY <2>3, <2>6, <2>7 DEF Cur
<1> QED BY <1>1, <1>4, <1>5 DEF CurEdge

(* trap_exit pops what was pushed.                                         *)
LEMMA TrapExitStep ==
  ASSUME Shape, Cur, Others, trap_exit_regs
  PROVE  Shape' /\ Cur' /\ Others'
<1> USE EntryAssumption
<1> DEFINE t == sp_el0
<1>1. CurHandler /\ pc = "trap_exit_regs"
  BY DEF trap_exit_regs, Cur, CurBase, CurStart, CurEdge, CurPreempt, CurWindow, Window, Base
<1>2. /\ pc' = "eret" /\ regs' = stack[sp[1]][sp[2]].x /\ sp' = <<sp[1], sp[2] - 1>>
      /\ stack' = [stack EXCEPT ![sp[1]][sp[2]] = NoFrame]
      /\ UNCHANGED <<elr, spsr, irqOn, sp_el0, cpu_context, preempt_count, phase>>
  BY DEF trap_exit_regs, Goto
<1>3. CASE Depth(1, 0)
  <2>1. /\ regs' = stack[t][1].x /\ sp' = <<t, 0>> /\ elr = stack[t][1].pc /\ spsr = TRUE
        /\ stack' = [stack EXCEPT ![t][1] = NoFrame]
    BY <1>1, <1>2, <1>3 DEF Depth, CurHandler
  <2>2. \A u \in Threads \ {t} : stack'[u][1] = stack[u][1]
    BY <2>1 DEF Shape
  <2>3. Shape'
    BY <1>2, <2>1 DEF Shape
  <2>4. PICK l \in Base : stack[t][1].pc = At(l) /\ Fits(stack[t][1].x, t, phase[t], l)
    BY <1>1 DEF CurHandler, One, FrameOne
  <2>5. CurEdge'
    BY <1>1, <1>2, <1>3, <2>1, <2>4 DEF CurEdge, CurHandler, Depth
  <2>6. Others'
    BY <1>2, <2>2, OthersKept
  <2> QED BY <2>3, <2>5, <2>6 DEF Cur
<1>4. CASE Depth(2, 1) /\ FrameTwo(stack[t][2])
  <2>1. /\ regs' = stack[t][2].x /\ sp' = <<t, 1>> /\ elr = stack[t][2].pc /\ spsr = TRUE
        /\ stack' = [stack EXCEPT ![t][2] = NoFrame]
    BY <1>1, <1>2, <1>4 DEF Depth, CurHandler
  <2>2. \A u \in Threads : stack'[u][1] = stack[u][1]
    BY <2>1 DEF Shape
  <2>3. Shape'
    BY <1>2, <2>1 DEF Shape
  <2>4. One'
    BY <1>1, <1>2, <2>2 DEF One, CurHandler, Shape
  <2>5. regs'["x24"] = At("trap_exit") /\ \E l \in Window : elr' = At(l)
    BY <1>2, <1>4, <2>1 DEF FrameTwo
  <2>6. CurEdge'
    BY <1>1, <1>2, <1>4, <2>1, <2>4, <2>5 DEF CurEdge, CurHandler, Depth
  <2>7. Others'
    BY <1>2, <2>2, OthersKept
  <2> QED BY <2>3, <2>6, <2>7 DEF Cur
<1> QED BY <1>1, <1>3, <1>4 DEF CurHandler

(* The handler and its return, without the frames.                         *)
LEMMA HandlerSteps ==
  ASSUME Shape, Cur, Others, do_irq \/ trap_exit_sysregs \/ eret
  PROVE  Shape' /\ Cur' /\ Others'
<1> DEFINE t == sp_el0
<1>1. CASE do_irq
  <2>1. CurHandler /\ pc = "do_irq"
    BY <1>1 DEF do_irq, Cur, CurBase, CurStart, CurEdge, CurPreempt, CurWindow, Window, Base
  <2>2. UNCHANGED <<sp, irqOn, sp_el0, stack, cpu_context, preempt_count, phase>>
    BY <1>1 DEF do_irq
  <2>3. Shape' /\ Others' /\ One'
    BY <2>1, <2>2, OthersKept DEF Shape, One, CurHandler
  <2>4. CASE pc' = "trap_exit"
    <3>1. CurHandler'
      BY <2>1, <2>2, <2>3, <2>4 DEF CurHandler, Depth
    <3> QED BY <2>3, <3>1 DEF Cur
  <2>5. CASE may_preempt(t) /\ regs' = [Handled(regs, t) EXCEPT !["lr"] = At("trap_exit")]
             /\ pc' = "el1_preempt"
    <3>1. regs'["lr"] = At("trap_exit")
      BY <2>5 DEF Handled, Clobbered, Reg, Caller, Callee
    <3>2. Depth(1, 0)
      BY <2>1, <2>5 DEF CurHandler, Depth, may_preempt
    <3>3. CurPreempt'
      BY <2>1, <2>2, <2>3, <2>5, <3>1, <3>2 DEF CurHandler, CurPreempt, Depth
    <3> QED BY <2>3, <3>3 DEF Cur
  <2> QED BY <1>1, <2>4, <2>5 DEF do_irq, Goto
<1>2. CASE trap_exit_sysregs
  <2>1. CurHandler
    BY <1>2 DEF trap_exit_sysregs, Cur, CurBase, CurStart, CurEdge, CurPreempt, CurWindow, Window, Base
  <2>2. /\ pc' = "trap_exit_regs" /\ elr' = stack[sp[1]][sp[2]].pc
        /\ spsr' = stack[sp[1]][sp[2]].pstate
        /\ UNCHANGED <<regs, sp, irqOn, sp_el0, stack, cpu_context, preempt_count, phase>>
    BY <1>2 DEF trap_exit_sysregs, Goto
  <2>3. Shape' /\ Others' /\ One'
    BY <2>1, <2>2, OthersKept DEF Shape, One, CurHandler
  <2>4. elr' = stack[t][sp[2]].pc /\ spsr' = TRUE
    BY <2>1, <2>2 DEF CurHandler, Depth, One, FrameOne, FrameTwo
  <2>5. CurHandler'
    BY <2>1, <2>2, <2>3, <2>4 DEF CurHandler, Depth
  <2> QED BY <2>3, <2>5 DEF Cur
<1>3. CASE eret
  <2>1. CurEdge
    BY <1>3 DEF eret, Cur, CurBase, CurStart, CurHandler, CurPreempt, CurWindow, Window, Base
  <2>2. /\ pc' = elr[2] /\ irqOn' = TRUE
        /\ UNCHANGED <<regs, sp, sp_el0, stack, cpu_context, preempt_count, phase>>
    BY <1>3, <2>1 DEF eret, Goto, CurEdge
  <2>3. Shape' /\ Others'
    BY <2>2, OthersKept DEF Shape
  <2>4. ASSUME Depth(0, 0), NEW l \in Base, elr = At(l), Fits(regs, t, phase[t], l)
        PROVE  CurBase'
    <3>1. pc' = l
      BY <2>2, <2>4 DEF At
    <3> QED BY <2>2, <2>4, <3>1 DEF CurBase, Depth
  <2>5. ASSUME Depth(1, 1), One, regs["x24"] = At("trap_exit"), NEW l \in Window, elr = At(l)
        PROVE  CurWindow'
    <3>1. pc' = l
      BY <2>2, <2>5 DEF At
    <3> QED BY <2>2, <2>5, <3>1 DEF CurWindow, Depth, One
  <2> QED BY <2>1, <2>3, <2>4, <2>5 DEF CurEdge, Cur
<1> QED BY <1>1, <1>2, <1>3

(* preempt_schedule_irq around the switch.                                 *)
LEMMA PreemptSteps ==
  ASSUME Shape, Cur, Others, el1_preempt \/ __schedule \/ schedule_tail \/ preempt_return
  PROVE  Shape' /\ Cur' /\ Others'
<1> USE DEF Shape
<1> DEFINE t == sp_el0
<1>0. Clobbered(regs)["x24"] = regs["x24"]
  BY DEF Clobbered, Reg, Caller, Callee
<1>1. CASE el1_preempt
  <2>1. CurPreempt
    BY <1>1 DEF el1_preempt, Cur, CurBase, CurStart, CurEdge, CurHandler, CurWindow, Window, Base
  <2>2. /\ pc' = "preempt_schedule_irq" /\ irqOn' = TRUE
        /\ regs' = [Clobbered(regs) EXCEPT !["x24"] = regs["lr"]]
        /\ preempt_count' = [preempt_count EXCEPT ![t] = @ + 1]
        /\ UNCHANGED <<sp, sp_el0, stack, cpu_context, phase>>
    BY <1>1 DEF el1_preempt, Goto
  <2>3. regs'["x24"] = At("trap_exit")
    BY <2>1, <2>2 DEF CurPreempt, Clobbered, Reg, Caller, Callee
  <2>4. CurWindow'
    BY <2>1, <2>2, <2>3 DEF CurPreempt, CurWindow, Window, Depth, One
  <2>5. Others'
    BY <2>2, OthersKept
  <2> QED BY <2>2, <2>4, <2>5 DEF Cur
<1>2. CASE __schedule \/ schedule_tail
  <2>1. CurWindow
    BY <1>2 DEF __schedule, schedule_tail, Cur, CurBase, CurStart, CurEdge, CurHandler, CurPreempt, Base
  <2>2. /\ \/ pc' = "switch_to" /\ irqOn' = FALSE
           \/ pc' = "schedule_done" /\ irqOn' \in BOOLEAN
        /\ regs' \in {regs, Clobbered(regs)}
        /\ UNCHANGED <<sp, sp_el0, stack, cpu_context, preempt_count, phase>>
    BY Zenon, <1>2 DEF __schedule, schedule_tail, Goto, cpu
  <2>3. regs'["x24"] = At("trap_exit")
    BY <1>0, <2>1, <2>2 DEF CurWindow
  <2>4. CurWindow'
    BY <2>1, <2>2, <2>3 DEF CurWindow, Window, Depth, One
  <2>5. Others'
    BY <2>2, OthersKept
  <2> QED BY Zenon, <2>2, <2>4, <2>5 DEF Cur
<1>3. CASE preempt_return
  <2>1. CurWindow
    BY <1>3 DEF preempt_return, Cur, CurBase, CurStart, CurEdge, CurHandler, CurPreempt, Base
  <2>2. /\ pc' = "trap_exit" /\ irqOn' = FALSE
        /\ preempt_count' = [preempt_count EXCEPT ![t] = @ - 1]
        /\ UNCHANGED <<sp, sp_el0, stack, cpu_context, phase>>
    BY <1>3, <2>1 DEF preempt_return, preempt_masks, Goto, CurWindow, At
  <2>3. CurHandler'
    BY <2>1, <2>2 DEF CurWindow, CurHandler, Depth, One
  <2>4. Others'
    BY <2>2, OthersKept
  <2> QED BY Zenon, <2>2, <2>3, <2>4 DEF Cur
<1> QED BY <1>1, <1>2, <1>3

(* cpu_switch_to leaves prev as Suspended and finds next so.               *)
LEMMA SwitchStep ==
  ASSUME Shape, Cur, Others, NEW next \in Threads, cpu_switch_to(next)
  PROVE  Shape' /\ Cur' /\ Others'
<1> DEFINE t == sp_el0
           C == cpu_context[next]
<1>1. CurWindow /\ irqOn = FALSE
  BY DEF cpu_switch_to, Cur, CurBase, CurStart, CurEdge, CurHandler, CurPreempt, CurWindow, Window, Base
<1>2. /\ next # t /\ sp_el0' = next /\ sp' = C.sp /\ pc' = C.pc[2]
      /\ cpu_context' = [cpu_context EXCEPT ![t] = switch_frame, ![next] = NoContext]
      /\ UNCHANGED <<irqOn, stack, preempt_count, phase>>
  BY DEF cpu_switch_to, Goto
<1>3. /\ regs'["x19"] = C["x19"] /\ regs'["x20"] = C["x20"] /\ regs'["x24"] = C["x24"]
  BY DEF cpu_switch_to, Reg, Caller, Callee
<1>4. Suspended(C, stack[next][1], next, phase[next], preempt_count[next])
  BY <1>2 DEF Others
<1>5. Cur'
  <2>1. CASE /\ C.pc = At("ret_from_fork") /\ C.sp = <<next, 0>> /\ preempt_count[next] = 0
             /\ C["x19"] = Fn(next) /\ C["x20"] = Arg(next)
    <3>1. CurStart'
      BY <1>1, <1>2, <1>3, <2>1 DEF CurStart, Depth, At
    <3> QED BY <3>1 DEF Cur
  <2>2. CASE /\ C.pc = At("switched") /\ C.sp = <<next, 1>> /\ preempt_count[next] = 1
             /\ C["x24"] = At("trap_exit")
             /\ FrameOne(stack[next][1], next, phase[next])
    <3>1. CurWindow'
      BY <1>1, <1>2, <1>3, <2>2 DEF CurWindow, Window, Depth, One, At
    <3> QED BY <3>1 DEF Cur
  <2> QED BY <1>4, <2>1, <2>2 DEF Suspended
<1>6. Shape'
  BY <1>2, <1>4 DEF Shape, Suspended
<1>7. Others'
  <2>1. ASSUME NEW u \in Threads \ {next}
        PROVE  Suspended(cpu_context'[u], stack'[u][1], u, phase'[u], preempt_count'[u])
    <3>1. CASE u = t
      <4>1. cpu_context'[t] = switch_frame
        BY <1>2 DEF Shape
      <4>2. switch_frame.pc = At("switched") /\ switch_frame.sp = sp
            /\ switch_frame["x24"] = regs["x24"]
        BY DEF switch_frame
      <4> QED BY Zenon, <1>1, <1>2, <3>1, <4>1, <4>2 DEF CurWindow, Depth, One, Suspended
    <3>2. CASE u # t
      <4>1. cpu_context'[u] = cpu_context[u]
        BY <1>2, <2>1, <3>2 DEF Shape
      <4> QED BY <1>2, <3>2, <4>1 DEF Others
    <3> QED BY <3>1, <3>2
  <2> QED BY Zenon, <1>2, <2>1 DEF Others
<1> QED BY <1>5, <1>6, <1>7

LEMMA EntryStep == EntryInv /\ [Next]_vars => EntryInv'
<1> SUFFICES ASSUME EntryInv, [Next]_vars PROVE EntryInv'
  BY Zenon
<1>1. CASE UNCHANGED vars
  BY Zenon, <1>1 DEF vars, EntryInv, Shape, Doomed, Cur, CurBase, CurStart, CurEdge, CurHandler,
              CurPreempt, CurWindow, Depth, One, Others
<1>2. CASE Next /\ Doomed
  BY <1>2, DoomedStep DEF EntryInv
<1>3. CASE Next /\ Cur /\ Others
  BY <1>3, BaseSteps, ExceptionStep, TrapEntryStep, TrapExitStep, HandlerSteps, PreemptSteps,
     SwitchStep DEF EntryInv, Next
<1> QED BY <1>1, <1>2, <1>3 DEF EntryInv

(* trap_entry, trap_exit and cpu_switch_to: a thread that executes its own *)
(* code finds its registers and its stack as it left them.                 *)
THEOREM RegistersKept == Spec => []OwnRegisters
<1>1. EntryInv => OwnRegisters
  BY DEF EntryInv, Doomed, Bad, Cur, CurBase, CurStart, CurEdge, CurHandler, CurPreempt, CurWindow,
         Window, Depth, Fits, OwnRegisters
<1> QED BY <1>1, EntryInit, EntryStep, PTL DEF Spec

(* ret_from_fork: a new thread calls its own function with its argument.   *)
THEOREM OwnFunction == Spec => []StartsOwnFunction
<1>1. EntryInv => StartsOwnFunction
  BY DEF EntryInv, Doomed, Bad, Cur, CurBase, CurStart, CurEdge, CurHandler, CurPreempt, CurWindow,
         Window, Fits, StartsOwnFunction
<1> QED BY <1>1, EntryInit, EntryStep, PTL DEF Spec

(* preempt_schedule_irq: no more than two frames are ever on a stack.      *)
THEOREM TwoFrames == Spec => []StackBounded
<1>1. EntryInv => StackBounded
  BY DEF EntryInv, Shape, StackBounded
<1> QED BY <1>1, EntryInit, EntryStep, PTL DEF Spec

(* trap_exit: IRQs are masked between the load of ELR_EL1 and eret.        *)
THEOREM MaskedExit == Spec => []ExitMasked
<1>1. EntryInv => ExitMasked
  BY DEF EntryInv, Doomed, Bad, Cur, CurBase, CurStart, CurEdge, CurHandler, CurPreempt, CurWindow,
         Base, Window, ExitMasked
<1> QED BY <1>1, EntryInit, EntryStep, PTL DEF Spec
==============================================================================
