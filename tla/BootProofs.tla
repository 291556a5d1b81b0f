------------------------------ MODULE BootProofs ------------------------------
(***************************************************************************)
(* start.S and kernel_main of module Boot, for every set of CPUs that      *)
(* the firmware releases and every length of the boot strings.             *)
(***************************************************************************)
EXTENDS Boot, TLAPS

(* A leaf that names no prover is one for Zenon.                           *)
USE ZenonT(30)

(* Where the first CPU is: before el1_entry; in el1_entry; in kernel_main  *)
(* after its first call to printk.                                         *)
Early == {"_start", "master", "get_CurrentEL", "digit", "newline", "get_CurrentEL_ret",
          "el3_eret", "el2_setup", "lost"}
Late  == {"el1_newline", "el1_vbar", "el1_bss", "el1_stack", "uart_init"}
Main  == {"mem_init", "sched_init", "gic_init", "timer_init", "raw_local_irq_enable",
          "paging_init", "idle"}

(* put_string_uart is running and will return to l: lr is in x30, then x6. *)
Printing(l) == \/ At(0, "put_string_uart") /\ x30[0] = l
               \/ At(0, "put_string_loop") /\ x6[0] = l

InEarly == pc[0] \in Early \/ Printing("digit")
InLate  == pc[0] \in Late \/ Printing("el1_newline")

(* Each CPU has its own registers.                                         *)
PerCpu(f) == f = [c \in Cpus |-> f[c]]

TypeOK ==
  /\ PerCpu(pc) /\ PerCpu(x30) /\ PerCpu(x10) /\ PerCpu(x6) /\ PerCpu(left)
  /\ PerCpu(el) /\ PerCpu(masked) /\ PerCpu(mmuOff)
  /\ PerCpu(vbar) /\ PerCpu(sp) /\ PerCpu(sp_el0)

(* All other CPUs stay in _start or hang.                                  *)
Parked == \A c \in Cpus \ {0} : pc[c] \in {"_start", "slave_hang"}

(* The return address of get_CurrentEL survives the calls it makes.        *)
Returns ==
  /\ pc[0] = "get_CurrentEL" => x30[0] \in {"el3_eret", "el2_setup"}
  /\ pc[0] \in {"digit", "newline", "get_CurrentEL_ret"} \/ Printing("digit") =>
       x10[0] \in {"el3_eret", "el2_setup"}

(* What holds where the first CPU is.                                      *)
Progress ==
  \/ InEarly /\ ready = {}
  \/ /\ InLate /\ ready = {}
     /\ el[0] = 1 /\ masked[0] /\ mmuOff[0]
     /\ pc[0] \in {"el1_bss", "el1_stack", "uart_init"} => vbar[0] = "vector_table"
     /\ pc[0] \in {"el1_stack", "uart_init"} => bss = "zero"
     /\ pc[0] = "uart_init" => sp[0] = "LOW_MEMORY" /\ sp_el0[0] = "init_task"
  \/ pc[0] = "print_segment" /\ ready = {"uart_init"}
  \/ pc[0] \in Main /\ bss = "used"

BootInv == TypeOK /\ Parked /\ Returns /\ Progress
------------------------------------------------------------------------------
(* A write to the register of one CPU leaves the others alone.             *)
LEMMA PutOne ==
  ASSUME NEW f, PerCpu(f), NEW c \in Cpus, NEW v
  PROVE  /\ PerCpu([f EXCEPT ![c] = v]) /\ [f EXCEPT ![c] = v][c] = v
         /\ \A d \in Cpus \ {c} : [f EXCEPT ![c] = v][d] = f[d]
<1> DEFINE g == [f EXCEPT ![c] = v]
<1>1. DOMAIN f = Cpus
  BY DEF PerCpu
<1>2. g[c] = v /\ \A d \in Cpus \ {c} : g[d] = f[d]
  BY <1>1
<1>3. PerCpu(g)
  BY <1>1 DEF PerCpu
<1> QED BY <1>2, <1>3

(* Every call of kernel_main leads to the next one.                        *)
LEMMA InitialiseSteps ==
  ASSUME TypeOK, initialise(0)
  PROVE  \/ /\ pc[0] = "uart_init" /\ pc' = [pc EXCEPT ![0] = "print_segment"]
            /\ ready' = ready \cup {"uart_init"} /\ UNCHANGED <<bss, masked>>
         \/ /\ pc[0] \in {"print_segment"} \cup Main /\ bss' = "used"
            /\ \E l \in Main : pc' = [pc EXCEPT ![0] = l]
<1>1. PICK k \in 1 .. 8 : /\ pc[0] = kernel_main[k] /\ Goto(0, kernel_main[k + 1])
                          /\ ready' = ready \cup {kernel_main[k]}
  BY SMTT(30) DEF initialise, kernel_main, At
<1>2. k = 1 \/ k \in 2 .. 8
  BY <1>1, SMTT(30)
<1>3. CASE k = 1
  <2>1. kernel_main[1] = "uart_init" /\ kernel_main[1 + 1] = "print_segment"
    BY SMTT(30) DEF kernel_main
  <2> QED BY <1>1, <1>3, <2>1 DEF initialise, At, Goto
<1>4. CASE k \in 2 .. 8
  <2>1. kernel_main[k] \in {"print_segment"} \cup Main /\ kernel_main[k + 1] \in Main
    BY <1>4, SMTT(30) DEF kernel_main, Main
  <2>2. pc[0] # "uart_init"
    BY <1>1, <2>1 DEF Main
  <2> QED BY <1>1, <2>1, <2>2 DEF initialise, At, Goto
<1> QED BY <1>2, <1>3, <1>4

(* A CPU other than the first takes no step but that of _start.            *)
LEMMA OthersStep ==
  ASSUME BootInv, NEW c \in Cpus \ {0}, step(c)
  PROVE  /\ pc[c] \in {"_start", "slave_hang"} /\ pc'[c] = "slave_hang"
         /\ \A d \in Cpus \ {c} : pc'[d] = pc[d] /\ masked'[d] = masked[d]
         /\ UNCHANGED <<firmwareEL, el, links, vbar, sp, sp_el0, mmuOff, mem>>
         /\ TypeOK'
<1>1. pc[c] \in {"_start", "slave_hang"} /\ TypeOK /\ ~primary(c)
  BY BootAssumption DEF BootInv, Parked, primary
<1>2. _start(c) \/ slave_hang(c)
  <2>1. \A k \in 1 .. Len(kernel_main) - 1 : ~At(c, kernel_main[k])
    BY <1>1, SMTT(30) DEF At, kernel_main
  <2>2. ~initialise(c)
    BY <2>1 DEF initialise
  <2>3. ~put_uart(c)
    BY <1>1, SMTT(30) DEF put_uart, At
  <2> QED
    BY <1>1, <2>2, <2>3
    DEF step, At, master, get_CurrentEL, put_string_uart, put_string_loop,
        get_CurrentEL_ret, lost, el2_entry, el1_vbar, el1_bss, el1_stack, idle, off
<1>3. CASE slave_hang(c)
  BY <1>1, <1>3
  DEF slave_hang, At, vars, links, mem, TypeOK
<1>4. CASE _start(c)
  <2>1. /\ pc' = [pc EXCEPT ![c] = "slave_hang"] /\ masked' = [masked EXCEPT ![c] = TRUE]
        /\ UNCHANGED <<firmwareEL, el, links, vbar, sp, sp_el0, mmuOff, mem>>
    BY <1>1, <1>4 DEF _start, Goto, Put
  <2>2. PerCpu(pc') /\ PerCpu(masked')
    BY <1>1, <2>1, PutOne DEF TypeOK
  <2>3. TypeOK'
    BY <1>1, <2>1, <2>2 DEF TypeOK, links, PerCpu
  <2>4. pc'[c] = "slave_hang" /\ \A d \in Cpus \ {c} : pc'[d] = pc[d]
    <3>1. DOMAIN pc = Cpus
      BY <1>1 DEF TypeOK, PerCpu
    <3>2. /\ [pc EXCEPT ![c] = "slave_hang"][c] = "slave_hang"
          /\ \A d \in Cpus \ {c} : [pc EXCEPT ![c] = "slave_hang"][d] = pc[d]
      BY <3>1
    <3> QED BY <2>1, <3>2
  <2>5. \A d \in Cpus \ {c} : masked'[d] = masked[d]
    <3>1. DOMAIN masked = Cpus
      BY <1>1 DEF TypeOK, PerCpu
    <3>2. \A d \in Cpus \ {c} : [masked EXCEPT ![c] = TRUE][d] = masked[d]
      BY <3>1
    <3> QED BY <2>1, <3>2
  <2> QED BY <1>1, <2>1, <2>3, <2>4, <2>5
<1> QED BY <1>2, <1>3, <1>4

(* The registers keep their types.                                         *)
LEMMA TypeStep ==
  ASSUME TypeOK, step(0)
  PROVE  TypeOK'
<1>1. ASSUME NEW f, PerCpu(f), NEW v PROVE PerCpu(Put(f, 0, v))
  BY <1>1, BootAssumption, PutOne DEF Put
<1>2. UNCHANGED pc \/ \E v : pc' = Put(pc, 0, v)
  BY DEF step, _start, slave_hang, master, get_CurrentEL, put_string_uart,
         put_string_loop, put_uart, get_CurrentEL_ret, lost, el2_entry, el1_vbar,
         el1_bss, el1_stack, initialise, idle, off, vars, Goto, Put
<1>3. UNCHANGED x30 \/ \E v : x30' = Put(x30, 0, v)
  BY DEF step, _start, slave_hang, master, get_CurrentEL, put_string_uart,
         put_string_loop, put_uart, get_CurrentEL_ret, lost, el2_entry, el1_vbar,
         el1_bss, el1_stack, initialise, idle, off, vars, links
<1>4. /\ UNCHANGED x10 \/ \E v : x10' = Put(x10, 0, v)
      /\ UNCHANGED x6 \/ \E v : x6' = Put(x6, 0, v)
      /\ UNCHANGED left \/ \E v : left' = Put(left, 0, v)
  BY DEF step, _start, slave_hang, master, get_CurrentEL, put_string_uart,
         put_string_loop, put_uart, get_CurrentEL_ret, lost, el2_entry, el1_vbar,
         el1_bss, el1_stack, initialise, idle, off, vars, links, saves_lr
<1>5. /\ UNCHANGED el \/ \E v : el' = Put(el, 0, v)
      /\ UNCHANGED masked \/ \E v : masked' = Put(masked, 0, v)
      /\ UNCHANGED mmuOff \/ \E v : mmuOff' = Put(mmuOff, 0, v)
  BY DEF step, _start, slave_hang, master, get_CurrentEL, put_string_uart,
         put_string_loop, put_uart, get_CurrentEL_ret, lost, el2_entry, el1_vbar,
         el1_bss, el1_stack, initialise, idle, off, vars, sys
<1>6. /\ UNCHANGED vbar \/ \E v : vbar' = Put(vbar, 0, v)
      /\ UNCHANGED sp \/ \E v : sp' = Put(sp, 0, v)
      /\ UNCHANGED sp_el0 \/ \E v : sp_el0' = Put(sp_el0, 0, v)
  BY DEF step, _start, slave_hang, master, get_CurrentEL, put_string_uart,
         put_string_loop, put_uart, get_CurrentEL_ret, lost, el2_entry, el1_vbar,
         el1_bss, el1_stack, initialise, idle, off, vars, sys
<1> QED 
  <2>1. PerCpu(pc') /\ PerCpu(x30') /\ PerCpu(x10') /\ PerCpu(x6') /\ PerCpu(left')
    BY <1>1, <1>2, <1>3, <1>4 DEF TypeOK
  <2>2. PerCpu(el') /\ PerCpu(masked') /\ PerCpu(mmuOff')
    BY <1>1, <1>5 DEF TypeOK
  <2>3. PerCpu(vbar') /\ PerCpu(sp') /\ PerCpu(sp_el0')
    BY <1>1, <1>6 DEF TypeOK
  <2> QED BY <2>1, <2>2, <2>3 DEF TypeOK, PerCpu

(* The first CPU's own registers after a write; the others' pc stays.      *)
LEMMA OwnRegisters ==
  ASSUME TypeOK, NEW v
  PROVE  /\ Put(pc, 0, v)[0] = v /\ Put(x30, 0, v)[0] = v /\ Put(x10, 0, v)[0] = v
         /\ Put(x6, 0, v)[0] = v /\ Put(el, 0, v)[0] = v /\ Put(masked, 0, v)[0] = v
         /\ Put(mmuOff, 0, v)[0] = v /\ Put(vbar, 0, v)[0] = v /\ Put(sp, 0, v)[0] = v
         /\ Put(sp_el0, 0, v)[0] = v
         /\ \A c \in Cpus \ {0} : Put(pc, 0, v)[c] = pc[c]
<1>1. /\ DOMAIN pc = Cpus /\ DOMAIN x30 = Cpus /\ DOMAIN x10 = Cpus /\ DOMAIN x6 = Cpus
      /\ DOMAIN el = Cpus /\ DOMAIN masked = Cpus /\ DOMAIN mmuOff = Cpus
      /\ DOMAIN vbar = Cpus /\ DOMAIN sp = Cpus /\ DOMAIN sp_el0 = Cpus
  BY DEF TypeOK, PerCpu
<1> QED BY <1>1, BootAssumption DEF Put

LEMMA GotoOne ==
  ASSUME TypeOK, NEW l, Goto(0, l)
  PROVE  pc'[0] = l /\ \A c \in Cpus \ {0} : pc'[c] = pc[c]
<1>1. DOMAIN pc = Cpus
  BY DEF TypeOK, PerCpu
<1> QED BY <1>1, BootAssumption DEF Goto

(* Where the first CPU is decides which part of Progress holds.            *)
LEMMA Places ==
  ASSUME Progress
  PROVE  /\ InEarly => ready = {}
         /\ InLate =>
              /\ ready = {} /\ el[0] = 1 /\ masked[0] /\ mmuOff[0]
              /\ pc[0] \in {"el1_bss", "el1_stack", "uart_init"} => vbar[0] = "vector_table"
              /\ pc[0] \in {"el1_stack", "uart_init"} => bss = "zero"
              /\ pc[0] = "uart_init" => sp[0] = "LOW_MEMORY" /\ sp_el0[0] = "init_task"
<1>1. InEarly => ~InLate /\ pc[0] # "print_segment" /\ pc[0] \notin Main
  BY DEF InEarly, InLate, Early, Late, Main, Printing, At
<1>2. InLate => pc[0] # "print_segment" /\ pc[0] \notin Main
  BY DEF InLate, Late, Main, Printing, At
<1> QED BY <1>1, <1>2 DEF Progress

(* The first CPU's way from _start to the el1_entry.                       *)
LEMMA EarlyStep ==
  ASSUME BootInv,
         _start(0) \/ master(0) \/ get_CurrentEL(0) \/ get_CurrentEL_ret(0) \/ lost(0)
  PROVE  Returns' /\ Progress'
<1>1. pc[0] \in {"_start", "master", "get_CurrentEL", "get_CurrentEL_ret", "el3_eret",
                 "el2_setup"}
  BY DEF _start, master, get_CurrentEL, get_CurrentEL_ret, lost, At
<1>2. ready = {} /\ TypeOK /\ Returns
  BY <1>1, Places DEF BootInv, InEarly, Early
<1>3. UNCHANGED ready
  BY DEF _start, master, get_CurrentEL, get_CurrentEL_ret, lost, mem
<1>4. /\ Returns'
      /\ pc'[0] \in Early \/ (pc'[0] = "put_string_uart" /\ x30'[0] = "digit")
  <2>1. CASE _start(0)
    <3>1. pc'[0] = "master"
      BY <1>2, <2>1, BootAssumption, GotoOne, SMTT(30) DEF _start, primary
    <3> QED BY <3>1 DEF Returns, Early, Printing, At
  <2>2. CASE master(0)
    <3>1. pc'[0] = "get_CurrentEL" /\ x30'[0] \in {"el3_eret", "el2_setup"}
      BY <1>2, <2>2, GotoOne, OwnRegisters DEF master
    <3> QED BY <3>1 DEF Returns, Early, Printing, At
  <2>3. CASE get_CurrentEL(0)
    <3>1. /\ pc[0] = "get_CurrentEL" /\ pc'[0] = "put_string_uart"
          /\ x10'[0] = x30[0] /\ x30'[0] = "digit"
      BY <1>2, <2>3, GotoOne, OwnRegisters DEF get_CurrentEL, saves_lr, At
    <3> QED BY <1>2, <3>1 DEF Returns
  <2>4. CASE get_CurrentEL_ret(0)
    <3>1. pc[0] = "get_CurrentEL_ret" /\ pc'[0] = x10[0]
      BY <1>2, <2>4, GotoOne DEF get_CurrentEL_ret, At
    <3> QED BY <1>2, <3>1 DEF Returns, Early, Printing, At
  <2>5. CASE lost(0)
    <3>1. pc'[0] = "lost"
      BY <1>2, <2>5, GotoOne DEF lost
    <3> QED BY <3>1 DEF Returns, Early, Printing, At
  <2> QED BY <2>1, <2>2, <2>3, <2>4, <2>5
<1> QED BY <1>2, <1>3, <1>4 DEF Progress, InEarly, Printing, At

(* put_string_uart and put_uart, called from get_CurrentEL and el1_entry.  *)
LEMMA PrintStep ==
  ASSUME BootInv, put_string_uart(0) \/ put_string_loop(0) \/ put_uart(0)
  PROVE  Returns' /\ Progress'
<1>1. TypeOK /\ Returns /\ Progress
  BY DEF BootInv
<1>2. UNCHANGED <<x10, el, masked, mmuOff, vbar, sp, sp_el0, bss, ready>>
  BY DEF put_string_uart, put_string_loop, put_uart, sys, mem
<1>3. ASSUME InEarly, x10[0] \in {"el3_eret", "el2_setup"},
             pc'[0] \in {"digit", "newline", "get_CurrentEL_ret"} \/ Printing("digit")'
      PROVE  Returns' /\ Progress'
  <2>1. InEarly'
    BY <1>3 DEF InEarly, Early
  <2>2. ready' = {}
    BY <1>1, <1>2, <1>3, Places
  <2>3. Returns'
    BY <1>2, <1>3 DEF Returns, Printing, At
  <2> QED BY <2>1, <2>2, <2>3 DEF Progress
<1>4. ASSUME InLate, pc'[0] \in {"el1_newline", "el1_vbar"} \/ Printing("el1_newline")'
      PROVE  Returns' /\ Progress'
  <2>1. InLate' /\ pc'[0] \notin {"el1_bss", "el1_stack", "uart_init"}
    BY <1>4 DEF InLate, Late, Printing, At
  <2>2. ready' = {} /\ el'[0] = 1 /\ masked'[0] /\ mmuOff'[0]
    BY <1>1, <1>2, <1>4, Places
  <2>3. Returns'
    BY <1>4 DEF Returns, Printing, At
  <2> QED BY <2>1, <2>2, <2>3 DEF Progress
<1>5. CASE put_string_uart(0)
  <2>1. pc[0] = "put_string_uart" /\ pc'[0] = "put_string_loop" /\ x6'[0] = x30[0]
    BY <1>1, <1>5, GotoOne, OwnRegisters DEF put_string_uart, At
  <2>2. x30[0] \in {"digit", "el1_newline"}
    BY <1>1, <2>1 DEF Progress, InEarly, InLate, Early, Late, Main, Printing, At
  <2>3. CASE x30[0] = "digit"
    <3>1. Printing("digit") /\ Printing("digit")'
      BY <2>1, <2>3 DEF Printing, At
    <3> QED BY <1>1, <1>3, <3>1 DEF Returns, InEarly
  <2>4. CASE x30[0] = "el1_newline"
    <3>1. Printing("el1_newline") /\ Printing("el1_newline")'
      BY <2>1, <2>4 DEF Printing, At
    <3> QED BY <1>4, <3>1 DEF InLate
  <2> QED BY <2>2, <2>3, <2>4
<1>6. CASE put_string_loop(0)
  <2>1. /\ pc[0] = "put_string_loop" /\ UNCHANGED x6
        /\ pc'[0] = x6[0] \/ pc'[0] = "put_string_loop"
    BY <1>1, <1>6, GotoOne DEF put_string_loop, At
  <2>2. x6[0] \in {"digit", "el1_newline"}
    BY <1>1, <2>1 DEF Progress, InEarly, InLate, Early, Late, Main, Printing, At
  <2>3. CASE x6[0] = "digit"
    <3>1. Printing("digit") /\ (pc'[0] = "digit" \/ Printing("digit")')
      BY <2>1, <2>3 DEF Printing, At
    <3> QED BY <1>1, <1>3, <3>1 DEF Returns, InEarly
  <2>4. CASE x6[0] = "el1_newline"
    <3>1. Printing("el1_newline") /\ (pc'[0] = "el1_newline" \/ Printing("el1_newline")')
      BY <2>1, <2>4 DEF Printing, At
    <3> QED BY <1>4, <3>1 DEF InLate
  <2> QED BY <2>2, <2>3, <2>4
<1>7. CASE put_uart(0)
  <2>1. PICK s \in {<<"digit", "newline">>, <<"newline", "get_CurrentEL_ret">>,
                    <<"el1_newline", "el1_vbar">>} : pc[0] = s[1] /\ pc'[0] = s[2]
    BY <1>1, <1>7, GotoOne DEF put_uart, At
  <2>2. \/ pc[0] \in {"digit", "newline"} /\ pc'[0] \in {"newline", "get_CurrentEL_ret"}
        \/ pc[0] = "el1_newline" /\ pc'[0] = "el1_vbar"
    BY <2>1, SMTT(30)
  <2>3. CASE pc[0] \in {"digit", "newline"} /\ pc'[0] \in {"newline", "get_CurrentEL_ret"}
    BY <1>1, <1>3, <2>3 DEF Returns, InEarly, Early
  <2>4. CASE pc[0] = "el1_newline" /\ pc'[0] = "el1_vbar"
    BY <1>4, <2>4 DEF InLate, Late
  <2> QED BY <2>2, <2>3, <2>4
<1> QED BY <1>5, <1>6, <1>7

(* el2_entry drops to EL1; el1_entry prepares the call of kernel_main.     *)
LEMMA LateStep ==
  ASSUME BootInv, el2_entry(0) \/ el1_vbar(0) \/ el1_bss(0) \/ el1_stack(0)
  PROVE  Returns' /\ Progress'
<1>1. TypeOK /\ Progress
  BY DEF BootInv
<1>2. CASE el2_entry(0)
  <2>1. /\ pc[0] = "el2_setup" /\ pc'[0] = "put_string_uart" /\ x30'[0] = "el1_newline"
        /\ el'[0] = 1 /\ masked'[0] = TRUE /\ mmuOff'[0] = TRUE /\ UNCHANGED ready
    BY <1>1, <1>2, GotoOne, OwnRegisters DEF el2_entry, At, spsr_masks, mem
  <2>2. ready = {}
    BY <1>1, <2>1, Places DEF InEarly, Early
  <2>3. Printing("el1_newline")' /\ ~Printing("digit")'
    BY <2>1 DEF Printing, At
  <2> QED BY <2>1, <2>2, <2>3 DEF Progress, Returns, InLate
<1>3. CASE el1_vbar(0)
  <2>1. /\ pc[0] = "el1_vbar" /\ pc'[0] = "el1_bss" /\ vbar'[0] = "vector_table"
        /\ UNCHANGED <<el, masked, mmuOff, ready>>
    BY <1>1, <1>3, GotoOne, OwnRegisters DEF el1_vbar, At, mem
  <2>2. InLate /\ InLate'
    BY <2>1 DEF InLate, Late
  <2> QED BY <1>1, <2>1, <2>2, Places DEF Progress, Returns, Printing, At
<1>4. CASE el1_bss(0)
  <2>1. /\ pc[0] = "el1_bss" /\ pc'[0] = "el1_stack" /\ bss' = "zero"
        /\ UNCHANGED <<el, masked, mmuOff, vbar, ready>>
    BY <1>1, <1>4, GotoOne DEF el1_bss, At, sys
  <2>2. InLate /\ InLate'
    BY <2>1 DEF InLate, Late
  <2> QED BY <1>1, <2>1, <2>2, Places DEF Progress, Returns, Printing, At
<1>5. CASE el1_stack(0)
  <2>1. /\ pc[0] = "el1_stack" /\ pc'[0] = "uart_init"
        /\ sp'[0] = "LOW_MEMORY" /\ sp_el0'[0] = "init_task"
        /\ UNCHANGED <<el, masked, mmuOff, vbar, bss, ready>>
    BY <1>1, <1>5, GotoOne, OwnRegisters DEF el1_stack, At, mem
  <2>2. InLate /\ InLate'
    BY <2>1 DEF InLate, Late
  <2> QED BY <1>1, <2>1, <2>2, Places DEF Progress, Returns, Printing, At
<1> QED BY <1>2, <1>3, <1>4, <1>5

(* The calls of kernel_main.                                               *)
LEMMA InitialiseStep ==
  ASSUME BootInv, initialise(0)
  PROVE  Returns' /\ Progress'
<1>1. TypeOK /\ Progress /\ DOMAIN pc = Cpus /\ 0 \in Cpus
  BY BootAssumption DEF BootInv, TypeOK, PerCpu
<1>2. CASE /\ pc[0] = "uart_init" /\ pc' = [pc EXCEPT ![0] = "print_segment"]
           /\ ready' = ready \cup {"uart_init"} /\ UNCHANGED <<bss, masked>>
  <2>1. pc'[0] = "print_segment" /\ ready = {}
    BY <1>1, <1>2, Places DEF InLate, Late
  <2>2. ready' = {"uart_init"}
    BY <1>2, <2>1
  <2> QED BY <2>1, <2>2 DEF Progress, Returns, Printing, At
<1>3. CASE bss' = "used" /\ \E l \in Main : pc' = [pc EXCEPT ![0] = l]
  <2>1. pc'[0] \in Main
    BY <1>1, <1>3
  <2> QED BY <1>3, <2>1 DEF Progress, Returns, Printing, At, Main
<1> QED BY <1>1, <1>2, <1>3, InitialiseSteps

LEMMA BootInit == Init => BootInv
<1> SUFFICES ASSUME Init PROVE BootInv
  OBVIOUS
<1>1. pc = [c \in Cpus |-> "_start"] /\ ready = {}
  BY DEF Init
<1>2. TypeOK
  BY DEF Init, TypeOK, PerCpu
<1>3. \A c \in Cpus : pc[c] = "_start"
  BY <1>1
<1>4. pc[0] = "_start"
  BY <1>3, BootAssumption
<1> QED
  BY <1>1, <1>2, <1>3, <1>4
  DEF BootInv, Parked, Returns, Progress, InEarly, Early, Printing, At

LEMMA BootStep ==
  ASSUME BootInv, [Next]_vars
  PROVE  BootInv'
<1>1. CASE UNCHANGED vars
  BY <1>1
  DEF BootInv, TypeOK, Parked, Returns, Progress, InEarly, InLate, Printing, At, vars,
      PerCpu
<1>2. ASSUME NEW c \in Cpus \ {0}, step(c) PROVE BootInv'
  <2>1. TypeOK' /\ pc'[0] = pc[0] /\ masked'[0] = masked[0]
    BY <1>2, BootAssumption, OthersStep
  <2>2. UNCHANGED <<el, x30, x10, x6, vbar, sp, sp_el0, mmuOff, bss, ready>>
    BY <1>2, OthersStep DEF links, mem
  <2>3. Parked'
    BY <1>2, OthersStep DEF BootInv, Parked
  <2>4. Returns' /\ Progress'
    BY <2>1, <2>2 DEF BootInv, Returns, Progress, InEarly, InLate, Printing, At
  <2> QED BY <2>1, <2>3, <2>4 DEF BootInv
<1>3. ASSUME step(0) PROVE BootInv'
  <2>1. TypeOK'
    BY <1>3, TypeStep DEF BootInv
  <2>2. Parked'
    <3>1. \A c \in Cpus \ {0} : pc'[c] = pc[c]
      <4>1. UNCHANGED pc \/ \E l : Goto(0, l)
        BY <1>3
        DEF step, _start, slave_hang, master, get_CurrentEL, put_string_uart,
            put_string_loop, put_uart, get_CurrentEL_ret, lost, el2_entry, el1_vbar,
            el1_bss, el1_stack, initialise, idle, off, vars
      <4> QED BY <4>1, GotoOne DEF BootInv
    <3> QED BY <3>1 DEF BootInv, Parked
  <2>3. Returns' /\ Progress'
    <3>1. CASE slave_hang(0) \/ idle(0) \/ off(0)
      BY <1>1, <3>1 DEF slave_hang, idle, off, BootInv
    <3> QED
      BY <1>3, <3>1, EarlyStep, PrintStep, LateStep, InitialiseStep DEF step
  <2> QED BY <2>1, <2>2, <2>3 DEF BootInv
<1> QED BY <1>1, <1>2, <1>3, BootAssumption DEF Next

LEMMA BootInvariant == Spec => []BootInv
<1>1. BootInv /\ [Next]_vars => BootInv'
  BY BootStep
<1> QED BY <1>1, BootInit, PTL DEF Spec

(* kernel_main is entered at EL1 with IRQs and MMU off, vectors, bss,      *)
(* stack and current set up, from whatever the firmware left, on whatever  *)
(* number of CPUs, and for boot strings of every length.                   *)
THEOREM KernelMainEntry == Spec => []KernelEntry
<1>1. BootInv => KernelEntry
  <2> SUFFICES ASSUME BootInv, NEW c \in Cpus, pc[c] = "uart_init"
               PROVE  /\ el[c] = 1 /\ masked[c] /\ mmuOff[c] /\ bss = "zero"
                      /\ vbar[c] = "vector_table" /\ sp[c] = "LOW_MEMORY"
                      /\ sp_el0[c] = "init_task"
    BY DEF KernelEntry
  <2>1. c = 0
    BY DEF BootInv, Parked
  <2>2. InLate
    BY <2>1 DEF InLate, Late
  <2> QED BY <2>1, <2>2, Places DEF BootInv
<1> QED BY <1>1, BootInvariant, PTL

(* The memset of el1_entry never runs again once kernel_main has stored    *)
(* into the bss, however late the firmware releases the other CPUs.        *)
THEOREM BssNotClearedAgain == Spec => []BssKept
<1>1. BootInv => BssKept
  BY DEF BootInv, Progress, BssKept
<1> QED BY <1>1, BootInvariant, PTL
==============================================================================
