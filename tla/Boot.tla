--------------------------------- MODULE Boot ---------------------------------
(***************************************************************************)
(* From the firmware to the idle loop: arch/arm64/core/start.S and         *)
(* early_uart.S, which run without a stack and keep return addresses in    *)
(* x30, x10 and x6, on every CPU the firmware releases, and the order of   *)
(* the initialisers in kernel_main.                                        *)
(***************************************************************************)
EXTENDS Naturals, Sequences

CONSTANTS Cpus,      \* affinity values of the CPUs that enter _start
          StrLen     \* bytes of a boot string before its NUL

(* The CPUs are those of one cluster: their lowest affinity field, the     *)
(* byte that _start tests, differs.                                        *)
ASSUME BootAssumption ==
  /\ Cpus \subseteq Nat /\ 0 \in Cpus /\ \A c \in Cpus : c % 256 = 0 => c = 0
  /\ StrLen \in Nat

VARIABLES
  firmwareEL,                    \* exception level at which _start is entered
  pc, el, masked, x30, x10, x6, left,   \* per CPU; left: bytes of the string
  vbar, sp, sp_el0, mmuOff,      \* system registers of the CPU, per CPU
  bss,                           \* "garbage", "zero", or "used" by kernel_main
  ready                          \* what kernel_main has initialised

links == <<x30, x10, x6, left>>
sys   == <<el, masked, vbar, sp, sp_el0, mmuOff>>
mem   == <<bss, ready>>
vars  == <<firmwareEL, pc, el, masked, x30, x10, x6, left, vbar, sp, sp_el0, mmuOff,
           bss, ready>>

Init ==
  /\ firmwareEL \in {1, 2, 3}
  /\ pc = [c \in Cpus |-> "_start"]
  /\ el = [c \in Cpus |-> firmwareEL]
  /\ masked \in {[c \in Cpus |-> b] : b \in BOOLEAN}
  /\ x30 = [c \in Cpus |-> "none"] /\ x10 = x30 /\ x6 = x30
  /\ left = [c \in Cpus |-> 0]
  /\ vbar = [c \in Cpus |-> "none"] /\ sp = vbar /\ sp_el0 = vbar
  /\ mmuOff \in {[c \in Cpus |-> b] : b \in BOOLEAN}
  /\ bss = "garbage" /\ ready = {}
------------------------------------------------------------------------------
At(c, l)      == pc[c] = l
Goto(c, l)    == pc' = [pc EXCEPT ![c] = l]
Put(f, c, v)  == [f EXCEPT ![c] = v]

(* Slip: another affinity field is tested.                                 *)
primary_by_cluster(c) == c \div 256 = 0

(* mpidr_el1 & 0xFF = 0                                                    *)
primary(c) == c % 256 = 0

_start(c) ==
  /\ At(c, "_start") /\ Goto(c, IF primary(c) THEN "master" ELSE "slave_hang")
  /\ masked' = Put(masked, c, TRUE)
  /\ UNCHANGED <<firmwareEL, el, links, vbar, sp, sp_el0, mmuOff, mem>>

slave_hang(c) == At(c, "slave_hang") /\ UNCHANGED vars

(* __init_uart, then the branch on CurrentEL; both entries begin with      *)
(* bl get_CurrentEL.                                                       *)
master(c) ==
  /\ At(c, "master") /\ Goto(c, "get_CurrentEL")
  /\ x30' = Put(x30, c, IF el[c] = 3 THEN "el3_eret" ELSE "el2_setup")
  /\ UNCHANGED <<firmwareEL, sys, x10, x6, left, mem>>

(* Slip: lr is not kept.                                                   *)
saves_no_lr(c) == UNCHANGED x10

saves_lr(c) == x10' = Put(x10, c, x30[c])

get_CurrentEL(c) ==
  /\ At(c, "get_CurrentEL") /\ Goto(c, "put_string_uart")
  /\ saves_lr(c)
  /\ x30' = Put(x30, c, "digit") /\ left' = Put(left, c, StrLen)
  /\ UNCHANGED <<firmwareEL, sys, x6, mem>>

put_string_uart(c) ==
  /\ At(c, "put_string_uart") /\ Goto(c, "put_string_loop")
  /\ x6' = Put(x6, c, x30[c])
  /\ UNCHANGED <<firmwareEL, sys, x30, x10, left, mem>>

(* One byte, by bl put_uart.  The NUL is sent too, then the loop ends.     *)
put_string_loop(c) ==
  /\ At(c, "put_string_loop")
  /\ IF left[c] = 0
       THEN x30' = Put(x30, c, x6[c]) /\ Goto(c, x6[c]) /\ UNCHANGED left
       ELSE x30' = Put(x30, c, "put_string_loop") /\ UNCHANGED pc
            /\ left' = Put(left, c, left[c] - 1)
  /\ UNCHANGED <<firmwareEL, sys, x10, x6, mem>>

(* bl put_uart with the digit of the level, or with a newline.             *)
put_uart(c) ==
  /\ \E s \in {<<"digit", "newline">>, <<"newline", "get_CurrentEL_ret">>,
               <<"el1_newline", "el1_vbar">>} :
       At(c, s[1]) /\ Goto(c, s[2]) /\ x30' = Put(x30, c, s[2])
  /\ UNCHANGED <<firmwareEL, sys, x10, x6, left, mem>>

get_CurrentEL_ret(c) ==
  /\ At(c, "get_CurrentEL_ret") /\ Goto(c, x10[c])
  /\ x30' = Put(x30, c, x10[c])
  /\ UNCHANGED <<firmwareEL, sys, x10, x6, left, mem>>

(* el3_entry executes eret with an ELR_EL3 nobody wrote; el2_entry at EL1  *)
(* faults on HCR_EL2 with no vectors.                                      *)
lost(c) ==
  /\ At(c, "el3_eret") \/ (At(c, "el2_setup") /\ el[c] = 1)
  /\ Goto(c, "lost")
  /\ UNCHANGED <<firmwareEL, sys, links, mem>>

(* Slip: the saved state leaves IRQs enabled.                              *)
spsr_masks_unset == FALSE

(* SPSR_EL1 = SPSR_MASK_ALL | SPSR_EL1h                                    *)
spsr_masks == TRUE

(* HCR_EL2, SCTLR_EL1 with the MMU off (read back into x6, which is dead), *)
(* SPSR_EL2, ELR_EL2 and eret; then el1_entry up to bl put_string_uart.    *)
el2_entry(c) ==
  /\ At(c, "el2_setup") /\ el[c] = 2 /\ Goto(c, "put_string_uart")
  /\ el' = Put(el, c, 1) /\ masked' = Put(masked, c, spsr_masks)
  /\ mmuOff' = Put(mmuOff, c, TRUE)
  /\ x30' = Put(x30, c, "el1_newline") /\ left' = Put(left, c, StrLen)
  /\ UNCHANGED <<firmwareEL, vbar, sp, sp_el0, x10, x6, mem>>

(* The rest of el1_entry: vectors; bss; current, stack and bl kernel_main. *)
el1_vbar(c) ==
  /\ At(c, "el1_vbar") /\ Goto(c, "el1_bss")
  /\ vbar' = Put(vbar, c, "vector_table")
  /\ UNCHANGED <<firmwareEL, el, masked, sp, sp_el0, mmuOff, links, mem>>

el1_bss(c) ==
  /\ At(c, "el1_bss") /\ Goto(c, "el1_stack")
  /\ bss' = "zero" /\ x30' = Put(x30, c, "el1_stack")
  /\ UNCHANGED <<firmwareEL, sys, x10, x6, left, ready>>

el1_stack(c) ==
  /\ At(c, "el1_stack") /\ Goto(c, "uart_init")
  /\ sp_el0' = Put(sp_el0, c, "init_task") /\ sp' = Put(sp, c, "LOW_MEMORY")
  /\ x30' = Put(x30, c, "slave_hang")
  /\ UNCHANGED <<firmwareEL, el, masked, vbar, mmuOff, x10, x6, left, mem>>
------------------------------------------------------------------------------
(* The calls of kernel_main in their order; print_segment is the first to  *)
(* write to the bss, into the buffer of printk.                            *)
kernel_main ==
  <<"uart_init", "print_segment", "mem_init", "sched_init", "gic_init", "timer_init",
    "raw_local_irq_enable", "paging_init", "idle">>

initialise(c) ==
  /\ \E k \in 1 .. Len(kernel_main) - 1 :
       /\ At(c, kernel_main[k]) /\ Goto(c, kernel_main[k + 1])
       /\ ready' = ready \cup {kernel_main[k]}
  /\ masked' = IF At(c, "raw_local_irq_enable") THEN Put(masked, c, FALSE) ELSE masked
  /\ bss' = IF At(c, "uart_init") THEN bss ELSE "used"
  /\ UNCHANGED <<firmwareEL, el, vbar, sp, sp_el0, mmuOff, links>>

idle(c) == At(c, "idle") /\ UNCHANGED vars

off(c) == At(c, "lost") /\ UNCHANGED vars

step(c) == \/ _start(c) \/ slave_hang(c) \/ master(c) \/ get_CurrentEL(c)
           \/ put_string_uart(c) \/ put_string_loop(c) \/ put_uart(c)
           \/ get_CurrentEL_ret(c) \/ lost(c) \/ el2_entry(c) \/ el1_vbar(c)
           \/ el1_bss(c) \/ el1_stack(c) \/ initialise(c) \/ idle(c) \/ off(c)

Next == \E c \in Cpus : step(c)

(* Every CPU executes.                                                     *)
Spec == Init /\ [][Next]_vars /\ \A c \in Cpus : WF_vars(step(c))
------------------------------------------------------------------------------
(* kernel_main starts at EL1 with IRQs masked, the MMU off, the vectors    *)
(* installed, a cleared bss, the boot stack and init_task as current,      *)
(* whatever the firmware had set.                                          *)
KernelEntry ==
  \A c \in Cpus : pc[c] = "uart_init" =>
    /\ el[c] = 1 /\ masked[c] /\ mmuOff[c] /\ bss = "zero"
    /\ vbar[c] = "vector_table" /\ sp[c] = "LOW_MEMORY" /\ sp_el0[c] = "init_task"

(* What kernel_main has stored in the bss is never cleared again: the      *)
(* other CPUs the firmware releases, however late, are parked before they  *)
(* reach the memset of el1_entry.                                          *)
BssKept == "print_segment" \in ready => bss = "used"

(* Entered at EL2, the first CPU reaches the idle loop: each of the nested *)
(* calls without a stack finds its way back.                               *)
Boots == firmwareEL = 2 => <>(pc[0] = "idle")
==============================================================================
