------------------------------- MODULE Console -------------------------------
(***************************************************************************)
(* The console: printk() of kernel/printk.c, which formats into one static *)
(* buffer and sends it byte by byte, putchar() and uart_send() of          *)
(* drivers/serial/pl_uart.c, the transmit FIFO, and the interrupts and     *)
(* preemptions that come between any two of their steps.                   *)
(*                                                                         *)
(* A byte is <<context, index>> of the line it belongs to; the last byte   *)
(* of a line is its newline.                                               *)
(***************************************************************************)
EXTENDS Naturals, Sequences, SequencesExt

CONSTANTS Threads, boot_cpu, irq,  \* contexts; boot_cpu prints with IRQs masked
          ThreadLine, IrqLine,   \* bytes of a line that a thread, the handler prints
          FifoDepth,       \* bytes the transmit FIFO holds
          MaxIrqs          \* bound: interrupts taken

Context == Threads \cup {boot_cpu, irq}

ASSUME ConsoleAssumption ==
  /\ ThreadLine \in Nat \ {0} /\ IrqLine \in Nat \ {0}
  /\ FifoDepth \in Nat \ {0} /\ MaxIrqs \in Nat

VARIABLES
  print_buf,
  loc,       \* loc[c]: control and locals of c inside printk
  cpu,       \* the context that executes
  irqs,      \* interrupts still to come
  fifo, wire,         \* transmit FIFO, what left it
  hit        \* hit[c]: another context has run since c entered printk

uart == <<fifo, wire>>
vars == <<print_buf, loc, cpu, irqs, fifo, wire, hit>>

LineLen  == [c \in Context |-> IF c = irq THEN IrqLine ELSE ThreadLine]
NUL      == <<"nul">>
CR       == <<"cr">>
Line(c)  == [k \in 1 .. LineLen[c] |-> <<c, k>>]
Newline(b) == b \in {<<c, LineLen[c]>> : c \in Context}
Size     == 1 + (IF IrqLine > ThreadLine THEN IrqLine ELSE ThreadLine)

(* What a whole line looks like on the wire.                               *)
Whole(c) == SubSeq(Line(c), 1, LineLen[c] - 1) \o <<CR, <<c, LineLen[c]>>>>

Idle == [pc |-> "idle", len |-> 0, i |-> 0, ch |-> NUL]

Init ==
  /\ print_buf = [k \in 1 .. Size |-> NUL]
  /\ loc = [c \in Context |-> Idle]
  /\ cpu = boot_cpu
  /\ irqs = MaxIrqs
  /\ fifo = <<>> /\ wire = <<>>
  /\ hit = [c \in Context |-> FALSE]
------------------------------------------------------------------------------
At(pc) == loc[cpu].pc = pc
Set(new) == loc' = [loc EXCEPT ![cpu] = new]
Goto(pc) == Set([loc[cpu] EXCEPT !.pc = pc])

printk ==
  /\ At("idle")
  /\ Set([Idle EXCEPT !.pc = "myprintf"])
  /\ hit' = [hit EXCEPT ![cpu] = FALSE]
  /\ UNCHANGED <<print_buf, cpu, irqs, uart>>

(* One byte of the line, and at the end the terminator; myprintf returns   *)
(* the number of bytes.                                                    *)
myprintf ==
  /\ At("myprintf")
  /\ LET l == loc[cpu]
         full == l.len = LineLen[cpu] IN
     /\ print_buf' = [print_buf EXCEPT ![l.len + 1] = IF full THEN NUL ELSE Line(cpu)[l.len + 1]]
     /\ Set(IF full THEN [l EXCEPT !.pc = "loop"] ELSE [l EXCEPT !.len = @ + 1])
  /\ UNCHANGED <<cpu, irqs, uart, hit>>

(* The local i of the loop in printk.                                      *)
index == loc[cpu].i

(* The loop of printk: the next byte goes to putchar, which sends a        *)
(* carriage return before a newline.                                       *)
loop ==
  /\ At("loop") /\ index < loc[cpu].len
  /\ LET b == print_buf[index + 1] IN
     Set([loc[cpu] EXCEPT !.pc = IF Newline(b) THEN "putchar_cr" ELSE "putchar",
                          !.ch = b, !.i = index + 1])
  /\ UNCHANGED <<print_buf, cpu, irqs, uart, hit>>

(* Slip: the flag register is not read.                                    *)
uart_ready_always == TRUE

(* Slip: the flag is tested the wrong way round.                           *)
uart_ready_when_full == Len(fifo) = FifoDepth

(* uart_send() waits until the FIFO-full flag is clear.                    *)
uart_ready == Len(fifo) < FifoDepth

uart_poll ==
  /\ \/ At("putchar_cr") /\ Goto("write_cr")
     \/ At("putchar") /\ Goto("write")
  /\ uart_ready
  /\ UNCHANGED <<print_buf, cpu, irqs, uart, hit>>

uart_wait ==
  /\ At("putchar_cr") \/ At("putchar")
  /\ ~uart_ready /\ UNCHANGED vars

(* The data register: a full FIFO drops the byte.                          *)
Write(b) ==
  fifo' = IF Len(fifo) < FifoDepth THEN Append(fifo, b) ELSE fifo

uart_send ==
  /\ \/ At("write_cr") /\ Write(CR) /\ Goto("putchar")
     \/ At("write") /\ Write(loc[cpu].ch) /\ Goto("loop")
  /\ UNCHANGED <<print_buf, cpu, irqs, wire, hit>>

(* printk returns.  boot_cpu goes on as a thread, with IRQs enabled; the   *)
(* handler returns to any thread, for it may end in a preemption.          *)
printk_return ==
  /\ At("loop") /\ index >= loc[cpu].len
  /\ Goto(IF cpu = irq THEN "idle" ELSE "returned")
  /\ cpu' \in IF cpu \in {irq, boot_cpu} THEN Threads ELSE {cpu}
  /\ hit' = [c \in Context |-> hit[c] \/ c # cpu']
  /\ UNCHANGED <<print_buf, irqs, uart>>

timer_irq ==
  /\ cpu \in Threads /\ irqs > 0
  /\ cpu' = irq /\ irqs' = irqs - 1
  /\ hit' = [c \in Context |-> c # irq]
  /\ loc' = [loc EXCEPT ![irq] = Idle]
  /\ UNCHANGED <<print_buf, uart>>

(* The UART shifts a byte out.                                             *)
transmit ==
  /\ fifo # <<>>
  /\ wire' = Append(wire, Head(fifo)) /\ fifo' = Tail(fifo)
  /\ UNCHANGED <<print_buf, loc, cpu, irqs, hit>>

(* A thread that has printed goes on with other work.                      *)
elsewhere == At("returned") /\ UNCHANGED vars

kernel == printk \/ myprintf \/ loop \/ uart_poll \/ uart_send \/ printk_return

Next == kernel \/ timer_irq \/ transmit \/ uart_wait \/ elsewhere

(* The CPU executes, and the UART sends what its FIFO holds.               *)
Spec == Init /\ [][Next]_vars /\ WF_vars(kernel) /\ WF_vars(transmit)
------------------------------------------------------------------------------
AtEnd == At("loop") /\ index >= loc[cpu].len

(* A line during whose printk no other context ran goes out whole, in one  *)
(* piece, with \r\n at its end and no byte lost: every line of the boot    *)
(* code and of the interrupt handler, which run with IRQs masked, and the  *)
(* line of a thread that was not interrupted, although the buffer may hold *)
(* the rest of a longer line that somebody else is still sending.          *)
WholeUnlessHit ==
  AtEnd /\ ~hit[cpu] => IsSuffix(Whole(cpu), wire \o fifo)

(* A printk with IRQs masked, of the boot code or of the handler, spins on *)
(* the UART until there is room for every byte, and comes back.            *)
MaskedPrintkFinishes == (cpu \in {boot_cpu, irq}) ~> (cpu \in Threads)
==============================================================================
