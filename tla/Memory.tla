-------------------------------- MODULE Memory --------------------------------
(***************************************************************************)
(* memset of arch/arm64/lib/memset.S, instruction by instruction where it  *)
(* branches, and memcpy and strlen of lib/string.c, on a small memory.     *)
(***************************************************************************)
EXTENDS Integers

CONSTANTS Size       \* bytes of memory

VARIABLES mem, call, pc, x4, x2, src

vars == <<mem, call, pc, x4, x2, src>>

Addr == 0 .. Size - 1

(* memory: every byte tells where it came from; a NUL ends the memory.     *)
Old == [a \in Addr |-> IF a = Size - 1 THEN <<"nul", 0>> ELSE <<"old", a>>]
Fill == <<"c", 0>>

(* x0, n and for memcpy the source; the two ranges of a memcpy must not    *)
(* overlap unless the destination lies below the source.                   *)
Calls ==
  {[fn |-> "memset", buf |-> b, n |-> n, from |-> 0] : b \in Addr, n \in 0 .. Size - 1}
  \cup {[fn |-> "memcpy", buf |-> b, n |-> n, from |-> f] :
          b \in Addr, n \in 0 .. Size - 1, f \in Addr}
  \cup {[fn |-> "strlen", buf |-> b, n |-> 0, from |-> 0] : b \in Addr}

Legal(c) == /\ c.buf + c.n <= Size - 1 \/ c.fn = "strlen"
            /\ c.fn = "memcpy" => /\ c.from + c.n <= Size - 1
                                  /\ c.buf < c.from \/ c.from + c.n <= c.buf

Init ==
  /\ mem = Old
  /\ call \in {c \in Calls : Legal(c)}
  /\ pc = call.fn /\ x4 = call.buf /\ x2 = call.n /\ src = call.from
------------------------------------------------------------------------------
(* str of `bytes` bytes with post-increment.                               *)
Str(bytes) ==
  /\ mem' = [a \in Addr |-> IF a \in x4 .. x4 + bytes - 1 THEN Fill ELSE mem[a]]
  /\ x4' = x4 + bytes

(* subs x2, x2, #8 and b.mi, before the loop and at its end.               *)
memset ==
  /\ pc = "memset"
  /\ x2' = x2 - 8 /\ pc' = IF x2' < 0 THEN "tail4" ELSE "fill8"
  /\ UNCHANGED <<mem, call, x4, src>>

fill8 ==
  /\ pc = "fill8" /\ pc' = "memset"
  /\ Str(8)
  /\ UNCHANGED <<call, x2, src>>

(* Slip: a tail that was written is not taken off again.                   *)
tail_left_forgotten(k) == x2 + k

(* adds x2, x2, #k; b.mi skips the store, else sub x2, x2, #k and store.   *)
tail_left(k) == IF x2 + k < 0 THEN x2 + k ELSE x2

tail(k, here, next) ==
  /\ pc = here /\ pc' = next
  /\ x2' = tail_left(k)
  /\ IF x2 + k < 0 THEN UNCHANGED <<mem, x4>> ELSE Str(k)
  /\ UNCHANGED <<call, src>>

tails == tail(4, "tail4", "tail2") \/ tail(2, "tail2", "tail1") \/ tail(1, "tail1", "ret")

copies_on == x2 > 0

memcpy ==
  /\ pc = "memcpy"
  /\ IF copies_on THEN /\ mem' = [mem EXCEPT ![x4] = mem[src]]
                       /\ x4' = x4 + 1 /\ src' = src + 1 /\ x2' = x2 - 1 /\ UNCHANGED pc
                  ELSE pc' = "ret" /\ UNCHANGED <<mem, x4, x2, src>>
  /\ UNCHANGED call

(* x2 counts what strlen has passed.                                       *)
strlen ==
  /\ pc = "strlen"
  /\ IF mem[x4][1] # "nul" THEN x4' = x4 + 1 /\ x2' = x2 + 1 /\ UNCHANGED pc
                           ELSE pc' = "ret" /\ UNCHANGED <<x4, x2>>
  /\ UNCHANGED <<mem, call, src>>

ret == pc = "ret" /\ UNCHANGED vars

Next == memset \/ fill8 \/ tails \/ memcpy \/ strlen \/ ret

Spec == Init /\ [][Next]_vars /\ WF_vars(Next)
------------------------------------------------------------------------------
(* memset sets its n bytes and no other, for every length around the steps *)
(* of 8, 4, 2 and 1; memcpy copies its n bytes and no other, also downwards *)
(* over an overlap; strlen stops at the first NUL.  Not even on the way is *)
(* a byte outside the buffer written, to be put right later.               *)
ResultExact ==
  LET buffer == call.buf .. call.buf + call.n - 1 IN
  /\ \A a \in Addr \ buffer : mem[a] = Old[a]
  /\ pc = "ret" =>
       IF call.fn = "strlen" THEN x2 = Size - 1 - call.buf
       ELSE \A a \in buffer : mem[a] = IF call.fn = "memset" THEN Fill
                                       ELSE Old[a - call.buf + call.from]
==============================================================================
