---------------------------- MODULE ConsoleProofs ----------------------------
(***************************************************************************)
(* A line that nobody disturbs reaches the wire whole: the static buffer   *)
(* still holds it when the loop of printk reads it, and no byte finds the  *)
(* FIFO full.                                                              *)
(***************************************************************************)
EXTENDS Console, SequenceTheorems, TLAPS

Byte == {NUL, CR} \cup (Context \X Nat)

PC == {"idle", "myprintf", "loop", "putchar_cr", "putchar", "write_cr", "write",
       "returned"}

Locals == [pc : PC, len : Nat, i : Nat, ch : Byte]

ConsoleTypeOK ==
  /\ print_buf \in [1 .. Size -> Byte]
  /\ loc \in [Context -> Locals]
  /\ \A c \in Context : loc[c].len <= LineLen[c]
  /\ cpu \in Context
  /\ fifo \in Seq(Byte) /\ wire \in Seq(Byte)
  /\ hit \in [Context -> BOOLEAN]

(* What was sent so far ends in the first n bytes of the line of c.        *)
Sent == wire \o fifo

Shown(c, k) == IF k < LineLen[c] THEN <<c, k>>
               ELSE IF k = LineLen[c] THEN CR ELSE <<c, LineLen[c]>>

Ends(s, c, n) ==
  n <= Len(s) /\ \A k \in 1 .. n : s[Len(s) - n + k] = Shown(c, k)

(* The context that executes, from the first byte of its line on.          *)
InLoop == {"loop", "putchar_cr", "write_cr", "putchar", "write"}

(* How many bytes of the line have been sent.                              *)
Done(c) ==
  LET i == loc[c].i  n == LineLen[c] IN
  CASE loc[c].pc = "loop" -> IF i = n THEN n + 1 ELSE i
    [] loc[c].pc \in {"putchar_cr", "write_cr"} -> n - 1
    [] loc[c].pc \in {"putchar", "write"} -> IF i = n THEN n ELSE i - 1
    [] OTHER -> 0

(* The buffer still holds what c formatted, what was sent ends in bytes of *)
(* c, and a FIFO that c found not full is not full.                        *)
Undisturbed(c) ==
  LET l == loc[c]  n == LineLen[c] IN
  /\ l.pc \in InLoop \cup {"myprintf"} => \A k \in 1 .. l.len : print_buf[k] = <<c, k>>
  /\ l.pc = "myprintf" => l.i = 0
  /\ l.pc \in InLoop => l.len = n /\ l.i <= n /\ Ends(Sent, c, Done(c))
  /\ l.pc \in InLoop \ {"loop"} => l.i >= 1 /\ l.ch = <<c, l.i>>
  /\ l.pc \in {"putchar_cr", "write_cr"} => l.i = n
  /\ l.pc \in {"write_cr", "write"} => Len(fifo) < FifoDepth

(* Nothing is claimed of a line that another context may have spoilt.      *)
Others == \A c \in Context : c # cpu => hit[c] \/ loc[c].pc \in {"idle", "returned"}

ConsoleInv == ConsoleTypeOK /\ Others /\ (~hit[cpu] => Undisturbed(cpu))
------------------------------------------------------------------------------
LEMMA Contexts == irq \in Context /\ boot_cpu \in Context /\ Threads \subseteq Context
  BY DEF Context

LEMMA Lines ==
  /\ Size \in Nat
  /\ \A c \in Context : LineLen[c] \in Nat \ {0} /\ LineLen[c] < Size
  BY ConsoleAssumption DEF LineLen, Size

LEMMA Bytes ==
  /\ NUL \in Byte /\ CR \in Byte
  /\ \A c \in Context : \A k \in Nat : <<c, k>> \in Byte
  BY DEF Byte

(* putchar sends a carriage return before the last byte of a line only.    *)
LEMMA NewlineIs ==
  \A c \in Context : \A k \in Nat : Newline(<<c, k>>) <=> k = LineLen[c]
  BY DEF Newline

(* A byte written to a FIFO that is not full is the last one sent.         *)
LEMMA SendOne ==
  ASSUME NEW s \in Seq(Byte), NEW c \in Context, NEW n \in Nat, NEW b \in Byte,
         Ends(s, c, n), b = Shown(c, n + 1)
  PROVE  Ends(Append(s, b), c, n + 1)
<1>1. /\ Len(s) \in Nat /\ Len(Append(s, b)) = Len(s) + 1
      /\ \A j \in 1 .. Len(s) : Append(s, b)[j] = s[j]
      /\ Append(s, b)[Len(s) + 1] = b
  BY AppendProperties, LenProperties
<1>2. ASSUME NEW k \in 1 .. n + 1
      PROVE  Append(s, b)[Len(Append(s, b)) - (n + 1) + k] = Shown(c, k)
  <2>1. CASE k = n + 1
    <3>1. Len(Append(s, b)) - (n + 1) + k = Len(s) + 1
      BY <1>1, <2>1
    <3> QED
      BY <1>1, <2>1, <3>1, Zenon
  <2>2. CASE k # n + 1
    <3>1. k \in 1 .. n /\ n <= Len(s) /\ s[Len(s) - n + k] = Shown(c, k)
      BY <2>2 DEF Ends
    <3>2. Len(s) - n + k \in 1 .. Len(s) /\ Len(Append(s, b)) - (n + 1) + k = Len(s) - n + k
      BY <1>1, <3>1, SMTT(30)
    <3> QED
      BY <1>1, <3>1, <3>2, Zenon
  <2> QED
    BY <2>1, <2>2, Zenon
<1>3. n + 1 <= Len(Append(s, b))
  BY <1>1, SMTT(30) DEF Ends
<1> QED
  BY <1>2, <1>3, Zenon DEF Ends

LEMMA SentAppend ==
  ASSUME NEW w \in Seq(Byte), NEW q \in Seq(Byte), NEW b \in Byte
  PROVE  w \o Append(q, b) = Append(w \o q, b) /\ w \o q \in Seq(Byte)
<1>1. /\ Append(q, b) = q \o <<b>> /\ <<b>> \in Seq(Byte)
  BY AppendIsConcat
<1>2. w \o q \in Seq(Byte)
  BY ConcatProperties
<1>3. Append(w \o q, b) = (w \o q) \o <<b>>
  BY <1>2, AppendIsConcat, ZenonT(30)
<1>4. (w \o q) \o <<b>> = w \o (q \o <<b>>)
  <2> DEFINE e == <<b>>
  <2>1. e \in Seq(Byte)
    BY <1>1
  <2> HIDE DEF e
  <2>2. (w \o q) \o e = w \o (q \o e)
    BY <2>1, ConcatAssociative, SMTT(30)
  <2> QED
    BY <2>2 DEF e
<1> QED
  BY <1>1, <1>2, <1>3, <1>4, Zenon

LEMMA SentTransmit ==
  ASSUME NEW w \in Seq(Byte), NEW q \in Seq(Byte), q # <<>>
  PROVE  /\ Append(w, Head(q)) \o Tail(q) = w \o q
         /\ Append(w, Head(q)) \in Seq(Byte) /\ Tail(q) \in Seq(Byte)
         /\ Len(Tail(q)) = Len(q) - 1 /\ Len(q) \in Nat
<1>1. /\ Head(q) \in Byte /\ Tail(q) \in Seq(Byte) /\ Len(Tail(q)) = Len(q) - 1
      /\ Len(q) \in Nat
  BY HeadTailProperties, LenProperties, ZenonT(30)
<1>2. Append(w, Head(q)) = w \o <<Head(q)>> /\ <<Head(q)>> \in Seq(Byte)
  BY <1>1, AppendIsConcat, SMTT(30)
<1>3. <<Head(q)>> \o Tail(q) = q
  BY HeadTailProperties, <1>1, SMTT(30)
<1>4. Append(w, Head(q)) \in Seq(Byte)
  BY <1>1, AppendProperties, ZenonT(30)
<1>5. (w \o <<Head(q)>>) \o Tail(q) = w \o (<<Head(q)>> \o Tail(q))
  <2> DEFINE e == <<Head(q)>>
             u == Tail(q)
  <2>1. e \in Seq(Byte) /\ u \in Seq(Byte)
    BY <1>1, <1>2
  <2> HIDE DEF e, u
  <2>2. (w \o e) \o u = w \o (e \o u)
    BY <2>1, ConcatAssociative, SMTT(30)
  <2> QED
    BY <2>2 DEF e, u
<1> QED
  BY <1>1, <1>2, <1>3, <1>4, <1>5, Zenon

LEMMA Reversed ==
  ASSUME NEW t \in Seq(Byte)
  PROVE  /\ Reverse(t) \in Seq(Byte) /\ Len(Reverse(t)) = Len(t) /\ Len(t) \in Nat
         /\ \A i \in 1 .. Len(t) : Reverse(t)[i] = t[Len(t) - i + 1]
<1>1. Len(t) \in Nat /\ \A i \in 1 .. Len(t) : t[i] \in Byte
  BY LenProperties, ElementOfSeq, ZenonT(30)
<1>2. \A i \in 1 .. Len(t) : t[Len(t) - i + 1] \in Byte
  BY <1>1
<1> QED
  BY <1>1, <1>2, SMTT(30) DEF Reverse

LEMMA EndsWhole ==
  ASSUME NEW s \in Seq(Byte), NEW c \in Context, Ends(s, c, LineLen[c] + 1)
  PROVE  IsSuffix(Whole(c), s)
<1> DEFINE n == LineLen[c]
           front == SubSeq(Line(c), 1, n - 1)
           back == <<CR, <<c, n>>>>
           w == Whole(c)
<1>1. n \in Nat \ {0}
  BY Lines
<1>2. \A k \in 1 .. n : Line(c)[k] = <<c, k>> /\ Line(c)[k] \in Byte
  BY <1>1, Bytes, SMTT(30) DEF Line
<1>3. /\ front \in Seq(Byte) /\ Len(front) = n - 1
      /\ \A k \in 1 .. n - 1 : front[k] = <<c, k>>
  BY <1>1, <1>2, SubSeqProperties, SMTT(30)
<1>4. back \in Seq(Byte) /\ Len(back) = 2 /\ back[1] = CR /\ back[2] = <<c, n>>
  BY <1>1, Bytes, SMTT(30)
<1>5. /\ w \in Seq(Byte) /\ Len(w) = n + 1
      /\ \A k \in 1 .. n + 1 : w[k] = Shown(c, k)
  <2>1. /\ w \in Seq(Byte) /\ Len(w) = Len(front) + Len(back)
        /\ \A k \in 1 .. Len(front) + Len(back) :
             w[k] = IF k <= Len(front) THEN front[k] ELSE back[k - Len(front)]
    BY <1>3, <1>4, ConcatProperties, ZenonT(30) DEF Whole
  <2> HIDE DEF w, front, back, n
  <2>2. Len(w) = n + 1
    BY <1>1, <1>3, <1>4, <2>1, SMTT(30)
  <2>3. ASSUME NEW k \in 1 .. n + 1
        PROVE  w[k] = IF k < n THEN <<c, k>> ELSE IF k = n THEN CR ELSE <<c, n>>
    <3>1. w[k] = IF k <= n - 1 THEN front[k] ELSE back[k - (n - 1)]
      BY <1>3, <2>1, <2>2, ZenonT(30)
    <3>2. /\ k < n => k \in 1 .. n - 1 /\ k <= n - 1
          /\ k = n => ~(k < n) /\ ~(k <= n - 1) /\ k - (n - 1) = 1
          /\ k = n + 1 => ~(k < n) /\ k # n /\ ~(k <= n - 1) /\ k - (n - 1) = 2
          /\ k < n \/ k = n \/ k = n + 1
      BY <1>1, SMTT(30)
    <3>3. CASE k < n
      BY <1>3, <3>1, <3>2, <3>3, ZenonT(30)
    <3>4. CASE k = n
      BY <1>4, <3>1, <3>2, <3>4, ZenonT(30)
    <3>5. CASE k = n + 1
      BY <1>4, <3>1, <3>2, <3>5, ZenonT(30)
    <3> QED
      BY <3>2, <3>3, <3>4, <3>5, Zenon
  <2> QED
    BY <2>1, <2>2, <2>3, ZenonT(30) DEF Shown, n
<1> HIDE DEF w, n
<1>6. n + 1 <= Len(s) /\ \A k \in 1 .. n + 1 : s[Len(s) - (n + 1) + k] = w[k]
  BY <1>5, Zenon DEF Ends, n
<1> DEFINE r == Reverse(w)
           q == Reverse(s)
<1>7. /\ r \in Seq(Byte) /\ Len(r) = Len(w)
      /\ \A i \in 1 .. Len(w) : r[i] = w[Len(w) - i + 1]
  BY <1>5, Reversed, Zenon
<1>8. /\ q \in Seq(Byte) /\ Len(q) = Len(s) /\ Len(s) \in Nat
      /\ \A i \in 1 .. Len(s) : q[i] = s[Len(s) - i + 1]
  BY Reversed, Zenon
<1> HIDE DEF r, q
<1>9. ASSUME NEW i \in 1 .. n + 1
      PROVE  r[i] = q[i] /\ r[i] \in Byte /\ q[i] \in Byte
  <2>1. /\ Len(w) - i + 1 \in 1 .. n + 1 /\ i \in 1 .. Len(s) /\ i \in 1 .. Len(w)
        /\ Len(s) - (n + 1) + (Len(w) - i + 1) = Len(s) - i + 1
    <3>1. Len(w) = n + 1 /\ n + 1 <= Len(s) /\ Len(s) \in Nat
      BY <1>5, <1>6, <1>8, Zenon
    <3> QED
      BY <1>1, <3>1, SMTT(30)
  <2>2. r[i] = q[i]
    BY <1>6, <1>7, <1>8, <2>1, ZenonT(30)
  <2>3. r[i] \in Byte
    BY <1>7, <2>1, ElementOfSeq, ZenonT(30)
  <2> QED
    BY <2>2, <2>3, ZenonT(30)
<1>10. SubSeq(r, 1, n + 1) = SubSeq(q, 1, n + 1)
  <2>1. 1 \in Int /\ n + 1 \in Int /\ 1 <= n + 1 /\ n + 1 - 1 + 1 = n + 1
        /\ \A i \in 1 .. n + 1 : 1 + i - 1 = i
    BY <1>1
  <2>2. /\ SubSeq(r, 1, n + 1) \in Seq(Byte) /\ Len(SubSeq(r, 1, n + 1)) = n + 1
        /\ \A i \in 1 .. n + 1 : SubSeq(r, 1, n + 1)[i] = r[i]
    BY <1>9, <2>1, SubSeqProperties, SMTT(30)
  <2>3. /\ SubSeq(q, 1, n + 1) \in Seq(Byte) /\ Len(SubSeq(q, 1, n + 1)) = n + 1
        /\ \A i \in 1 .. n + 1 : SubSeq(q, 1, n + 1)[i] = q[i]
    BY <1>9, <2>1, SubSeqProperties, SMTT(30)
  <2> QED
    BY <1>9, <2>2, <2>3, SeqEqual, ZenonT(30)
<1> QED
  <2>1. Len(r) = n + 1 /\ Len(r) <= Len(q)
    BY <1>5, <1>6, <1>7, <1>8, ZenonT(30)
  <2> QED
    BY <1>10, <2>1, Zenon DEF IsSuffix, IsPrefix, r, q, w

(* What a step of cpu inside printk does to its locals.                    *)
LEMMA OwnStep ==
  ASSUME ConsoleInv, NEW new \in Locals, new.len <= LineLen[cpu], Set(new),
         UNCHANGED <<cpu, hit>>
  PROVE  /\ loc' \in [Context -> Locals]
         /\ \A c \in Context : loc'[c].len <= LineLen[c]
         /\ loc'[cpu] = new /\ Others'
<1>1. loc \in [Context -> Locals] /\ cpu \in Context
  BY DEF ConsoleInv, ConsoleTypeOK
<1>2. loc' \in [Context -> Locals] /\ loc'[cpu] = new
      /\ \A c \in Context : c # cpu => loc'[c] = loc[c]
  BY <1>1, ZenonT(30) DEF Set
<1>3. \A c \in Context : loc'[c].len <= LineLen[c]
  BY <1>2, ZenonT(30) DEF ConsoleInv, ConsoleTypeOK
<1>4. Others'
  BY <1>2, ZenonT(30) DEF ConsoleInv, Others
<1> QED
  BY <1>2, <1>3, <1>4, ZenonT(30)

LEMMA InitStep == Init => ConsoleInv
<1> SUFFICES ASSUME Init PROVE ConsoleInv
  OBVIOUS
<1>1. Idle \in Locals /\ Idle.len = 0 /\ Idle.pc = "idle"
  BY Bytes DEF Idle, Locals, PC
<1>2. ConsoleTypeOK
  BY <1>1, Bytes, Lines, Contexts, SMTT(30) DEF Init, ConsoleTypeOK
<1>3. Others
  BY <1>1 DEF Init, Others
<1>4. loc[cpu].pc = "idle"
  BY <1>1, Contexts, ZenonT(30) DEF Init
<1> QED
  BY <1>2, <1>3, <1>4, ZenonT(30) DEF ConsoleInv, Undisturbed, InLoop

LEMMA PrintkStep == ConsoleInv /\ printk => ConsoleInv'
<1> SUFFICES ASSUME ConsoleInv, printk PROVE ConsoleInv'
  OBVIOUS
<1> DEFINE new == [Idle EXCEPT !.pc = "myprintf"]
<1>1. new \in Locals /\ new.len = 0 /\ new.i = 0 /\ new.pc = "myprintf"
  BY Bytes, ZenonT(30) DEF Idle, Locals, PC
<1>2. /\ loc \in [Context -> Locals] /\ cpu \in Context /\ hit \in [Context -> BOOLEAN]
      /\ LineLen[cpu] \in Nat
  BY Lines DEF ConsoleInv, ConsoleTypeOK
<1>3. /\ loc' = [loc EXCEPT ![cpu] = new] /\ hit' = [hit EXCEPT ![cpu] = FALSE]
      /\ UNCHANGED <<print_buf, cpu, irqs, fifo, wire>>
  BY DEF printk, Set, uart
<1> HIDE DEF new
<1>4. /\ loc' \in [Context -> Locals] /\ hit' \in [Context -> BOOLEAN] /\ loc'[cpu] = new
      /\ \A c \in Context : c # cpu => loc'[c] = loc[c] /\ hit'[c] = hit[c]
  BY <1>1, <1>2, <1>3, ZenonT(30)
<1>5. ConsoleTypeOK'
  <2>1. new.len <= LineLen[cpu]
    BY <1>1, <1>2, SMTT(30)
  <2>2. \A c \in Context : loc'[c].len <= LineLen[c]
    BY <1>4, <2>1, ZenonT(30) DEF ConsoleInv, ConsoleTypeOK
  <2> QED
    BY <1>3, <1>4, <2>2, ZenonT(30) DEF ConsoleInv, ConsoleTypeOK
<1>6. Others'
  BY <1>3, <1>4, ZenonT(30) DEF ConsoleInv, Others
<1>7. Undisturbed(cpu)'
  <2>1. loc[cpu]' = new
    BY <1>3, <1>4, SMTT(30)
  <2> QED
    BY <1>1, <2>1, SMTT(30) DEF Undisturbed, InLoop
<1> QED
  BY <1>5, <1>6, <1>7, ZenonT(30) DEF ConsoleInv

LEMMA MyprintfStep == ConsoleInv /\ myprintf => ConsoleInv'
<1> SUFFICES ASSUME ConsoleInv, myprintf PROVE ConsoleInv'
  OBVIOUS
<1> DEFINE l == loc[cpu]
           n == LineLen[cpu]
           new == IF l.len = n THEN [l EXCEPT !.pc = "loop"] ELSE [l EXCEPT !.len = @ + 1]
           b == IF l.len = n THEN NUL ELSE <<cpu, l.len + 1>>
<1>1. /\ cpu \in Context /\ l \in Locals /\ l.pc = "myprintf" /\ l.len <= n /\ l.len \in Nat
      /\ n \in Nat \ {0} /\ n < Size /\ Size \in Nat
      /\ print_buf \in [1 .. Size -> Byte]
  BY Lines, ZenonT(30) DEF ConsoleInv, ConsoleTypeOK, myprintf, At, Locals
<1>2. l.len # n => Line(cpu)[l.len + 1] = <<cpu, l.len + 1>>
  BY <1>1, SMTT(30) DEF Line
<1>3. /\ print_buf' = [print_buf EXCEPT ![l.len + 1] = b] /\ Set(new)
      /\ UNCHANGED <<cpu, irqs, fifo, wire, hit>>
  BY <1>2, ZenonT(30) DEF myprintf, uart
<1>4. new \in Locals /\ new.len <= n
  BY <1>1, SMTT(30) DEF Locals, PC
<1>5. b \in Byte
  BY <1>1, Bytes, SMTT(30)
<1>6. /\ loc' \in [Context -> Locals] /\ loc'[cpu] = new /\ Others'
      /\ \A c \in Context : loc'[c].len <= LineLen[c]
  BY <1>3, <1>4, OwnStep, ZenonT(30)
<1>7. /\ print_buf' \in [1 .. Size -> Byte] /\ print_buf'[l.len + 1] = b
      /\ \A k \in 1 .. l.len : print_buf'[k] = print_buf[k]
  <2>1. l.len + 1 \in 1 .. Size /\ \A k \in 1 .. l.len : k \in 1 .. Size /\ k # l.len + 1
    BY <1>1, SMTT(30)
  <2> HIDE DEF b, new
  <2> QED
    BY <1>1, <1>3, <1>5, <2>1, ZenonT(30)
<1>8. ConsoleTypeOK'
  BY <1>1, <1>3, <1>6, <1>7, ZenonT(30) DEF ConsoleInv, ConsoleTypeOK
<1>9. ASSUME ~hit[cpu]
      PROVE  Undisturbed(cpu)'
  <2>1. (\A k \in 1 .. l.len : print_buf[k] = <<cpu, k>>) /\ l.i = 0
    BY <1>1, <1>9, ZenonT(30) DEF ConsoleInv, Undisturbed, InLoop
  <2>2. \A k \in 1 .. new.len : print_buf'[k] = <<cpu, k>>
    BY <1>1, <1>7, <2>1, SMTT(30)
  <2>3. CASE l.len = n
    <3>1. new.pc = "loop" /\ new.len = n /\ new.i = 0
      BY <1>1, <2>1, <2>3, ZenonT(30) DEF Locals
    <3>2. loc[cpu]' = new /\ LineLen[cpu]' = n /\ Sent' = Sent /\ cpu' = cpu
      BY <1>3, <1>6, ZenonT(30) DEF Sent, LineLen
    <3>3. Done(cpu)' = 0
      BY <1>1, <3>1, <3>2, ZenonT(30) DEF Done
    <3>4. Ends(Sent, cpu, 0)
      BY SentAppend, Bytes, LenProperties, SMTT(30) DEF Ends, Sent, ConsoleInv, ConsoleTypeOK
    <3>5. Ends(Sent, cpu, Done(cpu))'
      BY <3>2, <3>3, <3>4, ZenonT(30) DEF Ends, Shown, LineLen
    <3>6. 0 <= n
      BY <1>1, SMTT(30)
    <3> HIDE DEF new
    <3> QED
      BY <2>2, <3>1, <3>2, <3>5, <3>6, ZenonT(30) DEF Undisturbed, InLoop
  <2>4. CASE l.len # n
    <3>1. new.pc = "myprintf" /\ new.i = 0
      BY <1>1, <2>1, <2>4, ZenonT(30) DEF Locals
    <3> QED
      BY <1>3, <1>6, <2>2, <3>1, ZenonT(30) DEF Undisturbed, InLoop
  <2> QED
    BY <2>3, <2>4, ZenonT(30)
<1> QED
  BY <1>3, <1>6, <1>8, <1>9, ZenonT(30) DEF ConsoleInv

LEMMA SendStep ==
  ASSUME ConsoleInv, NEW new \in Locals, new.len <= LineLen[cpu], Set(new),
         UNCHANGED <<print_buf, cpu, hit, wire>>, fifo' \in Seq(Byte),
         ~hit[cpu] /\ loc'[cpu] = new => Undisturbed(cpu)'
  PROVE  ConsoleInv'
<1>1. /\ loc' \in [Context -> Locals] /\ loc'[cpu] = new /\ Others'
      /\ \A c \in Context : loc'[c].len <= LineLen[c]
  BY OwnStep, SMTT(30)
<1>2. ConsoleTypeOK'
  BY <1>1 DEF ConsoleInv, ConsoleTypeOK
<1> QED
  BY <1>1, <1>2, SMTT(30) DEF ConsoleInv

(* What the loop of printk does to its locals z.                           *)
Stepped(x, z, t, y, j) == x = [z EXCEPT !.pc = t, !.ch = y, !.i = j]

LEMMA NextLocals ==
  ASSUME NEW z \in Locals, NEW t \in PC, NEW y \in Byte, NEW j \in Nat,
         NEW x, Stepped(x, z, t, y, j)
  PROVE  x \in Locals /\ x.len = z.len /\ x.i = j /\ x.ch = y /\ x.pc = t
<1>1. x \in Locals
  BY Zenon DEF Locals, Stepped
<1>2. x.len = z.len /\ x.i = j /\ x.ch = y /\ x.pc = t
  BY SMTT(30) DEF Locals, Stepped
<1> QED
  BY <1>1, <1>2, Zenon

LEMMA LoopStep == ConsoleInv /\ loop => ConsoleInv'
<1> SUFFICES ASSUME ConsoleInv, loop PROVE ConsoleInv'
  OBVIOUS
<1> DEFINE l == loc[cpu]
           n == LineLen[cpu]
           b == print_buf[l.i + 1]
           to == IF Newline(b) THEN "putchar_cr" ELSE "putchar"
           new == [l EXCEPT !.pc = to, !.ch = b, !.i = l.i + 1]
<1>1. /\ cpu \in Context /\ l \in Locals /\ l.pc = "loop" /\ l.i < l.len /\ l.len <= n
      /\ l.len \in Nat /\ l.i \in Nat
      /\ n \in Nat \ {0} /\ n < Size /\ Size \in Nat
      /\ print_buf \in [1 .. Size -> Byte]
  BY Lines DEF ConsoleInv, ConsoleTypeOK, loop, At, Locals, index
<1>2. Set(new) /\ UNCHANGED <<print_buf, cpu, irqs, fifo, wire, hit>>
  BY DEF loop, uart, index
<1>3. b \in Byte
  BY <1>1, SMTT(30)
<1>4. /\ new \in Locals /\ new.len = l.len /\ new.i = l.i + 1 /\ new.ch = b
      /\ new.pc = to
  <2>1. to \in PC
    BY DEF PC
  <2>2. PICK j \in Nat : j = l.i + 1
    BY <1>1
  <2>3. Stepped(new, l, to, b, j) /\ l \in Locals
    BY <1>1, <2>2, ZenonT(30) DEF Stepped
  <2> HIDE DEF new, to, b, l
  <2>4. j \in Nat
    BY <2>2
  <2>5. new \in Locals /\ new.len = l.len /\ new.i = j /\ new.ch = b /\ new.pc = to
    BY <1>3, <2>1, <2>3, <2>4, NextLocals, SMTT(30)
  <2> QED
    BY <2>2, <2>5, Zenon
<1> HIDE DEF new, to, b
<1>5. ASSUME ~hit[cpu], loc'[cpu] = new
      PROVE  Undisturbed(cpu)'
  <2>1. /\ \A k \in 1 .. l.len : print_buf[k] = <<cpu, k>>
        /\ l.len = n /\ Ends(Sent, cpu, Done(cpu))
    BY <1>1, <1>5, ZenonT(30) DEF ConsoleInv, Undisturbed, InLoop
  <2>2. b = <<cpu, l.i + 1>>
    BY <1>1, <2>1, SMTT(30) DEF b
  <2>3. to = IF l.i + 1 = n THEN "putchar_cr" ELSE "putchar"
    <3>1. Newline(b) <=> l.i + 1 = n
      BY <1>1, <2>2, NewlineIs, SMTT(30)
    <3> QED
      BY <3>1, Zenon DEF to
  <2>4. loc[cpu]' = new /\ LineLen[cpu]' = n /\ Sent' = Sent /\ cpu' = cpu /\ print_buf' = print_buf
    BY <1>2, <1>5, ZenonT(30) DEF Sent, LineLen
  <2>5. Done(cpu)' = Done(cpu)
    <3>1. Done(cpu) = l.i
      BY <1>1, <2>1, SMTT(30) DEF Done
    <3>2. CASE l.i + 1 = n
      <4>1. n - 1 = l.i
        BY <1>1, <3>2, SMTT(30)
      <4>2. Done(cpu)' = n - 1
        BY <1>4, <2>3, <2>4, <3>2, ZenonT(30) DEF Done
      <4> QED
        BY <3>1, <4>1, <4>2, Zenon
    <3>3. CASE l.i + 1 # n
      <4>1. (l.i + 1) - 1 = l.i
        BY <1>1, SMTT(30)
      <4>2. Done(cpu)' = (l.i + 1) - 1
        BY <1>4, <2>3, <2>4, <3>3, ZenonT(30) DEF Done
      <4> QED
        BY <3>1, <4>1, <4>2, Zenon
    <3> QED
      BY <3>2, <3>3, ZenonT(30)
  <2>6. Ends(Sent, cpu, Done(cpu))'
    BY <2>1, <2>4, <2>5, ZenonT(30) DEF Ends, Shown, LineLen
  <2> QED
    <3>1. l.i + 1 <= n /\ l.i + 1 >= 1
      BY <1>1, <2>1, SMTT(30)
    <3> QED
      BY <1>4, <2>1, <2>2, <2>3, <2>4, <2>6, <3>1, ZenonT(30) DEF Undisturbed, InLoop
<1>6. fifo' \in Seq(Byte)
  BY <1>2, ZenonT(30) DEF ConsoleInv, ConsoleTypeOK
<1> QED
  BY <1>1, <1>2, <1>4, <1>5, <1>6, SendStep, ZenonT(30)

LEMMA PollStep == ConsoleInv /\ uart_poll => ConsoleInv'
<1> SUFFICES ASSUME ConsoleInv, uart_poll PROVE ConsoleInv'
  OBVIOUS
<1> DEFINE l == loc[cpu]
           n == LineLen[cpu]
           to == IF l.pc = "putchar_cr" THEN "write_cr" ELSE "write"
           new == [l EXCEPT !.pc = to]
<1>1. /\ cpu \in Context /\ l \in Locals /\ l.len <= n /\ n \in Nat
      /\ l.pc \in {"putchar_cr", "putchar"} /\ Set(new) /\ Len(fifo) < FifoDepth
      /\ UNCHANGED <<print_buf, cpu, irqs, fifo, wire, hit>>
  BY Lines, ZenonT(30) DEF ConsoleInv, ConsoleTypeOK, uart_poll, At, Goto, uart, uart_ready
<1>2. /\ new \in Locals /\ new.len = l.len /\ new.i = l.i /\ new.ch = l.ch /\ new.pc = to
  BY <1>1, ZenonT(30) DEF Locals, PC
<1> HIDE DEF new
<1>3. ASSUME ~hit[cpu], loc'[cpu] = new
      PROVE  Undisturbed(cpu)'
  <2>1. Undisturbed(cpu)
    BY <1>3, ZenonT(30) DEF ConsoleInv
  <2>2. loc[cpu]' = new /\ LineLen[cpu]' = n /\ Sent' = Sent /\ cpu' = cpu
        /\ print_buf' = print_buf /\ fifo' = fifo
    BY <1>1, <1>3, ZenonT(30) DEF Sent, LineLen
  <2>3. Done(cpu)' = Done(cpu)
    BY <1>1, <1>2, <2>2, ZenonT(30) DEF Done
  <2>4. Ends(Sent, cpu, Done(cpu))'
    BY <1>1, <2>1, <2>2, <2>3, ZenonT(30) DEF Undisturbed, InLoop, Ends, Shown, LineLen
  <2> QED
    BY <1>1, <1>2, <2>1, <2>2, <2>4, ZenonT(30) DEF Undisturbed, InLoop
<1>4. fifo' \in Seq(Byte)
  BY <1>1, ZenonT(30) DEF ConsoleInv, ConsoleTypeOK
<1> QED
  BY <1>1, <1>2, <1>3, <1>4, SendStep, ZenonT(30)

LEMMA WriteStep == ConsoleInv /\ uart_send => ConsoleInv'
<1> SUFFICES ASSUME ConsoleInv, uart_send PROVE ConsoleInv'
  OBVIOUS
<1> DEFINE l == loc[cpu]
           n == LineLen[cpu]
           to == IF l.pc = "write_cr" THEN "putchar" ELSE "loop"
           b == IF l.pc = "write_cr" THEN CR ELSE l.ch
           new == [l EXCEPT !.pc = to]
<1>1. /\ cpu \in Context /\ l \in Locals /\ l.len <= n /\ n \in Nat \ {0}
      /\ l.pc \in {"write_cr", "write"} /\ Set(new) /\ Write(b)
      /\ UNCHANGED <<print_buf, cpu, irqs, wire, hit>>
      /\ wire \in Seq(Byte) /\ fifo \in Seq(Byte)
  BY Lines, ZenonT(30) DEF ConsoleInv, ConsoleTypeOK, uart_send, At, Goto
<1>2. /\ new \in Locals /\ new.len = l.len /\ new.i = l.i /\ new.ch = l.ch /\ new.pc = to
      /\ b \in Byte /\ l.i \in Nat
  BY <1>1, Bytes, ZenonT(30) DEF Locals, PC
<1> HIDE DEF new
<1>3. fifo' \in Seq(Byte)
  BY <1>1, <1>2, AppendProperties, ZenonT(30) DEF Write
<1>4. ASSUME ~hit[cpu], loc'[cpu] = new
      PROVE  Undisturbed(cpu)'
  <2>1. Undisturbed(cpu)
    BY <1>4 DEF ConsoleInv
  <2>2. fifo' = Append(fifo, b)
    BY <1>1, <2>1, ZenonT(30) DEF Undisturbed, Write
  <2>3. /\ loc[cpu]' = new /\ LineLen[cpu]' = n /\ cpu' = cpu /\ print_buf' = print_buf
        /\ Sent' = Append(Sent, b) /\ Sent \in Seq(Byte)
    BY <1>1, <1>2, <1>4, <2>2, SentAppend, ZenonT(30) DEF Sent, LineLen
  <2>4. /\ Ends(Sent, cpu, Done(cpu)) /\ l.len = n /\ l.i <= n /\ l.i >= 1
        /\ l.ch = <<cpu, l.i>> /\ (l.pc = "write_cr" => l.i = n)
        /\ \A k \in 1 .. l.len : print_buf[k] = <<cpu, k>>
    BY <1>1, <2>1, ZenonT(30) DEF Undisturbed, InLoop
  <2>5. /\ Done(cpu)' = Done(cpu) + 1 /\ Done(cpu) \in Nat
        /\ b = Shown(cpu, Done(cpu) + 1)
    <3>1. CASE l.pc = "write_cr"
      <4>1. n - 1 \in Nat /\ (n - 1) + 1 = n /\ ~(n < n)
        BY <1>1, SMTT(30)
      <4>2. Done(cpu) = n - 1 /\ Done(cpu)' = n /\ b = CR
        BY <1>2, <2>3, <2>4, <3>1, ZenonT(30) DEF Done
      <4> QED
        BY <4>1, <4>2, ZenonT(30) DEF Shown
    <3>2. CASE l.pc = "write" /\ l.i = n
      <4>1. n \in Nat /\ ~(n + 1 < n) /\ n + 1 # n
        BY <1>1, SMTT(30)
      <4>2. Done(cpu) = n /\ Done(cpu)' = n + 1 /\ b = <<cpu, n>>
        BY <1>2, <2>3, <2>4, <3>2, ZenonT(30) DEF Done
      <4> QED
        BY <4>1, <4>2, ZenonT(30) DEF Shown
    <3>3. CASE l.pc = "write" /\ l.i # n
      <4>1. l.i - 1 \in Nat /\ (l.i - 1) + 1 = l.i /\ l.i < n
        <5>1. l.i \in Nat /\ n \in Nat /\ l.i <= n /\ l.i >= 1 /\ l.i # n
          BY <1>1, <1>2, <2>4, <3>3, Zenon
        <5> HIDE DEF l, n
        <5> QED
          BY <5>1, SMTT(30)
      <4>2. Done(cpu) = l.i - 1 /\ Done(cpu)' = l.i /\ b = <<cpu, l.i>>
        BY <1>2, <2>3, <2>4, <3>3, ZenonT(30) DEF Done
      <4> QED
        BY <4>1, <4>2, ZenonT(30) DEF Shown
    <3> QED
      BY <1>1, <3>1, <3>2, <3>3, ZenonT(30)
  <2>6. Ends(Append(Sent, b), cpu, Done(cpu) + 1)
    BY <1>1, <1>2, <2>3, <2>4, <2>5, SendOne, ZenonT(30)
  <2>7. Ends(Sent, cpu, Done(cpu))'
    BY <2>3, <2>5, <2>6, ZenonT(30) DEF Ends, Shown, LineLen
  <2> QED
    BY <1>1, <1>2, <2>3, <2>4, <2>7, ZenonT(30) DEF Undisturbed, InLoop
<1> QED
  BY <1>1, <1>2, <1>3, <1>4, SendStep, ZenonT(30)

(* Whoever comes next was disturbed, or is not inside printk.              *)
LEMMA ReturnStep == ConsoleInv /\ printk_return => ConsoleInv'
<1> SUFFICES ASSUME ConsoleInv, printk_return PROVE ConsoleInv'
  OBVIOUS
<1> DEFINE l == loc[cpu]
           to == IF cpu = irq THEN "idle" ELSE "returned"
           new == [l EXCEPT !.pc = to]
<1>1. /\ cpu \in Context /\ l \in Locals /\ loc \in [Context -> Locals]
      /\ hit \in [Context -> BOOLEAN] /\ loc' = [loc EXCEPT ![cpu] = new]
      /\ hit' = [c \in Context |-> hit[c] \/ c # cpu']
      /\ UNCHANGED <<print_buf, irqs, fifo, wire>>
  BY DEF ConsoleInv, ConsoleTypeOK, printk_return, Goto, Set, uart
<1>2. new \in Locals /\ new.len = l.len /\ new.pc = to
  BY <1>1 DEF Locals, PC
<1> HIDE DEF new
<1>3. cpu' \in Context
  BY <1>1, Contexts, ZenonT(30) DEF printk_return
<1>4. /\ loc' \in [Context -> Locals] /\ loc'[cpu] = new
      /\ \A c \in Context : c # cpu => loc'[c] = loc[c]
      /\ \A c \in Context : loc'[c].len = loc[c].len
  BY <1>1, <1>2, ZenonT(30)
<1>5. /\ hit' \in [Context -> BOOLEAN]
      /\ \A c \in Context : hit'[c] <=> hit[c] \/ c # cpu'
  BY <1>1, ZenonT(30)
<1>6. ConsoleTypeOK'
  BY <1>1, <1>3, <1>4, <1>5, ZenonT(30) DEF ConsoleInv, ConsoleTypeOK
<1>7. Others'
  BY <1>5, SMTT(30) DEF Others
<1>8. ASSUME ~hit'[cpu']
      PROVE  loc'[cpu'].pc \in {"idle", "returned"}
  <2>1. ~hit[cpu']
    BY <1>3, <1>5, <1>8, ZenonT(30)
  <2>2. CASE cpu' = cpu
    BY <1>2, <1>4, <2>2, ZenonT(30)
  <2>3. CASE cpu' # cpu
    BY <1>3, <1>4, <2>1, <2>3, ZenonT(30) DEF ConsoleInv, Others
  <2> QED
    BY <2>2, <2>3, ZenonT(30)
<1>9. ~hit'[cpu'] => Undisturbed(cpu)'
  BY <1>8, ZenonT(30) DEF Undisturbed, InLoop
<1> QED
  BY <1>6, <1>7, <1>9 DEF ConsoleInv

LEMMA IrqStep == ConsoleInv /\ timer_irq => ConsoleInv'
<1> SUFFICES ASSUME ConsoleInv, timer_irq PROVE ConsoleInv'
  OBVIOUS
<1>1. /\ loc \in [Context -> Locals] /\ irq \in Context
      /\ cpu' = irq /\ hit' = [c \in Context |-> c # irq] /\ loc' = [loc EXCEPT ![irq] = Idle]
      /\ UNCHANGED <<print_buf, fifo, wire>>
  BY Contexts, SMTT(30) DEF ConsoleInv, ConsoleTypeOK, timer_irq, uart
<1>2. Idle \in Locals /\ Idle.len = 0 /\ Idle.pc = "idle"
  BY Bytes, ZenonT(30) DEF Idle, Locals, PC
<1>3. /\ loc' \in [Context -> Locals] /\ loc'[irq] = Idle
      /\ \A c \in Context : c # irq => loc'[c] = loc[c]
  BY <1>1, <1>2, SMTT(30)
<1>4. hit' \in [Context -> BOOLEAN] /\ \A c \in Context : hit'[c] <=> c # irq
  BY <1>1, ZenonT(30)
<1>5. LineLen[irq] \in Nat
  BY Lines, Contexts, ZenonT(30)
<1>6. ConsoleTypeOK'
  <2>1. Idle.len <= LineLen[irq]
    BY <1>2, <1>5, SMTT(30)
  <2>2. \A c \in Context : loc'[c].len <= LineLen[c]
    BY <1>3, <2>1, ZenonT(30) DEF ConsoleInv, ConsoleTypeOK
  <2> QED
    BY <1>1, <1>3, <1>4, <2>2, ZenonT(30) DEF ConsoleInv, ConsoleTypeOK
<1>7. Others'
  BY <1>1, <1>4, ZenonT(30) DEF Others
<1>8. Undisturbed(cpu)'
  BY <1>1, <1>2, <1>3, ZenonT(30) DEF Undisturbed, InLoop
<1> QED
  BY <1>6, <1>7, <1>8 DEF ConsoleInv

LEMMA TransmitStep == ConsoleInv /\ transmit => ConsoleInv'
<1> SUFFICES ASSUME ConsoleInv, transmit PROVE ConsoleInv'
  OBVIOUS
<1>1. /\ fifo # <<>> /\ wire \in Seq(Byte) /\ fifo \in Seq(Byte)
      /\ wire' = Append(wire, Head(fifo)) /\ fifo' = Tail(fifo)
      /\ UNCHANGED <<print_buf, loc, cpu, hit>>
  BY DEF ConsoleInv, ConsoleTypeOK, transmit
<1>2. /\ Append(wire, Head(fifo)) \o Tail(fifo) = wire \o fifo
      /\ Append(wire, Head(fifo)) \in Seq(Byte) /\ Tail(fifo) \in Seq(Byte)
      /\ Len(Tail(fifo)) = Len(fifo) - 1 /\ Len(fifo) \in Nat
  BY <1>1, SentTransmit, ZenonT(30)
<1>3. Sent' = Sent /\ wire' \in Seq(Byte) /\ fifo' \in Seq(Byte)
      /\ Len(fifo') = Len(fifo) - 1
  BY <1>1, <1>2, ZenonT(30) DEF Sent
<1>4. ConsoleTypeOK'
  BY <1>1, <1>3, ZenonT(30) DEF ConsoleInv, ConsoleTypeOK
<1>5. Others'
  BY <1>1, ZenonT(30) DEF ConsoleInv, Others
<1>6. Done(cpu)' = Done(cpu)
  BY <1>1, SMTT(30) DEF Done, LineLen
<1>7. Ends(Sent, cpu, Done(cpu))' <=> Ends(Sent, cpu, Done(cpu))
  BY <1>1, <1>3, <1>6, SMTT(30) DEF Ends, Shown, LineLen
<1>8. Len(fifo) < FifoDepth => Len(fifo') < FifoDepth
  BY <1>2, <1>3, ConsoleAssumption, SMTT(30)
<1>9. Undisturbed(cpu) => Undisturbed(cpu)'
  BY <1>1, <1>7, <1>8, ZenonT(30) DEF Undisturbed, LineLen
<1> QED
  BY <1>1, <1>4, <1>5, <1>9, ZenonT(30) DEF ConsoleInv

LEMMA QuietStep == ConsoleInv /\ UNCHANGED vars => ConsoleInv'
<1> SUFFICES ASSUME ConsoleInv, UNCHANGED vars PROVE ConsoleInv'
  OBVIOUS
<1>1. UNCHANGED <<print_buf, loc, cpu, fifo, wire, hit>>
  BY DEF vars
<1>2. ConsoleTypeOK' /\ Others'
  BY <1>1, ZenonT(30) DEF ConsoleInv, ConsoleTypeOK, Others
<1>3. Undisturbed(cpu) => Undisturbed(cpu)'
  <2>1. Sent' = Sent /\ Done(cpu)' = Done(cpu)
    BY <1>1, SMTT(30) DEF Sent, Done, LineLen
  <2>2. Ends(Sent, cpu, Done(cpu))' <=> Ends(Sent, cpu, Done(cpu))
    BY <1>1, <2>1, SMTT(30) DEF Ends, Shown, LineLen
  <2> QED
    BY <1>1, <2>2, SMTT(30) DEF Undisturbed, LineLen
<1> QED
  BY <1>1, <1>2, <1>3, ZenonT(30) DEF ConsoleInv

LEMMA NextStep == ConsoleInv /\ [Next]_vars => ConsoleInv'
  BY PrintkStep, MyprintfStep, LoopStep, PollStep, WriteStep, ReturnStep, IrqStep,
     TransmitStep, QuietStep, ZenonT(30) DEF Next, kernel, uart_wait, elsewhere

(* printk and uart_send: a line during whose printk no other context ran   *)
(* is on the wire whole and in one piece, for any number of threads, any   *)
(* length of the lines, any depth of the FIFO and any number of            *)
(* interrupts.                                                             *)
THEOREM LinesGoOutWhole == Spec => []WholeUnlessHit
<1>1. ConsoleInv => WholeUnlessHit
  <2>1. SUFFICES ASSUME ConsoleInv, AtEnd, ~hit[cpu]
                 PROVE  IsSuffix(Whole(cpu), Sent)
    BY DEF WholeUnlessHit, Sent
  <2>2. /\ cpu \in Context /\ Sent \in Seq(Byte) /\ LineLen[cpu] \in Nat
        /\ loc[cpu] \in Locals
    BY <2>1, Lines, ConcatProperties, ZenonT(30) DEF ConsoleInv, ConsoleTypeOK, Sent
  <2>3. Done(cpu) = LineLen[cpu] + 1 /\ Ends(Sent, cpu, Done(cpu))
    BY <2>1, <2>2 DEF ConsoleInv, AtEnd, At, index, Undisturbed, InLoop, Done, Locals
  <2> QED
    BY <2>2, <2>3, EndsWhole, ZenonT(30)
<1> QED
  BY <1>1, InitStep, NextStep, PTL DEF Spec
==============================================================================
