------------------------------- MODULE Library -------------------------------
(***************************************************************************)
(* The sequential code that the rest of the kernel calls: the lists of     *)
(* list.h, memset, memcpy and strlen, the formatter of printk and the      *)
(* exception report.  They share no state; a behaviour is a use of one of  *)
(* them, of every kind that its own module describes.                      *)
(***************************************************************************)
EXTENDS Integers

CONSTANTS Entries,                                      \* of ListHead
          Size,                                         \* of Memory
          SHORT, INT, LONG, Widths, Precs, Values,      \* of Printk
          Srt                                           \* of Traps

ASSUME LibraryAssumption ==
  /\ Entries \subseteq Nat
  /\ Size \in Nat \ {0}
  /\ SHORT \in Nat \ {0} /\ SHORT <= INT /\ INT <= LONG /\ Values \subseteq 0 .. 2^LONG - 1
  /\ Srt \subseteq 0 .. 31

VARIABLES unit,                       \* the code in use
          h, done,                    \* of ListHead
          mem, call, pc, x4, x2, src, \* of Memory
          fmt, base, lost, last,      \* of Printk
          event, esr, report          \* of Traps

List == INSTANCE ListHead
Mem  == INSTANCE Memory
Fmt  == INSTANCE Printk
Trap == INSTANCE Traps

lvars == <<h, done>>
mvars == <<mem, call, pc, x4, x2, src>>
pvars == <<fmt, base, lost, last>>
tvars == <<event, esr, report>>
vars  == <<unit, lvars, mvars, pvars, tvars>>

(* The state of code that is not in use; the list is then an empty one.    *)
MemUnused  == mem = "-" /\ call = "-" /\ pc = "-" /\ x4 = "-" /\ x2 = "-" /\ src = "-"
FmtUnused  == fmt = "-" /\ base = "-" /\ lost = "-" /\ last = "-"
TrapUnused == event = "-" /\ esr = "-" /\ report = "-"

Init ==
  /\ List!Init
  /\ \/ unit = "list"   /\ MemUnused /\ FmtUnused /\ TrapUnused
     \/ unit = "memory" /\ Mem!Init  /\ FmtUnused /\ TrapUnused
     \/ unit = "printk" /\ MemUnused /\ Fmt!Init  /\ TrapUnused
     \/ unit = "traps"  /\ MemUnused /\ FmtUnused /\ Trap!Init

Next ==
  \/ unit = "list"   /\ List!Next /\ UNCHANGED <<unit, mvars, pvars, tvars>>
  \/ unit = "memory" /\ Mem!Next  /\ UNCHANGED <<unit, lvars, pvars, tvars>>
  \/ unit = "printk" /\ Fmt!Next  /\ UNCHANGED <<unit, lvars, mvars, tvars>>
  \/ unit = "traps"  /\ Trap!Next /\ UNCHANGED <<unit, lvars, mvars, pvars>>

Spec == Init /\ [][Next]_vars
------------------------------------------------------------------------------
(* list_add, list_add_tail, list_del and list_empty behave as the same     *)
(* operations on a sequence, walked as list_for_each does.                 *)
ImplementsSequence == List!ImplementsSequence

(* memset, memcpy and strlen do what their names say and write no byte     *)
(* outside their buffer, for every length and position.                    *)
ResultExact == unit = "memory" => Mem!ResultExact

(* What printk prints for a number reads back as the value the argument    *)
(* has in C, LONG_MIN included.                                            *)
ValueReadsBack == unit = "printk" => Fmt!ValueReadsBack

(* printk fills a field to the width asked for, on every path through its  *)
(* padding loops, for all but negative numbers.                            *)
FieldFilled == unit = "printk" => Fmt!FieldFilled

(* parse_esr reports the class, the fields and the fault that the CPU      *)
(* raised.                                                                 *)
ReportExact == unit = "traps" => Trap!ReportExact
==============================================================================
