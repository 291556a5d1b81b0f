-------------------------------- MODULE Traps --------------------------------
(***************************************************************************)
(* The report of an exception: parse_esr() of arch/arm64/core/traps.c with *)
(* the field definitions of asm/esr.h.  A syndrome is the set of its bits  *)
(* that are 1.                                                             *)
(***************************************************************************)
EXTENDS Integers, FiniteSets, FiniteSetsExt

CONSTANTS Srt       \* bound: the register numbers that are tried

VARIABLES event, esr, report

vars == <<event, esr, report>>

(* shift and width of the fields, as the macros of esr.h give them.        *)
Mask(shift, width) == shift .. shift + width - 1

(* Slip: SRT is taken one bit too low.                                     *)
esr_field_srt_low(f) ==
  CASE f = "EC" -> <<26, 6>> [] f = "IL" -> <<25, 1>> [] f = "ISV" -> <<24, 1>>
    [] f = "SAS" -> <<22, 2>> [] f = "SSE" -> <<21, 1>> [] f = "SRT" -> <<15, 5>>
    [] f = "SF" -> <<15, 1>> [] f = "AR" -> <<14, 1>> [] f = "SET" -> <<11, 2>>
    [] f = "FnV" -> <<10, 1>> [] f = "EA" -> <<9, 1>> [] f = "CM" -> <<8, 1>>
    [] f = "S1PTW" -> <<7, 1>> [] f = "WnR" -> <<6, 1>>

esr_field(f) ==
  CASE f = "EC" -> <<26, 6>> [] f = "IL" -> <<25, 1>> [] f = "ISV" -> <<24, 1>>
    [] f = "SAS" -> <<22, 2>> [] f = "SSE" -> <<21, 1>> [] f = "SRT" -> <<16, 5>>
    [] f = "SF" -> <<15, 1>> [] f = "AR" -> <<14, 1>> [] f = "SET" -> <<11, 2>>
    [] f = "FnV" -> <<10, 1>> [] f = "EA" -> <<9, 1>> [] f = "CM" -> <<8, 1>>
    [] f = "S1PTW" -> <<7, 1>> [] f = "WnR" -> <<6, 1>>

(* A set of bits as a number, shifted right.                               *)
ValueOf(bits, shift) == FoldSet(LAMBDA b, acc : acc + 2^(b - shift), 0, bits)

(* (esr & mask) >> shift                                                   *)
Field(e, f) == LET s == esr_field(f) IN ValueOf(e \cap Mask(s[1], s[2]), s[1])

Unnamed  == -1     \* "UNRECOGNIZED EC", or "<NULL>" for a missing string
NoReport == -2

ESR_ELx_EC_DABT_LOW == 36
ESR_ELx_EC_DABT_CUR == 37

(* The classes that esr_class_str gives a name of their own; the rest is   *)
(* "UNRECOGNIZED EC".                                                      *)
esr_class_str ==
  {0, 1} \cup (3 .. 8) \cup {12, 14} \cup (17 .. 19) \cup (21 .. 25) \cup (31 .. 34)
  \cup {36, 37, 38, 40, 44} \cup (47 .. 53) \cup {56, 58, 60}

(* The entries of data_fault_code with a text; the array ends at the last. *)
data_fault_code == (0 .. 7) \cup (9 .. 11) \cup (13 .. 15) \cup {33, 53}

dfsc_index(e) == ValueOf(e \cap (0 .. 5), 0)

(* The text of a fault code; an entry without one is printed as <NULL>.    *)
esr_get_dfsc_string(e) == IF dfsc_index(e) \in data_fault_code THEN dfsc_index(e) ELSE Unnamed

Access == {"SAS", "SSE", "SRT", "SF", "AR"}
Common == {"SET", "FnV", "EA", "S1PTW", "CM", "WnR"}

Printed(e, fields) == [f \in fields |-> Field(e, f)]

(* What parse_esr prints; the access size is 1 << SAS.                     *)
parse_esr(e) ==
  LET ec   == Field(e, "EC")
      dabt == ec \in {ESR_ELx_EC_DABT_LOW, ESR_ELx_EC_DABT_CUR} IN
  [class  |-> IF ec \in esr_class_str THEN ec ELSE Unnamed,
   il     |-> IF Field(e, "IL") = 1 THEN 32 ELSE 16,
   access |-> IF dabt /\ Field(e, "ISV") = 1 THEN Printed(e, Access) ELSE <<>>,
   size   |-> IF dabt /\ Field(e, "ISV") = 1 THEN 2^Field(e, "SAS") ELSE 0,
   common |-> IF dabt THEN Printed(e, Common) ELSE <<>>,
   dfsc   |-> IF dabt THEN esr_get_dfsc_string(e) ELSE Unnamed]
------------------------------------------------------------------------------
(* The architecture: exception classes a CPU at EL1 in AArch64 state can   *)
(* report, fault codes of its data aborts, none of which lies past the end *)
(* of data_fault_code, and where the fields lie.                           *)
El1Classes ==
  {0, 1, 7, 14, 21, 24, 32, 33, 34, 36, 37, 38, 44} \cup (47 .. 53) \cup {60}

FaultCodes == (0 .. 7) \cup (9 .. 11) \cup (13 .. 16) \cup (20 .. 24) \cup (28 .. 31)
              \cup {33, 48, 52, 53}

Bits(n, at) == {at + k : k \in {j \in 0 .. 5 : (n \div 2^j) % 2 = 1}}

Syndrome(ev) ==
  Bits(ev.ec, 26) \cup Bits(ev.il, 25) \cup
  (IF ev.ec \notin {36, 37} THEN {} ELSE
     Bits(ev.isv, 24) \cup Bits(ev.sas, 22) \cup Bits(ev.sse, 21) \cup Bits(ev.srt, 16)
     \cup Bits(ev.sf, 15) \cup Bits(ev.ar, 14) \cup Bits(ev.set, 11) \cup Bits(ev.cm, 8)
     \cup Bits(ev.wnr, 6) \cup ev.other \cup Bits(ev.fsc, 0))

(* FnV, EA and S1PTW are followed as bits.                                 *)
Events == [ec : El1Classes, il : {0, 1}, isv : {0}, sas : {0}, sse : {0}, srt : {0},
           sf : {0}, ar : {0}, set : {0}, cm : {0}, wnr : {0}, other : {{}}, fsc : {0}]
          \cup [ec : {37}, il : {1}, isv : {0, 1}, sas : 0 .. 3, sse : {0, 1}, srt : Srt,
                sf : {0, 1}, ar : {0}, set : {0}, cm : {0}, wnr : {0, 1}, other : {{}},
                fsc : {0, 7, 53}]
          \cup [ec : {36, 37}, il : {1}, isv : {0}, sas : {0}, sse : {0}, srt : {0},
                sf : {0}, ar : {0, 1}, set : {0, 2, 3}, cm : {0, 1}, wnr : {0, 1},
                other : SUBSET {7, 9, 10}, fsc : FaultCodes]

Init == event \in Events /\ esr = Syndrome(event) /\ report = [class |-> NoReport]

do_bad_mode == /\ report.class = NoReport /\ report' = parse_esr(esr)
               /\ UNCHANGED <<event, esr>>

panic == report.class # NoReport /\ UNCHANGED vars

Next == do_bad_mode \/ panic

Spec == Init /\ [][Next]_vars
------------------------------------------------------------------------------
(* parse_esr reports what the CPU raised: no class that can reach EL1      *)
(* falls into the holes of esr_class_str; the fields of a data abort are   *)
(* printed with the values the CPU put into the syndrome, and those that   *)
(* are only valid with ISV only then; a fault that has a text gets its     *)
(* own.                                                                    *)
ReportExact ==
  report.class # NoReport =>
    /\ report.class = event.ec
    /\ event.ec \in {36, 37} =>
         /\ report.common = [SET |-> event.set, FnV |-> IF 10 \in event.other THEN 1 ELSE 0,
                             EA |-> IF 9 \in event.other THEN 1 ELSE 0,
                             S1PTW |-> IF 7 \in event.other THEN 1 ELSE 0,
                             CM |-> event.cm, WnR |-> event.wnr]
         /\ report.access = IF event.isv = 0 THEN <<>>
                            ELSE [SAS |-> event.sas, SSE |-> event.sse,
                                  SRT |-> event.srt, SF |-> event.sf, AR |-> event.ar]
         /\ event.fsc \in data_fault_code => report.dfsc = event.fsc
==============================================================================
