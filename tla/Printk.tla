-------------------------------- MODULE Printk --------------------------------
(***************************************************************************)
(* The formatter of kernel/printk.c: myprintf() directive by directive,    *)
(* and number().  Machine integers are scaled down to SHORT, INT and LONG  *)
(* bits; an argument slot holds LONG bits of which va_arg may use fewer.   *)
(*                                                                         *)
(* Output is a sequence of characters: a digit is its value, so that 0 is  *)
(* also the padding zero; other characters are negative.                   *)
(***************************************************************************)
EXTENDS Integers, Sequences, SequencesExt, FiniteSetsExt

CONSTANTS SHORT, INT, LONG,   \* widths in bits
          Widths, Precs,      \* field widths and precisions that formats give
          Values              \* argument slots

VARIABLES
  fmt,     \* directives still to be processed
  base,    \* the local `base`; 0 stands for an unset value outside 2 .. 36
  lost,    \* number() returned 0 and pos points nowhere
  last     \* the directive processed last, its argument and what it produced

vars == <<fmt, base, lost, last>>

Space   == -1
Minus   == -2
Plus    == -3
LetterX == -4
Percent == -5
Letter  == -6       \* any other character

Flags == {"LEFT", "PLUS", "SPACE", "SPECIAL", "ZEROPAD"}

(* A parsed directive: flags, width and precision (-1 when absent), is the *)
(* width a *, length qualifier, conversion.                                *)
Directive(convs, quals) ==
  [flags : SUBSET Flags, width : Widths \cup {-1}, precision : Precs \cup {-1},
   star : {FALSE}, qualifier : quals, conv : convs]

Plain == Directive({"d", "u", "x", "o"}, {"h", "l", "none"})
         \cup Directive({"c", "s", "p"}, {"none"})

Star == {[flags |-> {}, width |-> -1, precision |-> -1, star |-> TRUE, qualifier |-> "none", conv |-> c]
          : c \in {"d", "x"}}

Odd == {[flags |-> {}, width |-> -1, precision |-> -1, star |-> FALSE, qualifier |-> "none",
         conv |-> c] : c \in {"n", "%", "?"}}

None == [d |-> [conv |-> "none", star |-> FALSE], v |-> 0, text |-> <<>>]

Init ==
  /\ fmt \in {<<d>> : d \in Plain \cup Star \cup Odd}
  /\ base \in {0, 10} /\ lost = FALSE
  /\ last = None
------------------------------------------------------------------------------
Repeat(c, n) == [k \in 1 .. n |-> c]
AtLeast0(n)  == IF n > 0 THEN n ELSE 0

(* The loop over do_div: the digits, least significant first.              *)
RECURSIVE do_div(_, _)
do_div(num, b) == IF num = 0 THEN <<>> ELSE <<num % b>> \o do_div(num \div b, b)

(* Slip: only a base-16 prefix is taken off the width.                     *)
prefix_size_hex_only(b) == IF b = 16 THEN 2 ELSE 0

prefix_size(b) == CASE b = 16 -> 2 [] b = 8 -> 1 [] OTHER -> 0

(* Spaces go to the left of the number.                                    *)
pad_left(type) == type \cap {"ZEROPAD", "LEFT"} = {}

(* number(): a negative sign is not taken off the size, the others are.    *)
number(num0, b, size0, precision, type0) ==
  LET type   == IF "LEFT" \in type0 THEN type0 \ {"ZEROPAD"} ELSE type0
      neg    == "SIGN" \in type /\ num0 >= 2^(LONG - 1)
      num    == IF neg THEN 2^LONG - num0 ELSE num0
      plus   == "SIGN" \in type /\ ~neg /\ type \cap {"PLUS", "SPACE"} # {}
      sign   == IF neg THEN <<Minus>> ELSE IF ~plus THEN <<>>
                ELSE IF "PLUS" \in type THEN <<Plus>> ELSE <<Space>>
      special == "SPECIAL" \in type
      prefix == IF special THEN SubSeq(<<0, LetterX>>, 1, IF b = 8 THEN 1 ELSE IF b = 16 THEN 2 ELSE 0)
                ELSE <<>>
      tmp    == IF num = 0 THEN <<0>> ELSE do_div(num, b)
      prec   == Max({Len(tmp), precision})
      size   == AtLeast0(size0 - (IF plus THEN 1 ELSE 0)
                               - (IF special THEN prefix_size(b) ELSE 0) - prec)
      pad(on, c) == IF on THEN Repeat(c, size) ELSE <<>>
  IN pad(pad_left(type), Space) \o sign \o prefix
     \o pad("ZEROPAD" \in type, 0) \o Repeat(0, prec - Len(tmp)) \o Reverse(tmp)
     \o pad("LEFT" \in type, Space)

SignExtend(v, bits) == IF v >= 2^(bits - 1) THEN v + 2^LONG - 2^bits ELSE v

(* Slip: a signed int reaches number() zero-extended.                      *)
va_num_unextended(qualifier, flags, v) ==
  CASE qualifier = "l" -> v
    [] qualifier = "h" -> IF "SIGN" \in flags THEN SignExtend(v % 2^SHORT, SHORT) ELSE v % 2^SHORT
    [] OTHER -> v % 2^INT

(* The argument as an unsigned long: va_arg with the type of the qualifier *)
(* and the conversion to num.                                              *)
va_num(qualifier, flags, v) ==
  CASE qualifier = "l" -> v
    [] qualifier = "h" -> IF "SIGN" \in flags THEN SignExtend(v % 2^SHORT, SHORT) ELSE v % 2^SHORT
    [] OTHER -> IF "SIGN" \in flags THEN SignExtend(v % 2^INT, INT) ELSE v % 2^INT

base_of(conv) == CASE conv = "o" -> 8 [] conv \in {"x", "X"} -> 16 [] conv \in {"d", "i", "u"} -> 10

sign_flag(conv) == IF conv \in {"d", "i"} THEN {"SIGN"} ELSE {}

Done(d, v, text) == /\ last' = [d |-> d, v |-> v, text |-> text]
                    /\ fmt' = Tail(fmt)

conversion(convs) == fmt # <<>> /\ ~lost /\ ~Head(fmt).star /\ Head(fmt).conv \in convs

numeric ==
  /\ conversion({"d", "i", "u", "x", "X", "o"})
  /\ \E v \in Values :
       LET d     == Head(fmt)
           flags == d.flags \cup sign_flag(d.conv) IN
       Done(d, v, number(va_num(d.qualifier, flags, v), base_of(d.conv), d.width,
                         d.precision, flags))
  /\ base' = base_of(Head(fmt).conv)
  /\ UNCHANGED lost

(* %p: without a width, 2 * sizeof(void * ) digits padded with zeros.      *)
pointer ==
  /\ conversion({"p"})
  /\ \E v \in Values :
       LET d     == Head(fmt)
           bare  == d.width = -1
           flags == IF bare THEN d.flags \cup {"ZEROPAD"} ELSE d.flags IN
       Done(d, v, number(v, 16, IF bare THEN 16 ELSE d.width, d.precision, flags))
  /\ UNCHANGED <<base, lost>>

(* Characters, right or left justified in a field.                         *)
Justify(text, width, flags) ==
  LET fill == Repeat(Space, AtLeast0(width - Len(text))) IN
  IF "LEFT" \in flags THEN text \o fill ELSE fill \o text

character ==
  /\ conversion({"c"})
  /\ LET d == Head(fmt) IN Done(d, 1, Justify(<<Letter>>, d.width, d.flags))
  /\ UNCHANGED <<base, lost>>

cut(len, precision) == IF precision < 0 \/ len <= precision THEN len ELSE precision

(* %s: strings of 0 and 2 characters, and "<NULL>" for a null pointer.     *)
string ==
  /\ conversion({"s"})
  /\ \E len \in {0, 2, 6} :
       LET d == Head(fmt) IN
       Done(d, len, Justify(Repeat(Letter, cut(len, d.precision)), d.width, d.flags))
  /\ UNCHANGED <<base, lost>>

(* %n: the count goes to memory, nothing to the output.                    *)
count ==
  /\ conversion({"n"})
  /\ Done(Head(fmt), 0, <<>>)
  /\ UNCHANGED <<base, lost>>

(* The default case of the switch: % and an unknown character are printed, *)
(* then number() gets an argument all the same, in whatever base is left.  *)
(* A * gives the width but is not skipped, so it ends up here too, and the *)
(* rest of its directive is copied as text.                                *)
default ==
  /\ fmt # <<>> /\ ~lost /\ (Head(fmt).star \/ Head(fmt).conv \in {"%", "?"})
  /\ \E w \in Widths, v \in Values :
       LET d == IF Head(fmt).star THEN [Head(fmt) EXCEPT !.width = w] ELSE Head(fmt)
           text == IF d.conv = "%" THEN <<Percent>> ELSE <<Percent, Letter>>
           num  == va_num(d.qualifier, d.flags, v) IN
       /\ lost' = (base = 0)
       /\ Done(d, v, text \o (IF base = 0 THEN <<>>
                              ELSE number(num, base, d.width, d.precision, d.flags))
                          \o (IF d.star THEN <<Letter>> ELSE <<>>))
  /\ UNCHANGED base

(* The end of the format.                                                  *)
finish == (fmt = <<>> \/ lost) /\ UNCHANGED vars

Next == numeric \/ pointer \/ character \/ string \/ count
        \/ default \/ finish

Spec == Init /\ [][Next]_vars
------------------------------------------------------------------------------
Numeric == last.d.conv \in {"d", "u", "x", "o"} /\ ~last.d.star
Signed  == last.d.conv = "d"

Bits == CASE last.d.qualifier = "h" -> SHORT [] last.d.qualifier = "l" -> LONG [] OTHER -> INT

(* The value of the argument in C, by the type its directive names.        *)
Value ==
  LET v == last.v % 2^Bits IN
  IF Signed /\ v >= 2^(Bits - 1) THEN v - 2^Bits ELSE v

(* The number a reader sees: sign, then digits in the base.                *)
ReadBack(text, b) ==
  LET digits == SelectSeq(text, LAMBDA c : c >= 0)
      magnitude == FoldLeft(LAMBDA acc, c : acc * b + c, 0, digits) IN
  IF Minus \in ToSet(text) THEN -magnitude ELSE magnitude

(* The characters a conversion needs besides padding.                      *)
Needed ==
  LET abs    == IF Value < 0 THEN -Value ELSE Value
      digits == Min({n \in 1 .. LONG : base_of(last.d.conv)^n > abs})
      sign   == IF Value < 0 \/ (Signed /\ last.d.flags \cap {"PLUS", "SPACE"} # {}) THEN 1 ELSE 0
      prefix == IF "SPECIAL" \notin last.d.flags THEN 0
                ELSE CASE last.d.conv = "x" -> 2 [] last.d.conv = "o" -> 1 [] OTHER -> 0
  IN sign + prefix + Max({digits, last.d.precision})

(* What is printed for a number reads back as the value the argument has   *)
(* in C, for every qualifier, sign, base, flag, width and precision,       *)
(* LONG_MIN included, whose negation in number() overflows.                *)
ValueReadsBack ==
  Numeric => ReadBack(last.text, base_of(last.d.conv)) = Value

(* A field is as wide as asked for and no wider than its contents need, on *)
(* every path through the three padding loops of number(), and for %c and  *)
(* %s.  A minus sign, which number() does not take off the size, makes it  *)
(* one too wide at most.                                                   *)
FieldFilled ==
  /\ Numeric => Len(last.text) - Max({last.d.width, Needed})
                  \in IF Value < 0 THEN {0, 1} ELSE {0}
  /\ last.d.conv = "c" => Len(last.text) = Max({last.d.width, 1})
  /\ last.d.conv = "s" => Len(last.text) = Max({last.d.width,
         IF last.d.precision >= 0 THEN Min({last.v, last.d.precision}) ELSE last.v})
==============================================================================
