------------------------------- MODULE ListSeq -------------------------------
(***************************************************************************)
(* What the list of include/yios/list.h promises: a sequence of distinct   *)
(* entries that grows at either end and loses any entry.                   *)
(***************************************************************************)
EXTENDS Sequences, SequencesExt

CONSTANT Entries

VARIABLES list, done   \* done: the last call, with the answer to "is it empty?"

Init == list = <<>> /\ done = "init"

AddFirst == \E e \in Entries \ ToSet(list) : list' = <<e>> \o list /\ done' = "add"

AddLast == \E e \in Entries \ ToSet(list) : list' = Append(list, e) /\ done' = "add_tail"

Delete == \E e \in ToSet(list) : list' = Remove(list, e) /\ done' = "del"

AskEmpty == done' = (IF list = <<>> THEN "empty" ELSE "not_empty") /\ UNCHANGED list

Next == AddFirst \/ AddLast \/ Delete \/ AskEmpty

Spec == Init /\ [][Next]_<<list, done>>
==============================================================================
