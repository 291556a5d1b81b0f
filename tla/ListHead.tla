------------------------------- MODULE ListHead ------------------------------
(***************************************************************************)
(* One list of include/yios/list.h under every sequence of calls whose     *)
(* callers add entries that are on no list and delete entries that are.    *)
(***************************************************************************)
EXTENDS ListOps, FiniteSets, Sequences, SequencesExt

CONSTANT Entries

VARIABLES h, done      \* the pointers; the last call, with the result of list_empty

vars == <<h, done>>

head == -1
Node == Entries \cup {head}

(* An entry before its first list_add holds anything; here the poison.     *)
Init ==
  /\ h = INIT_LIST_HEAD([next |-> [n \in Node |-> LIST_POISON],
                         prev |-> [n \in Node |-> LIST_POISON]], head)
  /\ done = "init"

(* The four stores of __list_add, uninterrupted.                           *)
__list_add(new, prev, next) ==
  LET h1 == list_add_store(h, new, prev, next, 1)
      h2 == list_add_store(h1, new, prev, next, 2)
      h3 == list_add_store(h2, new, prev, next, 3)
  IN  h' = list_add_store(h3, new, prev, next, 4)

(* The nodes from head on, along one of the two pointers.                  *)
Along(link) ==
  LET at[i \in 0 .. Cardinality(Node)] ==
        IF i = 0 THEN head ELSE IF at[i - 1] \in Node THEN link[at[i - 1]] ELSE at[i - 1]
      n == CHOOSE k \in DOMAIN at : /\ \A j \in 1 .. k - 1 : at[j] \in Entries
                                    /\ k > 0 /\ (at[k] \notin Entries \/ k = Cardinality(Node))
  IN  [i \in 1 .. n - 1 |-> at[i]]

contents == Along(h.next)

Unlinked == {e \in Entries : h.next[e] = LIST_POISON}

list_add ==
  \E new \in Unlinked : __list_add(new, head, h.next[head]) /\ done' = "add"

(* Slip: the neighbours of list_add.                                       *)
tail_neighbours_of_add == <<head, h.next[head]>>

tail_neighbours == <<h.prev[head], head>>

list_add_tail ==
  \E new \in Unlinked :
    __list_add(new, tail_neighbours[1], tail_neighbours[2]) /\ done' = "add_tail"

delete == \E e \in Entries \ Unlinked : h' = list_del(h, e) /\ done' = "del"

list_empty ==
  done' = (IF h.next[head] = head THEN "empty" ELSE "not_empty") /\ UNCHANGED h

Next == list_add \/ list_add_tail \/ delete \/ list_empty

Spec == Init /\ [][Next]_vars
------------------------------------------------------------------------------
(* list_add, list_add_tail, list_del and list_empty behave as the same     *)
(* operations on a sequence, walked as list_for_each does.                 *)
Seqn == INSTANCE ListSeq WITH list <- contents, done <- done
ImplementsSequence == Seqn!Spec
==============================================================================
