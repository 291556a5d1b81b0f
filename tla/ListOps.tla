------------------------------- MODULE ListOps -------------------------------
(***************************************************************************)
(* The intrusive doubly linked list of include/yios/list.h, as operators   *)
(* on a heap h = [next |-> ..., prev |-> ...] that maps every node to the  *)
(* two pointers of its struct list_head.                                   *)
(***************************************************************************)
EXTENDS Integers

(* Both LIST_POISON1 and LIST_POISON2: no code tells them apart.           *)
LIST_POISON == -3

INIT_LIST_HEAD(h, list) ==
  [h EXCEPT !.next[list] = list, !.prev[list] = list]

(* Slip: the new node is published before its own pointers are written.    *)
list_add_publish_first(h, new, prev, next, k) ==
  CASE k = 1 -> [h EXCEPT !.next[prev] = new]
    [] k = 2 -> [h EXCEPT !.prev[next] = new]
    [] k = 3 -> [h EXCEPT !.next[new] = next]
    [] k = 4 -> [h EXCEPT !.prev[new] = prev]

(* The k-th of the four stores of __list_add(new, prev, next).  The build  *)
(* does not optimise, so they reach memory in this order and an interrupt  *)
(* can be taken between any two of them.                                   *)
list_add_store(h, new, prev, next, k) ==
  CASE k = 1 -> [h EXCEPT !.prev[next] = new]
    [] k = 2 -> [h EXCEPT !.next[new] = next]
    [] k = 3 -> [h EXCEPT !.prev[new] = prev]
    [] k = 4 -> [h EXCEPT !.next[prev] = new]

__list_del(h, prev, next) ==
  [h EXCEPT !.prev[next] = prev, !.next[prev] = next]

(* Slip: the entry is poisoned before its neighbours are read.             *)
list_del_poison_first(h, entry) ==
  [h EXCEPT !.next[entry] = LIST_POISON, !.prev[entry] = LIST_POISON]

list_del(h, entry) ==
  [__list_del(h, h.prev[entry], h.next[entry])
     EXCEPT !.next[entry] = LIST_POISON, !.prev[entry] = LIST_POISON]
==============================================================================
