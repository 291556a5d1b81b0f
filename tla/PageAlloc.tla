------------------------------ MODULE PageAlloc ------------------------------
(***************************************************************************)
(* The physical page allocator of mm/page_alloc.c.  An address is counted  *)
(* in pages, so LOW_MEMORY + i * PAGE_SIZE is LOW_MEMORY + i here.         *)
(***************************************************************************)
EXTENDS Integers

CONSTANTS NR_PAGES,     \* entries of mem_map (include/yios/config.h)
          LOW_MEMORY    \* first page handed out (include/yios/mm.h)

ASSUME PageAllocAssumption == NR_PAGES \in Nat /\ LOW_MEMORY \in Nat \ {0}

VARIABLE mem_map        \* 1 for a page in use

MapIndex == 0 .. NR_PAGES - 1

Page == {LOW_MEMORY + i : i \in MapIndex}

mem_map_init == mem_map = [i \in MapIndex |-> 0]

(* Slip: the entry is not marked.                                          *)
get_unmarked(r) ==
  /\ \E i \in MapIndex : mem_map[i] = 0 /\ r = LOW_MEMORY + i
  /\ \A j \in MapIndex : j < r - LOW_MEMORY => mem_map[j] # 0
  /\ UNCHANGED mem_map

(* get_free_page() returning r: the first entry that is 0, or 0.           *)
get_free_page(r) ==
  \/ \E i \in MapIndex :
       /\ mem_map[i] = 0
       /\ \A j \in MapIndex : j < i => mem_map[j] # 0
       /\ mem_map' = [mem_map EXCEPT ![i] = 1]
       /\ r = LOW_MEMORY + i
  \/ /\ \A i \in MapIndex : mem_map[i] # 0
     /\ r = 0
     /\ UNCHANGED mem_map

(* free_page() writes the entry of p whatever it held.                     *)
free_page(p) == mem_map' = [mem_map EXCEPT ![p - LOW_MEMORY] = 0]

FreePages == {p \in Page : mem_map[p - LOW_MEMORY] = 0}
==============================================================================
