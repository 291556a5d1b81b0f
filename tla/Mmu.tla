--------------------------------- MODULE Mmu ---------------------------------
(***************************************************************************)
(* paging_init() of arch/arm64/core/mmu.c, store by store: the identity    *)
(* map of the kernel text, the memory and the device window is built in    *)
(* pages taken from mm/page_alloc.c, then the MMU is switched on.  The     *)
(* nested alloc_init_pud, alloc_init_pmd and alloc_init_pte have one shape *)
(* (make the table of the entry above, then loop over its entries), so a   *)
(* frame of the stack stk is one of them, told apart by its level.         *)
(***************************************************************************)
EXTENDS PgTable, PageAlloc, Sequences, FiniteSets

CONSTANTS TOTAL_MEMORY, PBASE, DEVICE_SIZE,
          text_boot,    \* _text_boot
          Etext,        \* the values of _etext considered, one per image
          Parange       \* PARange values of ID_AA64MMFR0_EL1 considered

(* The tables that the mappings can need: level and number of the entry    *)
(* above, for every address of the memory and of the device window.        *)
TablesNeeded ==
  {<<l, a \div SIZE(l - 1)>> : l \in 1 .. 3,
                               a \in (0 .. TOTAL_MEMORY) \cup (PBASE .. PBASE + DEVICE_SIZE)}

(* Text, data and the top-level table lie below the first page that is     *)
(* handed out, memory below the devices, all of it within the range of the *)
(* tables, and there are pages enough for them.                            *)
ASSUME MmuAssumption ==
  /\ text_boot \in Nat /\ TOTAL_MEMORY \in Nat
  /\ PBASE \in Nat /\ PBASE % PAGE_SIZE = 0 /\ DEVICE_SIZE \in Nat \ {0}
  /\ \A e \in Etext : /\ e \in Nat /\ text_boot < e
                      /\ PAGE_BALIGN(e) + 2 * PAGE_SIZE <= LOW_MEMORY * PAGE_SIZE
                      /\ PAGE_BALIGN(e) < TOTAL_MEMORY
  /\ TOTAL_MEMORY <= PBASE /\ PBASE + DEVICE_SIZE <= PTRS * SIZE(0)
  /\ Cardinality(TablesNeeded) <= NR_PAGES

VARIABLES etext,        \* _etext of this image
          tbl,          \* what the pages that are or may become tables hold
          todo,         \* calls of __create_pgd_mapping to come
          stk,          \* the frames of the call in progress, innermost last
          prot,         \* its attributes
          fresh,        \* table allocated and not yet linked, or -1
          mair,         \* mair_el1: memory type of each AttrIndx
          ips,          \* tcr_el1: output address size
          tgran4,       \* ID_AA64MMFR0_EL1: 4K pages supported
          parange,      \* ID_AA64MMFR0_EL1: output address size implemented
          sctlr_M,      \* the MMU is on
          pc            \* where paging_init is

image == <<etext, tgran4, parange>>

cpu == <<mair, ips, sctlr_M, pc>>

vars == <<mem_map, image, tbl, todo, stk, prot, fresh, cpu>>

(* The image: .rodata and .data follow the text from its next page on, and *)
(* the top-level table is in .data.                                        *)
idmap_pg_dir == PAGE_BALIGN(etext) + PAGE_SIZE

TablePage == {p * PAGE_SIZE : p \in Page} \cup {0, idmap_pg_dir}

cleared == [i \in 0 .. PTRS - 1 |-> none]

(* What a page holds before it is cleared: a valid entry that leads astray.*)
stale == [i \in 0 .. PTRS - 1 |-> [pa |-> PAGE_SIZE, attr |-> PROT_DEFAULT]]

Mapping(start, end, p) == [virt |-> start, phys |-> start, size |-> end - start, prot |-> p]

create_identical_mapping ==
  << Mapping(text_boot, etext, PAGE_KERNNEL_ROX),
     Mapping(PAGE_BALIGN(etext), TOTAL_MEMORY, PAGE_KERNEL) >>

create_mmio_mapping == << Mapping(PBASE, PBASE + DEVICE_SIZE, PROT("nGnRnE")) >>

Init == /\ etext \in Etext /\ tgran4 \in BOOLEAN /\ parange \in Parange
        /\ mem_map_init
        /\ tbl = [p \in TablePage |-> stale]
        /\ todo = <<>> /\ stk = <<>> /\ prot = {} /\ fresh = -1
        /\ mair = <<>> /\ ips = 0 /\ sctlr_M = FALSE /\ pc = "memset"

clear_pgd ==
  /\ pc = "memset" /\ pc' = "map"
  /\ tbl' = [tbl EXCEPT ![idmap_pg_dir] = cleared]
  /\ todo' = create_identical_mapping \o create_mmio_mapping
  /\ UNCHANGED <<mem_map, image, stk, prot, fresh, mair, ips, sctlr_M>>

(* Slip: the end is the page that holds the last byte, not the next one.   *)
create_rounds_end_down ==
  /\ pc = "map" /\ stk = <<>> /\ todo # <<>>
  /\ LET m == Head(todo)
     IN  /\ stk' = << [l |-> 0, tab |-> idmap_pg_dir, addr |-> PAGE_ALIGN(m.virt),
                       end |-> PAGE_ALIGN(m.virt + m.size), phys |-> PAGE_ALIGN(m.phys)] >>
         /\ prot' = m.prot
  /\ todo' = Tail(todo)
  /\ UNCHANGED <<mem_map, image, tbl, fresh, cpu>>

__create_pgd_mapping ==
  /\ pc = "map" /\ stk = <<>> /\ todo # <<>>
  /\ LET m == Head(todo)
     IN  /\ stk' = << [l |-> 0, tab |-> idmap_pg_dir, addr |-> PAGE_ALIGN(m.virt),
                       end |-> PAGE_BALIGN(m.virt + m.size), phys |-> PAGE_ALIGN(m.phys)] >>
         /\ prot' = m.prot
  /\ todo' = Tail(todo)
  /\ UNCHANGED <<mem_map, image, tbl, fresh, cpu>>

f == stk[Len(stk)]

entry == tbl[f.tab][index(f.l, f.addr)]

next == addr_end(f.l, f.addr, f.end)

set_entry(d) == tbl' = [tbl EXCEPT ![f.tab][index(f.l, f.addr)] = d]

(* A step of the innermost loop, at an entry it has not done yet.          *)
Looping == stk # <<>> /\ f.addr # f.end

advance == stk' = [stk EXCEPT ![Len(stk)].phys = @ + next - f.addr,
                              ![Len(stk)].addr = next]

section_fits ==
  f.l = 2 /\ \A a \in {f.addr, next, f.phys} : a % SECTION_SIZE = 0

(* Slip: the page is used as it comes.                                     *)
table_not_cleared ==
  /\ Looping /\ f.l < 3 /\ ~section_fits /\ entry = none /\ fresh = -1
  /\ \E r \in Page \cup {0} : get_free_page(r) /\ fresh' = r * PAGE_SIZE
  /\ UNCHANGED <<tbl, image, todo, stk, prot, cpu>>

(* The result of get_free_page is not tested.                              *)
early_pgtable_alloc ==
  /\ Looping /\ f.l < 3 /\ ~section_fits /\ entry = none /\ fresh = -1
  /\ \E r \in Page \cup {0} :
       /\ get_free_page(r)
       /\ tbl' = [tbl EXCEPT ![r * PAGE_SIZE] = cleared]
       /\ fresh' = r * PAGE_SIZE
  /\ UNCHANGED <<image, todo, stk, prot, cpu>>

link_table ==
  /\ fresh # -1 /\ fresh' = -1
  /\ set_entry([pa |-> fresh, attr |-> TYPE_TABLE])
  /\ UNCHANGED <<mem_map, image, todo, stk, prot, cpu>>

(* The call for the table below an entry that has one.                     *)
descend ==
  /\ Looping /\ f.l < 3 /\ ~section_fits /\ entry # none
  /\ stk' = Append(stk, [l |-> f.l + 1, tab |-> entry.pa, addr |-> f.addr,
                         end |-> next, phys |-> f.phys])
  /\ UNCHANGED <<mem_map, image, tbl, todo, prot, fresh, cpu>>

pmd_set_section ==
  /\ Looping /\ section_fits
  /\ set_entry([pa |-> f.phys, attr |-> TYPE_SECT \cup mk_sect_prot(prot)])
  /\ advance
  /\ UNCHANGED <<mem_map, image, todo, prot, fresh, cpu>>

set_pte ==
  /\ Looping /\ f.l = 3
  /\ set_entry([pa |-> f.phys, attr |-> prot])
  /\ advance
  /\ UNCHANGED <<mem_map, image, todo, prot, fresh, cpu>>

(* The innermost loop is done: its caller moves on to its next entry.      *)
return ==
  /\ stk # <<>> /\ f.addr = f.end
  /\ stk' = LET up == SubSeq(stk, 1, Len(stk) - 1) IN
            IF up = <<>> THEN <<>>
            ELSE [up EXCEPT ![Len(up)].phys = @ + f.end - up[Len(up)].addr,
                            ![Len(up)].addr = f.end]
  /\ UNCHANGED <<mem_map, image, tbl, todo, prot, fresh, cpu>>

PARANGE_48 == 5

cpu_init ==
  /\ pc = "map" /\ stk = <<>> /\ todo = <<>> /\ pc' = "enable"
  /\ mair' = [a \in {ATTRINDX[mt] : mt \in DOMAIN ATTRINDX} |->
                CHOOSE mt \in DOMAIN ATTRINDX : ATTRINDX[mt] = a]
  /\ ips' = IF parange > PARANGE_48 THEN PARANGE_48 ELSE parange
  /\ UNCHANGED <<mem_map, image, tbl, todo, stk, prot, fresh, sctlr_M>>

(* enable_mmu returns -1 without 4K pages; paging_init goes on all the     *)
(* same and prints "enable mmu done".                                      *)
enable_mmu ==
  /\ pc = "enable" /\ pc' = "done"
  /\ sctlr_M' = tgran4
  /\ UNCHANGED <<mem_map, image, tbl, todo, stk, prot, fresh, mair, ips>>

Next == \/ clear_pgd \/ __create_pgd_mapping \/ early_pgtable_alloc \/ link_table
        \/ descend \/ pmd_set_section \/ set_pte \/ return
        \/ cpu_init \/ enable_mmu

(* Nothing takes the CPU from paging_init for good: interrupts return.     *)
Spec == Init /\ [][Next]_vars /\ WF_vars(Next)

(* Addresses looked at: every page of the first entry of the PGD and of    *)
(* one PUD entry more.                                                     *)
PageAddr == {k * PAGE_SIZE : k \in 0 .. (SIZE(0) + SIZE(1)) \div PAGE_SIZE - 1}

Walk(addr) == WalkPgd(tbl, idmap_pg_dir, addr)

(* What paging_init means to give: text may be read and executed, the rest *)
(* of memory and the devices read and written, nothing else is mapped.     *)
Wanted(addr) ==
  CASE PAGE_ALIGN(text_boot) <= addr /\ addr < PAGE_BALIGN(etext) ->
         [map |-> TRUE, write |-> FALSE, exec |-> TRUE, mem |-> "NORMAL"]
    [] PAGE_BALIGN(etext) <= addr /\ addr < TOTAL_MEMORY ->
         [map |-> TRUE, write |-> TRUE, exec |-> FALSE, mem |-> "NORMAL"]
    [] PBASE <= addr /\ addr < PBASE + DEVICE_SIZE ->
         [map |-> TRUE, write |-> TRUE, exec |-> FALSE, mem |-> "nGnRnE"]
    [] OTHER -> [map |-> FALSE]

(* Whether the walk w of addr gives what is wanted; mt is the memory type. *)
Gives(w, addr, mt) ==
  Wanted(addr) = IF w.fault THEN [map |-> FALSE]
                 ELSE [map |-> w.pa = addr, write |-> "RDONLY" \notin w.attr,
                       exec |-> "PXN" \notin w.attr, mem |-> mt]

(* alloc_init_pud / _pmd / _pte: after every single store an address       *)
(* either faults or already translates to itself with the rights it is to  *)
(* have: a new table is cleared before it is linked, no entry of another   *)
(* mapping is overwritten, and no stale or half-built entry is reachable.  *)
NeverMismapped ==
  pc # "memset" =>
    \A a \in PageAddr :
      LET w == Walk(a) IN w.fault \/ (Wanted(a).map /\ Gives(w, a, Wanted(a).mem))

(* paging_init: when the MMU is on the tables translate exactly the text,  *)
(* the memory and the device window, each with its rights and, through     *)
(* mair_el1, its memory type.                                              *)
MapsExactly ==
  sctlr_M => \A a \in PageAddr :
    LET w == Walk(a)
    IN  Gives(w, a, IF w.fault THEN "none" ELSE mair[w.attr \cap ATTRINDX_MASK])

Linked == {q \in TablePage \X (0 .. PTRS - 1) :
             /\ tbl[q[1]] # stale
             /\ tbl[q[1]][q[2]].attr = TYPE_TABLE}

(* early_pgtable_alloc: every table is linked from one entry only, is a    *)
(* page the allocator counts as taken, and never page 0, the value         *)
(* get_free_page returns when it has none left.                            *)
TablesFormTree ==
  /\ \A q, r \in Linked : tbl[q[1]][q[2]].pa = tbl[r[1]][r[2]].pa => q = r
  /\ \A q \in Linked : LET p == tbl[q[1]][q[2]].pa
                       IN  /\ p \in TablePage \ {0, idmap_pg_dir, fresh}
                           /\ mem_map[p \div PAGE_SIZE - LOW_MEMORY] = 1
==============================================================================
