------------------------------- MODULE PgTable -------------------------------
(***************************************************************************)
(* Translation tables: the index arithmetic and the descriptors of         *)
(* pgtable.h, pgtable_hwdef.h and pgtable_prot.h.  The four levels are     *)
(* numbered as the architecture numbers them (0 PGD, 1 PUD, 2 PMD, 3 PTE); *)
(* a table of any level has PTRS entries.  A descriptor is its output      *)
(* address and the set of its other bits.                                  *)
(***************************************************************************)
EXTENDS Integers

CONSTANTS PAGE_SIZE,    \* 1 << 12 in the code
          PTRS          \* 1 << 9: shifts 39, 30, 21 and 12 of the levels

ASSUME PgTableAssumption == PAGE_SIZE \in Nat \ {0} /\ PTRS \in Nat \ {0} /\ PTRS > 1

(* Bytes translated by one entry of level l.                               *)
SIZE(l) == CASE l = 3 -> PAGE_SIZE
             [] l = 2 -> PTRS * PAGE_SIZE
             [] l = 1 -> PTRS * (PTRS * PAGE_SIZE)
             [] l = 0 -> PTRS * (PTRS * (PTRS * PAGE_SIZE))

SECTION_SIZE == SIZE(2)

PAGE_ALIGN(x) == x - (x % PAGE_SIZE)

PAGE_BALIGN(x) == PAGE_ALIGN(x + PAGE_SIZE - 1)

index(l, addr) == (addr \div SIZE(l)) % PTRS

(* The end of the entry of addr, or end; a page is always done whole.      *)
addr_end(l, addr, end) ==
  LET boundary == addr + SIZE(l) - (addr % SIZE(l))
  IN  IF l = 3 \/ boundary - 1 < end - 1 THEN boundary ELSE end

(* AttrIndx[2:0] of the memory types of memory.h.                          *)
ATTRINDX == [nGnRnE |-> {}, nGnRE |-> {"A0"}, GRE |-> {"A1"},
             NORMAL_NC |-> {"A0", "A1"}, NORMAL |-> {"A2"},
             NORMAL_WT |-> {"A0", "A2"}]

ATTRINDX_MASK == {"A0", "A1", "A2"}

TYPE_TABLE == {"VALID", "TABLE_BIT"}

TYPE_SECT == {"VALID"}

PROT_DEFAULT == TYPE_TABLE \cup {"AF", "SHARED"}   \* PTE_TYPE_PAGE is 3 too

PROT(mt) == PROT_DEFAULT \cup {"PXN", "UXN", "DIRTY", "DBM"} \cup ATTRINDX[mt]

PAGE_KERNEL == PROT("NORMAL")

PAGE_KERNNEL_ROX == (PAGE_KERNEL \ {"DBM", "PXN"}) \cup {"RDONLY"}

mk_sect_prot(prot) == prot \ {"TABLE_BIT"}

none == [pa |-> 0, attr |-> {}]

sect(d) == d.attr \cap TYPE_TABLE = TYPE_SECT

full(d) == d.attr \cap TYPE_TABLE = TYPE_TABLE

(* The walk of the hardware through the tables t, where tab is the table   *)
(* of level l for addr: the descriptor that translates addr and its level, *)
(* or the level that faults.  Through memory that is no table it may lead  *)
(* anywhere (pa -1).                                                       *)
Found(t, l, tab, addr) ==
  LET d == t[tab][index(l, addr)] IN
  IF tab \notin DOMAIN t
  THEN [fault |-> FALSE, level |-> l, pa |-> -1, attr |-> {}]
  ELSE IF (full(d) /\ l = 3) \/ (sect(d) /\ l \in {1, 2})
  THEN [fault |-> FALSE, level |-> l, pa |-> d.pa + (addr % SIZE(l)), attr |-> d.attr]
  ELSE [fault |-> TRUE, level |-> l]

Leads(t, l, tab, addr) == tab \in DOMAIN t /\ full(t[tab][index(l, addr)])

WalkPmd(t, tab, addr) ==
  IF Leads(t, 2, tab, addr) THEN Found(t, 3, t[tab][index(2, addr)].pa, addr)
  ELSE Found(t, 2, tab, addr)

WalkPud(t, tab, addr) ==
  IF Leads(t, 1, tab, addr) THEN WalkPmd(t, t[tab][index(1, addr)].pa, addr)
  ELSE Found(t, 1, tab, addr)

WalkPgd(t, tab, addr) ==
  IF Leads(t, 0, tab, addr) THEN WalkPud(t, t[tab][index(0, addr)].pa, addr)
  ELSE Found(t, 0, tab, addr)
==============================================================================
