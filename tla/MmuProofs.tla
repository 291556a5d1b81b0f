------------------------------ MODULE MmuProofs ------------------------------
(***************************************************************************)
(* Proofs about Mmu: after every store of paging_init the tables form a    *)
(* tree, every address faults or translates to itself with the rights it   *)
(* is to have, and when the MMU is on exactly the wanted map is in force.  *)
(*                                                                         *)
(* The invariant gives every page that is a table a level lv and the       *)
(* number no of the entry above it, counted over all tables of that level: *)
(* entry i of a table of level l then stands for the addresses a with      *)
(* a \div SIZE(l) = no * PTRS + i.  Level 4 is a page that is no table.    *)
(***************************************************************************)
EXTENDS Mmu, TLAPS

slot(l, a) == a \div SIZE(l)

(* The three calls of __create_pgd_mapping.                                *)
Region == 1 .. 3

Start(k) == CASE k = 1 -> PAGE_ALIGN(text_boot)
              [] k = 2 -> PAGE_BALIGN(etext)
              [] k = 3 -> PBASE

End(k) == CASE k = 1 -> PAGE_BALIGN(etext)
            [] k = 2 -> PAGE_BALIGN(TOTAL_MEMORY)
            [] k = 3 -> PAGE_BALIGN(PBASE + DEVICE_SIZE)

Prot(k) == CASE k = 1 -> PAGE_KERNNEL_ROX
             [] k = 2 -> PAGE_KERNEL
             [] k = 3 -> PROT("nGnRnE")

LeafAttr(k, l) == IF l = 3 THEN Prot(k) ELSE TYPE_SECT \cup mk_sect_prot(Prot(k))

(* The call in progress, or the last one.                                  *)
cur == 3 - Len(todo)

Todo(k) ==
  CASE k = 0 -> << Mapping(text_boot, etext, PAGE_KERNNEL_ROX),
                   Mapping(PAGE_BALIGN(etext), TOTAL_MEMORY, PAGE_KERNEL),
                   Mapping(PBASE, PBASE + DEVICE_SIZE, PROT("nGnRnE")) >>
    [] k = 1 -> << Mapping(PAGE_BALIGN(etext), TOTAL_MEMORY, PAGE_KERNEL),
                   Mapping(PBASE, PBASE + DEVICE_SIZE, PROT("nGnRnE")) >>
    [] k = 2 -> << Mapping(PBASE, PBASE + DEVICE_SIZE, PROT("nGnRnE")) >>
    [] k = 3 -> <<>>

(* The addresses of slot s of level l lie in mapping k.                    *)
Inside(k, l, s) == Start(k) <= s * SIZE(l) /\ (s + 1) * SIZE(l) <= End(k)

Child(lv, no, d, l, s) ==
  /\ l < 3 /\ d.attr = TYPE_TABLE /\ d.pa \in TablePage
  /\ lv[d.pa] = l + 1 /\ no[d.pa] = s

LeafOf(d, l, s) ==
  /\ l \in {2, 3} /\ d.pa = s * SIZE(l)
  /\ \E k \in Region : Inside(k, l, s) /\ d.attr = LeafAttr(k, l)

EntryOk(lv, no, d, l, s) == d = none \/ Child(lv, no, d, l, s) \/ LeafOf(d, l, s)

Shape(lv, no) ==
  /\ lv \in [TablePage -> 0 .. 4] /\ no \in [TablePage -> Nat]
  /\ lv[idmap_pg_dir] = 0 /\ no[idmap_pg_dir] = 0
  /\ lv[0] = 4
  /\ \A p \in TablePage : lv[p] = 0 => p = idmap_pg_dir
  /\ \A p \in TablePage : lv[p] = 1 => no[p] < PTRS

Filled(lv, no) ==
  \A p \in TablePage : \A i \in 0 .. PTRS - 1 :
    lv[p] # 4 => EntryOk(lv, no, tbl[p][i], lv[p], no[p] * PTRS + i)

Linkage(lv, no) ==
  \A p \in TablePage : lv[p] \in 1 .. 3 =>
    \E q \in TablePage : /\ lv[q] = lv[p] - 1 /\ no[q] = no[p] \div PTRS
                         /\ tbl[q][no[p] % PTRS].pa = p
                         /\ tbl[q][no[p] % PTRS].attr = TYPE_TABLE

Distinct(lv, no) ==
  \A p, q \in TablePage : lv[p] # 4 /\ lv[p] = lv[q] /\ no[p] = no[q] => p = q

(* A page table covers no slot that a section could map.                   *)
Ragged(lv, no) ==
  \A p \in TablePage : \A k \in Region : lv[p] = 3 => ~Inside(k, 2, no[p])

Needed(lv, no) ==
  \A p \in TablePage : lv[p] \in 1 .. 3 => <<lv[p], no[p]>> \in TablesNeeded

Taken(lv) ==
  /\ mem_map \in [MapIndex -> {0, 1}]
  /\ \A i \in MapIndex : mem_map[i] = 1 <=> \/ lv[(LOW_MEMORY + i) * PAGE_SIZE] # 4
                                            \/ fresh = (LOW_MEMORY + i) * PAGE_SIZE
  /\ \A p \in TablePage : lv[p] = 4 /\ p # fresh => tbl[p] = stale

FrameOk(lv, no, j) ==
  LET g == stk[j]
  IN  /\ g.l = j - 1 /\ g.tab \in TablePage /\ lv[g.tab] = j - 1
      /\ g.addr \in Nat /\ g.end \in Nat /\ g.phys = g.addr
      /\ Start(cur) <= g.addr /\ g.addr <= g.end /\ g.end <= End(cur)
      /\ g.addr % PAGE_SIZE = 0 /\ g.end % PAGE_SIZE = 0
      /\ g.addr = Start(cur) \/ g.addr % SIZE(j - 1) = 0 \/ g.addr = g.end
      /\ g.end = End(cur) \/ (j > 1 /\ g.end % SIZE(j - 2) = 0)
      /\ no[g.tab] * (PTRS * SIZE(j - 1)) <= g.addr
      /\ g.end <= (no[g.tab] + 1) * (PTRS * SIZE(j - 1))

Frame == [l : Int, tab : Int, addr : Int, end : Int, phys : Int]

Frames(lv, no) ==
  /\ stk \in Seq(Frame) /\ Len(stk) \in 0 .. 4
  /\ \A j \in 1 .. Len(stk) : FrameOk(lv, no, j)
  /\ \A j \in 1 .. Len(stk) - 1 :
       /\ stk[j].addr # stk[j].end
       /\ stk[j + 1].end = addr_end(j - 1, stk[j].addr, stk[j].end)
  /\ stk # <<>> => cur \in Region /\ prot = Prot(cur)

FreshOk(lv) ==
  fresh # -1 =>
    /\ Looping /\ f.l < 3 /\ ~section_fits /\ entry = none
    /\ fresh \in TablePage /\ lv[fresh] = 4 /\ fresh # 0
    /\ tbl[fresh] = cleared

Mapped(lv, no, a) ==
  \E p \in TablePage :
    /\ lv[p] \in {2, 3} /\ no[p] = slot(lv[p] - 1, a)
    /\ LET d == tbl[p][index(lv[p], a)]
       IN  d # none /\ (lv[p] = 2 => d.attr # TYPE_TABLE)

(* How far mapping k has come.                                             *)
Upto(k) == CASE k < cur -> End(k)
             [] k = cur -> IF stk = <<>> THEN End(k) ELSE f.addr
             [] OTHER -> Start(k)

Progress(lv, no) ==
  \A k \in Region : \A a \in Nat :
    Start(k) <= a /\ a < Upto(k) => Mapped(lv, no, a)

Mair == [a \in {ATTRINDX[mt] : mt \in DOMAIN ATTRINDX} |->
           CHOOSE mt \in DOMAIN ATTRINDX : ATTRINDX[mt] = a]

Tables(lv, no) ==
  /\ Shape(lv, no) /\ Filled(lv, no) /\ Linkage(lv, no) /\ Distinct(lv, no)
  /\ Ragged(lv, no) /\ Needed(lv, no)

Bits == {"VALID", "TABLE_BIT", "AF", "SHARED", "PXN", "UXN", "DIRTY", "DBM", "RDONLY"}
          \cup ATTRINDX_MASK

Descriptor == [pa : Int, attr : SUBSET Bits]

Control ==
  /\ etext \in Etext
  /\ pc \in {"memset", "map", "enable", "done"}
  /\ tbl \in [TablePage -> [0 .. PTRS - 1 -> Descriptor]]
  /\ pc = "memset" => /\ mem_map = [i \in MapIndex |-> 0]
                      /\ tbl = [p \in TablePage |-> stale]
                      /\ stk = <<>> /\ todo = <<>> /\ fresh = -1
  /\ pc # "memset" => Len(todo) \in 0 .. 3 /\ todo = Todo(cur)
  /\ pc \in {"enable", "done"} => stk = <<>> /\ todo = <<>> /\ mair = Mair
  /\ sctlr_M => pc = "done"

Built(lv, no) ==
  Tables(lv, no) /\ Taken(lv) /\ Frames(lv, no) /\ FreshOk(lv) /\ Progress(lv, no)

MmuInv == Control /\ (pc # "memset" => \E lv, no : Built(lv, no))

------------------------------------------------------------------------------
(* Division, for addresses and sizes.                                      *)

LEMMA DivIs ==
  ASSUME NEW x \in Nat, NEW s \in Nat \ {0}, NEW n \in Nat,
         n * s <= x, x < (n + 1) * s
  PROVE  x \div s = n
  BY SMTT(30)

LEMMA DivBounds ==
  ASSUME NEW x \in Nat, NEW s \in Nat \ {0}
  PROVE  /\ x \div s \in Nat
         /\ (x \div s) * s <= x /\ x < (x \div s + 1) * s
         /\ x % s \in 0 .. s - 1 /\ x = (x \div s) * s + (x % s)
<1>1. /\ x \div s \in Nat /\ x % s \in 0 .. s - 1
      /\ x = (x \div s) * s + (x % s)
  BY SMTT(30)
<1>2. (x \div s + 1) * s = (x \div s) * s + s /\ (x \div s) * s \in Nat
  BY <1>1, SMTT(30)
<1> QED
  BY <1>1, <1>2, SMTT(30)

LEMMA DivDiv ==
  ASSUME NEW x \in Nat, NEW s \in Nat \ {0}, NEW t \in Nat \ {0}
  PROVE  (x \div s) \div t = x \div (t * s)
  BY SMTT(30)

(* What number n and entry i say of s = n * t + i.                         *)
LEMMA Digits ==
  ASSUME NEW n \in Nat, NEW t \in Nat \ {0}, NEW i \in 0 .. t - 1
  PROVE  (n * t + i) \div t = n /\ (n * t + i) % t = i
  BY SMTT(30)

LEMMA AlignedIs ==
  ASSUME NEW x \in Nat, NEW s \in Nat \ {0}, x % s = 0
  PROVE  x = (x \div s) * s
  BY DivBounds

LEMMA MultipleAligned ==
  ASSUME NEW n \in Nat, NEW s \in Nat \ {0}
  PROVE  (n * s) % s = 0
  BY SMTT(30)

(* Two multiples of s at most s apart.                                     *)
LEMMA Multiples ==
  ASSUME NEW m \in Nat, NEW n \in Nat, NEW s \in Nat \ {0}
  PROVE  /\ m * s < n * s => m + 1 <= n /\ (m + 1) * s <= n * s
         /\ m * s < (n + 1) * s => m <= n /\ m * s <= n * s
  BY SMTT(30)

LEMMA SizeType == \A l \in 0 .. 3 : SIZE(l) \in Nat \ {0}
  BY PgTableAssumption DEF SIZE

LEMMA SizeUp == \A l \in 1 .. 3 : SIZE(l - 1) = PTRS * SIZE(l)
  BY PgTableAssumption DEF SIZE

LEMMA SizePages == \A l \in 0 .. 3 : \E m \in Nat \ {0} : SIZE(l) = m * PAGE_SIZE
<1>1. 1 \in Nat \ {0} /\ SIZE(3) = 1 * PAGE_SIZE
  BY PgTableAssumption DEF SIZE
<1>2. PTRS \in Nat \ {0} /\ SIZE(2) = PTRS * PAGE_SIZE
  BY PgTableAssumption DEF SIZE
<1>3. PTRS * PTRS \in Nat \ {0} /\ SIZE(1) = (PTRS * PTRS) * PAGE_SIZE
  BY PgTableAssumption DEF SIZE
<1>4. PTRS * (PTRS * PTRS) \in Nat \ {0} /\ SIZE(0) = (PTRS * (PTRS * PTRS)) * PAGE_SIZE
  BY PgTableAssumption DEF SIZE
<1>5. \A l \in 0 .. 3 : l = 0 \/ l = 1 \/ l = 2 \/ l = 3
  OBVIOUS
<1> QED
  BY <1>1, <1>2, <1>3, <1>4, <1>5, Zenon

(* A multiple of the size of a level is one of every lower level.          *)
LEMMA AlignedBelow ==
  ASSUME NEW l \in 1 .. 3, NEW x \in Nat, x % SIZE(l - 1) = 0
  PROVE  x % SIZE(l) = 0
<1>1. SIZE(l) \in Nat \ {0} /\ SIZE(l - 1) \in Nat \ {0} /\ SIZE(l - 1) = PTRS * SIZE(l)
  BY SizeType, SizeUp
<1>2. x = (x \div SIZE(l - 1)) * SIZE(l - 1) /\ x \div SIZE(l - 1) \in Nat
  BY Zenon, <1>1, AlignedIs, DivBounds
<1>3. PICK n \in Nat : x = n * SIZE(l)
  <2>1. x = ((x \div SIZE(l - 1)) * PTRS) * SIZE(l) /\ (x \div SIZE(l - 1)) * PTRS \in Nat
    BY <1>1, <1>2, PgTableAssumption
  <2> QED BY <2>1
<1> QED
  BY Zenon, <1>1, <1>3, MultipleAligned

LEMMA AlignedPage ==
  ASSUME NEW l \in 0 .. 3, NEW x \in Nat, x % SIZE(l) = 0
  PROVE  x % PAGE_SIZE = 0
<1>1. PICK m \in Nat \ {0} : SIZE(l) = m * PAGE_SIZE
  BY SizePages
<1>2. x = (x \div SIZE(l)) * SIZE(l) /\ x \div SIZE(l) \in Nat
  BY Zenon, SizeType, AlignedIs, DivBounds
<1>3. PICK n \in Nat : x = n * PAGE_SIZE
  <2>1. x = ((x \div SIZE(l)) * m) * PAGE_SIZE /\ (x \div SIZE(l)) * m \in Nat
    BY <1>1, <1>2, PgTableAssumption
  <2> QED BY <2>1
<1> QED
  BY <1>3, MultipleAligned, PgTableAssumption

LEMMA AlignDown ==
  ASSUME NEW x \in Nat
  PROVE  /\ PAGE_ALIGN(x) \in Nat /\ PAGE_ALIGN(x) % PAGE_SIZE = 0
         /\ PAGE_ALIGN(x) <= x /\ x < PAGE_ALIGN(x) + PAGE_SIZE
<1>1. /\ x \div PAGE_SIZE \in Nat /\ x % PAGE_SIZE \in 0 .. PAGE_SIZE - 1
      /\ x = (x \div PAGE_SIZE) * PAGE_SIZE + (x % PAGE_SIZE)
  BY DivBounds, PgTableAssumption, Zenon
<1>2. (x \div PAGE_SIZE) * PAGE_SIZE \in Nat /\ PAGE_ALIGN(x) = (x \div PAGE_SIZE) * PAGE_SIZE
  BY <1>1, PgTableAssumption DEF PAGE_ALIGN
<1> QED
  BY <1>1, <1>2, MultipleAligned, PgTableAssumption

(* Pages on both sides of a rounded address.                               *)
LEMMA PagesApart ==
  ASSUME NEW a \in Nat, NEW b \in Nat, a % PAGE_SIZE = 0, b % PAGE_SIZE = 0, a < b
  PROVE  a + PAGE_SIZE <= b
<1>1. /\ a = (a \div PAGE_SIZE) * PAGE_SIZE /\ a \div PAGE_SIZE \in Nat
      /\ b = (b \div PAGE_SIZE) * PAGE_SIZE /\ b \div PAGE_SIZE \in Nat
  BY AlignedIs, DivBounds, PgTableAssumption, Zenon
<1> DEFINE m == a \div PAGE_SIZE
           n == b \div PAGE_SIZE
<1>2. m + 1 <= n /\ (m + 1) * PAGE_SIZE <= n * PAGE_SIZE
  <2> HIDE DEF m, n
  <2> QED BY <1>1, Multiples, PgTableAssumption DEF m, n
<1>3. (m + 1) * PAGE_SIZE = m * PAGE_SIZE + PAGE_SIZE
  <2>1. m \in Nat BY <1>1
  <2> HIDE DEF m, n
  <2> QED BY <2>1, PgTableAssumption
<1> QED
  BY <1>1, <1>2, <1>3

LEMMA AlignUp ==
  ASSUME NEW x \in Nat
  PROVE  /\ PAGE_BALIGN(x) \in Nat /\ PAGE_BALIGN(x) % PAGE_SIZE = 0
         /\ x <= PAGE_BALIGN(x)
         /\ \A a \in Nat : a % PAGE_SIZE = 0 => (a < PAGE_BALIGN(x) <=> a < x)
<1>1. x + PAGE_SIZE - 1 \in Nat
  BY PgTableAssumption
<1>2. /\ PAGE_BALIGN(x) \in Nat /\ PAGE_BALIGN(x) % PAGE_SIZE = 0
      /\ PAGE_BALIGN(x) <= x + PAGE_SIZE - 1
      /\ x + PAGE_SIZE - 1 < PAGE_BALIGN(x) + PAGE_SIZE
  BY <1>1, AlignDown DEF PAGE_BALIGN
<1>3. ASSUME NEW a \in Nat, a % PAGE_SIZE = 0, a < PAGE_BALIGN(x)
      PROVE  a < x
  BY <1>2, <1>3, PagesApart, PgTableAssumption
<1> QED
  BY <1>2, <1>3, PgTableAssumption

(* The mappings are apart, in rising order, within the range of the tables.*)
LEMMA Regions ==
  ASSUME etext \in Etext
  PROVE  /\ \A k \in Region : /\ Start(k) \in Nat /\ End(k) \in Nat /\ Start(k) < End(k)
                              /\ Start(k) % PAGE_SIZE = 0 /\ End(k) % PAGE_SIZE = 0
                              /\ End(k) <= PTRS * SIZE(0)
         /\ End(1) <= Start(2) /\ End(2) <= Start(3)
<1>1. /\ etext \in Nat /\ text_boot \in Nat /\ text_boot < etext
      /\ PAGE_BALIGN(etext) < TOTAL_MEMORY
      /\ TOTAL_MEMORY \in Nat /\ PBASE \in Nat /\ PBASE % PAGE_SIZE = 0
      /\ DEVICE_SIZE \in Nat \ {0} /\ PBASE + DEVICE_SIZE \in Nat
      /\ TOTAL_MEMORY <= PBASE /\ PBASE + DEVICE_SIZE <= PTRS * SIZE(0)
  BY MmuAssumption
<1>2. PTRS * SIZE(0) \in Nat /\ (PTRS * SIZE(0)) % PAGE_SIZE = 0
  <2>1. SIZE(0) \in Nat \ {0} /\ PTRS \in Nat /\ PTRS * SIZE(0) \in Nat
    BY SizeType, PgTableAssumption
  <2>2. (PTRS * SIZE(0)) % SIZE(0) = 0
    BY <2>1, MultipleAligned, Zenon
  <2> QED
    BY <2>1, <2>2, AlignedPage
<1>3. /\ PAGE_ALIGN(text_boot) \in Nat /\ PAGE_ALIGN(text_boot) % PAGE_SIZE = 0
      /\ PAGE_ALIGN(text_boot) <= text_boot
  BY <1>1, AlignDown
<1>4. /\ PAGE_BALIGN(etext) \in Nat /\ PAGE_BALIGN(etext) % PAGE_SIZE = 0
      /\ etext <= PAGE_BALIGN(etext)
  BY <1>1, AlignUp
<1>5. /\ PAGE_BALIGN(TOTAL_MEMORY) \in Nat /\ PAGE_BALIGN(TOTAL_MEMORY) % PAGE_SIZE = 0
      /\ TOTAL_MEMORY <= PAGE_BALIGN(TOTAL_MEMORY)
      /\ PBASE < PAGE_BALIGN(TOTAL_MEMORY) => PBASE < TOTAL_MEMORY
  BY <1>1, AlignUp
<1>6. /\ PAGE_BALIGN(PBASE + DEVICE_SIZE) \in Nat
      /\ PAGE_BALIGN(PBASE + DEVICE_SIZE) % PAGE_SIZE = 0
      /\ PBASE + DEVICE_SIZE <= PAGE_BALIGN(PBASE + DEVICE_SIZE)
      /\ PTRS * SIZE(0) < PAGE_BALIGN(PBASE + DEVICE_SIZE) => PTRS * SIZE(0) < PBASE + DEVICE_SIZE
  BY <1>1, <1>2, AlignUp
<1>7. PTRS * SIZE(0) \in Nat /\ \A k \in Region : k = 1 \/ k = 2 \/ k = 3
  BY <1>2 DEF Region
<1> HIDE DEF Region
<1> QED
  BY <1>1, <1>3, <1>4, <1>5, <1>6, <1>7, SMTT(30) DEF Start, End

(* The entry of a in the table that covers it.                             *)
LEMMA IndexSlot ==
  ASSUME NEW l \in 0 .. 3, NEW n \in Nat, NEW a \in Nat,
         n * (PTRS * SIZE(l)) <= a, a < (n + 1) * (PTRS * SIZE(l))
  PROVE  /\ index(l, a) \in 0 .. PTRS - 1 /\ slot(l, a) \in Nat
         /\ slot(l, a) = n * PTRS + index(l, a)
         /\ slot(l, a) * SIZE(l) <= a /\ a < (slot(l, a) + 1) * SIZE(l)
<1>1. SIZE(l) \in Nat \ {0} /\ PTRS \in Nat \ {0} /\ PTRS * SIZE(l) \in Nat \ {0}
  BY SizeType, PgTableAssumption
<1>2. a \div (PTRS * SIZE(l)) = n
  BY <1>1, DivIs, Zenon
<1>3. (a \div SIZE(l)) \div PTRS = n
  BY <1>1, <1>2, DivDiv, Zenon
<1>4. /\ a \div SIZE(l) \in Nat
      /\ (a \div SIZE(l)) * SIZE(l) <= a /\ a < (a \div SIZE(l) + 1) * SIZE(l)
  BY <1>1, DivBounds, Zenon
<1>5. /\ (a \div SIZE(l)) % PTRS \in 0 .. PTRS - 1
      /\ a \div SIZE(l) = ((a \div SIZE(l)) \div PTRS) * PTRS + ((a \div SIZE(l)) % PTRS)
  BY <1>1, <1>4, DivBounds, Zenon
<1> QED
  BY <1>3, <1>4, <1>5, Zenon DEF index, slot

(* The addresses of slot s all use the same entry of the same table.       *)
LEMMA SameSlot ==
  ASSUME NEW l \in 0 .. 3, NEW n \in Nat, NEW i \in 0 .. PTRS - 1, NEW a \in Nat,
         (n * PTRS + i) * SIZE(l) <= a, a < (n * PTRS + i + 1) * SIZE(l)
  PROVE  slot(l, a) = n * PTRS + i /\ index(l, a) = i /\ (l > 0 => slot(l - 1, a) = n)
<1>1. SIZE(l) \in Nat \ {0} /\ PTRS \in Nat \ {0} /\ n * PTRS + i \in Nat
  BY SizeType, PgTableAssumption
<1>2. a \div SIZE(l) = n * PTRS + i
  BY <1>1, DivIs, Zenon
<1>3. (n * PTRS + i) \div PTRS = n /\ (n * PTRS + i) % PTRS = i
  BY <1>1, Digits, Zenon
<1>4. l > 0 => slot(l - 1, a) = n
  <2>1. a \div (PTRS * SIZE(l)) = n
    <3>1. (a \div SIZE(l)) \div PTRS = n
      BY <1>2, <1>3, Zenon
    <3> QED
      BY <1>1, <3>1, DivDiv, Zenon
  <2>2. l > 0 => SIZE(l - 1) = PTRS * SIZE(l)
    BY SizeUp
  <2> QED
    BY <2>1, <2>2, Zenon DEF slot
<1> QED
  BY <1>2, <1>3, <1>4, Zenon DEF index, slot

(* pgd_addr_end and its like: the loop goes to the end of the entry, or to *)
(* its own end.                                                            *)
LEMMA AddrEnd ==
  ASSUME NEW l \in 0 .. 3, NEW a \in Nat, NEW e \in Nat, a < e,
         a % PAGE_SIZE = 0, e % PAGE_SIZE = 0
  PROVE  LET x == addr_end(l, a, e)
         IN  /\ x \in Nat /\ a < x /\ x <= e /\ x % PAGE_SIZE = 0
             /\ x <= (slot(l, a) + 1) * SIZE(l)
             /\ x = e \/ x = (slot(l, a) + 1) * SIZE(l)
             /\ x = e \/ x % SIZE(l) = 0
<1> DEFINE b == a + SIZE(l) - (a % SIZE(l))
<1>1. SIZE(l) \in Nat \ {0}
  BY SizeType
<1>2. /\ a \div SIZE(l) \in Nat /\ a = (a \div SIZE(l)) * SIZE(l) + (a % SIZE(l))
      /\ a % SIZE(l) \in 0 .. SIZE(l) - 1
  BY <1>1, DivBounds, Zenon
<1>3. b \in Nat /\ a < b /\ b = (a \div SIZE(l) + 1) * SIZE(l)
  <2>1. \A q, s, r \in Nat : (q + 1) * s = (q * s + r) + s - r
    BY SMTT(30)
  <2>2. a + SIZE(l) - (a % SIZE(l)) = (a \div SIZE(l) + 1) * SIZE(l)
    BY <1>1, <1>2, <2>1
  <2>3. \A r \in 0 .. SIZE(l) - 1 : a + SIZE(l) - r \in Nat /\ a < a + SIZE(l) - r
    BY <1>1
  <2> QED
    BY <1>2, <2>2, <2>3, Zenon
<1>4. b % SIZE(l) = 0
  <2>1. a \div SIZE(l) + 1 \in Nat
    BY <1>2
  <2> QED
    BY <1>1, <1>3, <2>1, MultipleAligned, Zenon
<1>5. b % PAGE_SIZE = 0
  BY <1>3, <1>4, AlignedPage, Zenon
<1>6. l = 3 => b <= e
  <2>1. l = 3 => SIZE(l) = PAGE_SIZE
    BY DEF SIZE
  <2>2. l = 3 => b = a + PAGE_SIZE
    BY <2>1, PgTableAssumption
  <2> QED
    BY <2>2, PagesApart
<1> HIDE DEF b
<1>7. addr_end(l, a, e) = IF l = 3 \/ b - 1 < e - 1 THEN b ELSE e
  BY DEF addr_end, b
<1>8. b = (slot(l, a) + 1) * SIZE(l)
  BY <1>3 DEF slot
<1> QED
  BY <1>3, <1>4, <1>5, <1>6, <1>7, <1>8

------------------------------------------------------------------------------
(* The innermost loop: its table, the entry it is at and where that ends.  *)

here == slot(f.l, f.addr)

LEMMA Here ==
  ASSUME etext \in Etext, NEW lv, NEW no, Shape(lv, no), Frames(lv, no), Looping
  PROVE  /\ f.l \in 0 .. 3 /\ Len(stk) = f.l + 1 /\ cur \in Region /\ prot = Prot(cur)
         /\ f.tab \in TablePage /\ lv[f.tab] = f.l /\ no[f.tab] \in Nat
         /\ f.addr \in Nat /\ f.end \in Nat /\ f.phys = f.addr
         /\ Start(cur) <= f.addr /\ f.addr < f.end /\ f.end <= End(cur)
         /\ index(f.l, f.addr) \in 0 .. PTRS - 1 /\ here \in Nat
         /\ here = no[f.tab] * PTRS + index(f.l, f.addr)
         /\ here * SIZE(f.l) <= f.addr /\ f.addr < (here + 1) * SIZE(f.l)
         /\ next \in Nat /\ f.addr < next /\ next <= f.end /\ next % PAGE_SIZE = 0
         /\ next <= (here + 1) * SIZE(f.l)
         /\ next = f.end \/ next = (here + 1) * SIZE(f.l)
         /\ next = f.end \/ next % SIZE(f.l) = 0
         /\ f.addr % PAGE_SIZE = 0
         /\ f.addr = Start(cur) \/ f.addr % SIZE(f.l) = 0
         /\ next = End(cur) \/ next % SIZE(f.l) = 0
<1>1. /\ Len(stk) \in 1 .. 4 /\ FrameOk(lv, no, Len(stk))
      /\ cur \in Region /\ prot = Prot(cur) /\ f.addr # f.end
  BY DEF Frames, Looping
<1>2. /\ f.l = Len(stk) - 1 /\ f.tab \in TablePage /\ lv[f.tab] = f.l
      /\ f.addr \in Nat /\ f.end \in Nat /\ f.phys = f.addr
      /\ Start(cur) <= f.addr /\ f.addr <= f.end /\ f.end <= End(cur)
      /\ f.addr % PAGE_SIZE = 0 /\ f.end % PAGE_SIZE = 0
      /\ f.addr = Start(cur) \/ f.addr % SIZE(f.l) = 0
      /\ f.end = End(cur) \/ (f.l > 0 /\ f.end % SIZE(f.l - 1) = 0)
      /\ no[f.tab] * (PTRS * SIZE(f.l)) <= f.addr
      /\ f.end <= (no[f.tab] + 1) * (PTRS * SIZE(f.l))
  BY <1>1 DEF FrameOk, f
<1>3. f.l \in 0 .. 3 /\ Len(stk) = f.l + 1 /\ f.addr < f.end /\ no[f.tab] \in Nat
  BY <1>1, <1>2 DEF Shape
<1>4. f.addr < (no[f.tab] + 1) * (PTRS * SIZE(f.l))
  <2>1. \A x, y \in Nat : x * y \in Nat /\ (x + 1) * y \in Nat
    BY SMTT(30)
  <2>2. SIZE(f.l) \in Nat /\ PTRS \in Nat
    BY <1>3, SizeType, PgTableAssumption, Zenon
  <2>3. (no[f.tab] + 1) * (PTRS * SIZE(f.l)) \in Nat
    BY <1>3, <2>1, <2>2, Zenon
  <2> QED
    BY <1>2, <1>3, <2>3
<1>5. /\ index(f.l, f.addr) \in 0 .. PTRS - 1 /\ here \in Nat
      /\ here = no[f.tab] * PTRS + index(f.l, f.addr)
      /\ here * SIZE(f.l) <= f.addr /\ f.addr < (here + 1) * SIZE(f.l)
  BY <1>2, <1>3, <1>4, IndexSlot, Zenon DEF here
<1>6. /\ next \in Nat /\ f.addr < next /\ next <= f.end /\ next % PAGE_SIZE = 0
      /\ next <= (here + 1) * SIZE(f.l)
      /\ next = f.end \/ next = (here + 1) * SIZE(f.l)
      /\ next = f.end \/ next % SIZE(f.l) = 0
  BY <1>2, <1>3, AddrEnd, Zenon DEF here, next
<1>7. next = End(cur) \/ next % SIZE(f.l) = 0
  <2>1. CASE f.l > 0 /\ f.end % SIZE(f.l - 1) = 0
    <3>1. f.l \in 1 .. 3
      BY <1>3, <2>1
    <3>2. f.end % SIZE(f.l) = 0
      BY <1>2, <2>1, <3>1, AlignedBelow, Zenon
    <3> QED
      BY <1>6, <3>2, Zenon
  <2> QED
    BY <1>2, <1>6, <2>1, Zenon
<1> QED
  BY <1>1, <1>2, <1>3, <1>5, <1>6, <1>7, Zenon

(* A section goes into a slot that lies in the mapping; a slot that takes  *)
(* none lies in no mapping: it holds the first or the last page of this one.*)
LEMMA SectionFits ==
  ASSUME etext \in Etext, NEW lv, NEW no, Shape(lv, no), Frames(lv, no), Looping, f.l = 2
  PROVE  /\ section_fits => /\ f.addr = here * SIZE(2) /\ next = (here + 1) * SIZE(2)
                            /\ Inside(cur, 2, here)
         /\ ~section_fits => \A k \in Region : ~Inside(k, 2, here)
<1>1. SIZE(2) \in Nat \ {0} /\ here \in Nat /\ f.addr \in Nat /\ next \in Nat /\ cur \in Region
  BY Here, SizeType
<1>2. here * SIZE(2) \in Nat /\ (here + 1) * SIZE(2) \in Nat
  BY <1>1
<1>3. /\ here * SIZE(2) <= f.addr /\ f.addr < (here + 1) * SIZE(2) /\ f.phys = f.addr
      /\ next <= (here + 1) * SIZE(2) /\ f.addr < next
      /\ Start(cur) <= f.addr /\ next <= f.end /\ f.end <= End(cur) /\ f.end \in Nat
      /\ f.addr = Start(cur) \/ f.addr % SIZE(2) = 0
      /\ next = End(cur) \/ next % SIZE(2) = 0
  BY Here, Zenon
<1>4. f.addr % SIZE(2) = 0 => f.addr = here * SIZE(2)
  <2>1. f.addr % SIZE(2) = 0 => f.addr = (f.addr \div SIZE(2)) * SIZE(2)
    BY <1>1, AlignedIs, Zenon
  <2>2. f.addr \div SIZE(2) = here
    BY DEF here, slot
  <2> QED
    BY <2>1, <2>2, Zenon
<1>5. next % SIZE(2) = 0 => next = (here + 1) * SIZE(2)
  <2>1. SUFFICES ASSUME next % SIZE(2) = 0
                 PROVE  next = (here + 1) * SIZE(2)
    OBVIOUS
  <2>2. PICK n \in Nat : next = n * SIZE(2)
    BY <1>1, <2>1, AlignedIs, DivBounds, Zenon
  <2>3. here * SIZE(2) < n * SIZE(2)
    BY <1>1, <1>2, <1>3, <2>2
  <2>4. (here + 1) * SIZE(2) <= n * SIZE(2)
    BY <1>1, <2>3, Multiples
  <2> QED
    BY <1>1, <1>2, <1>3, <2>2, <2>4
<1>6. Start(cur) \in Nat /\ End(cur) \in Nat
  BY <1>1, Regions
<1>7. ASSUME section_fits
      PROVE  f.addr = here * SIZE(2) /\ next = (here + 1) * SIZE(2) /\ Inside(cur, 2, here)
  <2>1. f.addr = here * SIZE(2) /\ next = (here + 1) * SIZE(2)
    BY <1>4, <1>5, <1>7, Zenon DEF section_fits, SECTION_SIZE
  <2> QED
    BY <1>1, <1>2, <1>3, <1>6, <2>1 DEF Inside
<1>8. ASSUME ~section_fits, NEW k \in Region, Inside(k, 2, here)
      PROVE  FALSE
  <2>1. Start(k) \in Nat /\ End(k) \in Nat
    BY Regions
  <2>2. Start(k) <= f.addr /\ f.addr < End(k)
    BY <1>1, <1>2, <1>3, <1>8, <2>1 DEF Inside
  <2>3. k = cur
    BY <1>1, <1>3, <1>6, <2>1, <2>2, Regions DEF Region
  <2>4. f.addr % SIZE(2) # 0 \/ next % SIZE(2) # 0
    BY <1>3, <1>8, Zenon DEF section_fits, SECTION_SIZE
  <2>5. CASE f.addr % SIZE(2) # 0
    <3>1. f.addr = Start(cur)
      BY <1>3, <2>5, Zenon
    <3>2. f.addr = here * SIZE(2)
      BY <1>1, <1>2, <1>3, <1>8, <2>3, <3>1 DEF Inside
    <3> QED
      BY <1>1, <2>5, <3>2, MultipleAligned, Zenon
  <2>6. CASE next % SIZE(2) # 0
    <3>1. next = End(cur)
      BY <1>3, <2>6, Zenon
    <3>2. next = (here + 1) * SIZE(2)
      BY <1>1, <1>2, <1>3, <1>8, <2>3, <3>1 DEF Inside
    <3>3. here + 1 \in Nat
      BY <1>1
    <3> QED
      BY <1>1, <2>6, <3>2, <3>3, MultipleAligned, Zenon
  <2> QED
    BY <2>4, <2>5, <2>6, Zenon
<1> QED
  BY <1>7, <1>8, Zenon

------------------------------------------------------------------------------
(* The attributes of the three mappings.                                   *)

LEMMA Types ==
  /\ TYPE_TABLE \in SUBSET Bits /\ TYPE_TABLE # {} /\ {} \in SUBSET Bits
  /\ PROT_DEFAULT \in SUBSET Bits
  /\ TYPE_TABLE \cap TYPE_TABLE = TYPE_TABLE
  /\ {} \cap TYPE_TABLE # TYPE_TABLE /\ {} \cap TYPE_TABLE # TYPE_SECT
  BY DEF TYPE_TABLE, TYPE_SECT, PROT_DEFAULT, Bits

LEMMA Prots ==
  ASSUME NEW k \in Region
  PROVE  /\ Prot(k) \in SUBSET Bits
         /\ {"VALID", "TABLE_BIT", "AF"} \subseteq Prot(k)
         /\ "RDONLY" \in Prot(k) <=> k = 1
         /\ "PXN" \in Prot(k) <=> k # 1
         /\ Prot(k) \cap ATTRINDX_MASK = IF k = 3 THEN {} ELSE {"A2"}
<1>1. CASE k = 1
  BY <1>1 DEF Prot, Bits, ATTRINDX_MASK, PAGE_KERNNEL_ROX, PAGE_KERNEL, PROT, PROT_DEFAULT, TYPE_TABLE, ATTRINDX
<1>2. CASE k = 2
  BY <1>2 DEF Prot, Bits, ATTRINDX_MASK, PAGE_KERNEL, PROT, PROT_DEFAULT, TYPE_TABLE, ATTRINDX
<1>3. CASE k = 3
  BY <1>3 DEF Prot, Bits, ATTRINDX_MASK, PROT, PROT_DEFAULT, TYPE_TABLE, ATTRINDX
<1> QED
  BY <1>1, <1>2, <1>3 DEF Region

LEMMA Leaves ==
  ASSUME NEW k \in Region, NEW l \in {2, 3}
  PROVE  /\ LeafAttr(k, l) \in SUBSET Bits /\ LeafAttr(k, l) # {}
         /\ LeafAttr(k, l) # TYPE_TABLE
         /\ LeafAttr(k, l) \cap TYPE_TABLE = IF l = 3 THEN TYPE_TABLE ELSE TYPE_SECT
         /\ "RDONLY" \in LeafAttr(k, l) <=> k = 1
         /\ "PXN" \in LeafAttr(k, l) <=> k # 1
         /\ LeafAttr(k, l) \cap ATTRINDX_MASK = IF k = 3 THEN {} ELSE {"A2"}
<1>1. /\ Prot(k) \in SUBSET Bits
      /\ {"VALID", "TABLE_BIT", "AF"} \subseteq Prot(k)
      /\ "RDONLY" \in Prot(k) <=> k = 1
      /\ "PXN" \in Prot(k) <=> k # 1
      /\ Prot(k) \cap ATTRINDX_MASK = IF k = 3 THEN {} ELSE {"A2"}
  BY Prots, Zenon
<1>2. CASE l = 3
  BY <1>1, <1>2 DEF LeafAttr, TYPE_TABLE
<1>3. CASE l = 2
  <2>1. LeafAttr(k, l) = {"VALID"} \cup (Prot(k) \ {"TABLE_BIT"})
    BY <1>3 DEF LeafAttr, TYPE_SECT, mk_sect_prot
  <2>2. LeafAttr(k, l) \cap ATTRINDX_MASK = Prot(k) \cap ATTRINDX_MASK
    BY <2>1 DEF ATTRINDX_MASK
  <2> QED
    BY <1>1, <1>3, <2>1, <2>2 DEF TYPE_TABLE, TYPE_SECT, Bits
<1> QED
  BY <1>2, <1>3

------------------------------------------------------------------------------
(* What the hardware finds in tables of this shape.                        *)

Covers(n, l, a) == n * (PTRS * SIZE(l)) <= a /\ a < (n + 1) * (PTRS * SIZE(l))

Hit(w, a) ==
  \E k \in Region : \E l \in {2, 3} :
    /\ Start(k) <= a /\ a < End(k)
    /\ w = [fault |-> FALSE, level |-> l, pa |-> a, attr |-> LeafAttr(k, l)]

(* What the walk of a finds in the entry of table p, at level l, that      *)
(* covers a: nothing, a table of level m, or a leaf that maps a.           *)
EntryLeads(lv, no, a, p, l, m) ==
  LET d == tbl[p][index(l, a)]
  IN  \/ d = none /\ ~Leads(tbl, l, p, a) /\ Found(tbl, l, p, a).fault
      \/ /\ l < 3 /\ Leads(tbl, l, p, a) /\ d.attr = TYPE_TABLE /\ d.pa \in TablePage
         /\ lv[d.pa] = m /\ no[d.pa] = slot(l, a) /\ Covers(no[d.pa], m, a)
      \/ l \in {2, 3} /\ (l = 2 => ~Leads(tbl, l, p, a)) /\ Hit(Found(tbl, l, p, a), a)

LEMMA WalkEntry ==
  ASSUME Control, NEW lv, NEW no, Shape(lv, no), Filled(lv, no), NEW a \in Nat,
         NEW p \in TablePage, NEW l \in 0 .. 3, NEW m, m = l + 1, lv[p] = l, Covers(no[p], l, a)
  PROVE  EntryLeads(lv, no, a, p, l, m)
<1> USE DEF EntryLeads
<1> DEFINE i == index(l, a)
           d == tbl[p][i]
<1>1. /\ i \in 0 .. PTRS - 1 /\ slot(l, a) \in Nat /\ slot(l, a) = no[p] * PTRS + i
      /\ slot(l, a) * SIZE(l) <= a /\ a < (slot(l, a) + 1) * SIZE(l)
  <2>1. no[p] \in Nat
    BY DEF Shape
  <2> QED
    BY <2>1, IndexSlot, Zenon DEF Covers
<1>2. DOMAIN tbl = TablePage
  BY DEF Control
<1>3. EntryOk(lv, no, d, l, slot(l, a))
  <2>1. lv[p] # 4
    OBVIOUS
  <2> QED
    BY <1>1, <2>1, Zenon DEF Filled
<1> HIDE DEF i
<1>4. CASE d = none
  <2>1. d.attr = {}
    BY <1>4 DEF none
  <2>2. ~full(d) /\ ~sect(d)
    BY <2>1, Types, Zenon DEF full, sect
  <2>3. ~Leads(tbl, l, p, a)
    BY <2>2, Zenon DEF Leads, i
  <2>4. Found(tbl, l, p, a) = [fault |-> TRUE, level |-> l]
    BY <1>2, <2>2, Zenon DEF Found, i
  <2> QED
    BY <1>4, <2>3, <2>4 DEF i
<1>5. CASE Child(lv, no, d, l, slot(l, a))
  <2>1. l < 3 /\ d.attr = TYPE_TABLE /\ d.pa \in TablePage /\ lv[d.pa] = m /\ no[d.pa] = slot(l, a)
    BY <1>5, Zenon DEF Child
  <2>2. full(d)
    BY <2>1, Types, Zenon DEF full
  <2>3. Leads(tbl, l, p, a)
    BY <1>2, <2>2, Zenon DEF Leads, i
  <2>4. SIZE(l) = PTRS * SIZE(m)
    BY <2>1, PgTableAssumption DEF SIZE
  <2>5. Covers(no[d.pa], m, a)
    BY <1>1, <2>1, <2>4, Zenon DEF Covers
  <2> QED
    BY <2>1, <2>3, <2>5, Zenon DEF i
<1>6. CASE LeafOf(d, l, slot(l, a))
  <2>1. PICK k \in Region : Inside(k, l, slot(l, a)) /\ d.attr = LeafAttr(k, l)
    BY <1>6, Zenon DEF LeafOf
  <2>2. l \in {2, 3} /\ d.pa = slot(l, a) * SIZE(l)
    BY <1>6, Zenon DEF LeafOf
  <2>3. d.attr \cap TYPE_TABLE = IF l = 3 THEN TYPE_TABLE ELSE TYPE_SECT
    BY <2>1, <2>2, Leaves, ZenonT(30)
  <2>4. d.pa + (a % SIZE(l)) = a
    <3>1. a = (a \div SIZE(l)) * SIZE(l) + (a % SIZE(l))
      BY SizeType, DivBounds, Zenon
    <3> QED
      BY <2>2, <3>1, Zenon DEF slot
  <2>5. (l = 3 => full(d)) /\ (l = 2 => sect(d) /\ ~full(d))
    BY <2>2, <2>3 DEF full, sect, TYPE_TABLE, TYPE_SECT
  <2>6. l = 2 => ~Leads(tbl, l, p, a)
    BY <2>5, Zenon DEF Leads, i
  <2>7. Found(tbl, l, p, a)
          = [fault |-> FALSE, level |-> l, pa |-> d.pa + (a % SIZE(l)), attr |-> d.attr]
    <3>1. (full(d) /\ l = 3) \/ (sect(d) /\ l \in {1, 2})
      BY <2>2, <2>5
    <3> QED
      BY <1>2, <3>1, Zenon DEF Found, i
  <2>8. Start(k) <= a /\ a < End(k)
    <3>1. Start(k) \in Nat /\ End(k) \in Nat
      BY Regions DEF Control
    <3>2. SIZE(l) \in Nat /\ slot(l, a) * SIZE(l) \in Nat /\ (slot(l, a) + 1) * SIZE(l) \in Nat
      BY <1>1, SizeType
    <3> QED
      BY <1>1, <2>1, <3>1, <3>2 DEF Inside
  <2>9. Hit(Found(tbl, l, p, a), a)
    BY <2>1, <2>2, <2>4, <2>7, <2>8, Zenon DEF Hit
  <2> QED
    BY <2>2, <2>6, <2>9, Zenon
<1> QED
  BY <1>3, <1>4, <1>5, <1>6, Zenon DEF EntryOk, i

(* An entry that holds something and links no table maps the address.      *)
LEMMA WalkLeaf ==
  ASSUME Control, NEW lv, NEW no, Shape(lv, no), Filled(lv, no), NEW a \in Nat,
         NEW p \in TablePage, NEW l \in {2, 3}, lv[p] = l, Covers(no[p], l, a),
         tbl[p][index(l, a)] # none, l = 2 => tbl[p][index(l, a)].attr # TYPE_TABLE
  PROVE  (l = 2 => ~Leads(tbl, l, p, a)) /\ Hit(Found(tbl, l, p, a), a)
<1> DEFINE m == l + 1
<1>1. l \in 0 .. 3 /\ (l < 3 => l = 2)
  BY SMTT(30)
<1>2. m = l + 1
  OBVIOUS
<1> HIDE DEF m
<1>3. EntryLeads(lv, no, a, p, l, m)
  BY <1>1, <1>2, WalkEntry, ZenonT(30)
<1> QED
  BY <1>1, <1>3, Zenon DEF EntryLeads

(* Above the last level an entry leads to a table one level down that      *)
(* covers the address, or ends the walk: in a fault, or at a section.      *)
LEMMA WalkOn ==
  ASSUME Control, NEW lv, NEW no, Shape(lv, no), Filled(lv, no), NEW a \in Nat,
         NEW p \in TablePage, NEW l \in {0, 1, 2}, lv[p] = l, Covers(no[p], l, a)
  PROVE  \/ ~Leads(tbl, l, p, a) /\ Found(tbl, l, p, a).fault
         \/ l = 2 /\ ~Leads(tbl, l, p, a) /\ Hit(Found(tbl, l, p, a), a)
         \/ /\ Leads(tbl, l, p, a) /\ tbl[p][index(l, a)].pa \in TablePage
            /\ lv[tbl[p][index(l, a)].pa] = l + 1
            /\ Covers(no[tbl[p][index(l, a)].pa], l + 1, a)
<1> DEFINE m == l + 1
<1>1. l \in 0 .. 3 /\ (l \in {2, 3} => l = 2)
  BY SMTT(30)
<1>2. m = l + 1
  OBVIOUS
<1> HIDE DEF m
<1>3. EntryLeads(lv, no, a, p, l, m)
  BY <1>1, <1>2, WalkEntry, ZenonT(30)
<1> QED
  BY <1>1, <1>2, <1>3, Zenon DEF EntryLeads

(* The walk of a, from the top-level table down: it faults, or ends in an  *)
(* entry that maps a to itself with the attributes of its mapping.         *)
LEMMA WalkSound ==
  ASSUME Control, NEW lv, NEW no, Shape(lv, no), Filled(lv, no),
         NEW a \in Nat, a < PTRS * SIZE(0)
  PROVE  Walk(a).fault \/ Hit(Walk(a), a)
<1> DEFINE p0 == idmap_pg_dir
           p1 == tbl[p0][index(0, a)].pa
           p2 == tbl[p1][index(1, a)].pa
           p3 == tbl[p2][index(2, a)].pa
<1>1. p0 \in TablePage /\ lv[p0] = 0 /\ Covers(no[p0], 0, a)
  <2>1. p0 \in TablePage /\ lv[p0] = 0 /\ no[p0] = 0
    BY DEF Shape, TablePage
  <2>2. PTRS * SIZE(0) \in Nat
    BY SizeType, PgTableAssumption
  <2>3. Covers(0, 0, a)
    BY <2>2 DEF Covers
  <2> QED
    BY <2>1, <2>3, Zenon
<1>2. /\ 0 \in {0, 1, 2} /\ 1 \in {0, 1, 2} /\ 2 \in {0, 1, 2} /\ 3 \in 0 .. 3
      /\ ~(3 < 3) /\ 0 # 2 /\ 1 # 2 /\ 0 + 1 = 1 /\ 1 + 1 = 2 /\ 2 + 1 = 3 /\ 4 = 3 + 1
  BY SMTT(30)
<1>3. \/ ~Leads(tbl, 0, p0, a) /\ Found(tbl, 0, p0, a).fault
      \/ Leads(tbl, 0, p0, a) /\ p1 \in TablePage /\ lv[p1] = 1 /\ Covers(no[p1], 1, a)
  <2>1. \/ ~Leads(tbl, 0, p0, a) /\ Found(tbl, 0, p0, a).fault
        \/ 0 = 2 /\ ~Leads(tbl, 0, p0, a) /\ Hit(Found(tbl, 0, p0, a), a)
        \/ /\ Leads(tbl, 0, p0, a) /\ p1 \in TablePage
           /\ lv[p1] = 0 + 1 /\ Covers(no[p1], 0 + 1, a)
    BY <1>1, <1>2, WalkOn, ZenonT(30)
  <2> HIDE DEF p1
  <2> QED
    BY <1>2, <2>1, Zenon
<1>4. ASSUME p1 \in TablePage, lv[p1] = 1, Covers(no[p1], 1, a)
      PROVE  \/ ~Leads(tbl, 1, p1, a) /\ Found(tbl, 1, p1, a).fault
             \/ Leads(tbl, 1, p1, a) /\ p2 \in TablePage /\ lv[p2] = 2 /\ Covers(no[p2], 2, a)
  <2> HIDE DEF p1
  <2>1. \/ ~Leads(tbl, 1, p1, a) /\ Found(tbl, 1, p1, a).fault
        \/ 1 = 2 /\ ~Leads(tbl, 1, p1, a) /\ Hit(Found(tbl, 1, p1, a), a)
        \/ /\ Leads(tbl, 1, p1, a) /\ p2 \in TablePage
           /\ lv[p2] = 1 + 1 /\ Covers(no[p2], 1 + 1, a)
    BY <1>2, <1>4, WalkOn, ZenonT(30)
  <2> HIDE DEF p2
  <2> QED
    BY <1>2, <2>1, Zenon
<1>5. ASSUME p2 \in TablePage, lv[p2] = 2, Covers(no[p2], 2, a)
      PROVE  \/ ~Leads(tbl, 2, p2, a) /\ (Found(tbl, 2, p2, a).fault \/ Hit(Found(tbl, 2, p2, a), a))
             \/ Leads(tbl, 2, p2, a) /\ p3 \in TablePage /\ lv[p3] = 3 /\ Covers(no[p3], 3, a)
  <2> HIDE DEF p2
  <2>1. \/ ~Leads(tbl, 2, p2, a) /\ Found(tbl, 2, p2, a).fault
        \/ 2 = 2 /\ ~Leads(tbl, 2, p2, a) /\ Hit(Found(tbl, 2, p2, a), a)
        \/ /\ Leads(tbl, 2, p2, a) /\ p3 \in TablePage
           /\ lv[p3] = 2 + 1 /\ Covers(no[p3], 2 + 1, a)
    BY <1>2, <1>5, WalkOn, ZenonT(30)
  <2> HIDE DEF p3
  <2> QED
    BY <1>2, <2>1, Zenon
<1>6. ASSUME p3 \in TablePage, lv[p3] = 3, Covers(no[p3], 3, a)
      PROVE  Found(tbl, 3, p3, a).fault \/ Hit(Found(tbl, 3, p3, a), a)
  <2> HIDE DEF p3
  <2>1. EntryLeads(lv, no, a, p3, 3, 4)
    BY <1>2, <1>6, WalkEntry, ZenonT(30)
  <2> QED
    BY <1>2, <2>1, Zenon DEF EntryLeads
<1>7. p2 \in TablePage /\ lv[p2] = 2 /\ Covers(no[p2], 2, a)
        => WalkPmd(tbl, p2, a).fault \/ Hit(WalkPmd(tbl, p2, a), a)
  BY <1>5, <1>6, Zenon DEF WalkPmd
<1>8. p1 \in TablePage /\ lv[p1] = 1 /\ Covers(no[p1], 1, a)
        => WalkPud(tbl, p1, a).fault \/ Hit(WalkPud(tbl, p1, a), a)
  BY <1>4, <1>7, Zenon DEF WalkPud
<1> QED
  BY <1>3, <1>8, Zenon DEF Walk, WalkPgd

LEMMA PageAddrs ==
  ASSUME NEW a \in PageAddr
  PROVE  a \in Nat /\ a % PAGE_SIZE = 0 /\ a < PTRS * SIZE(0)
<1> DEFINE z == SIZE(0) + SIZE(1)
<1>1. SIZE(0) \in Nat \ {0} /\ SIZE(1) \in Nat \ {0} /\ z \in Nat /\ z <= PTRS * SIZE(0)
  <2>1. SIZE(0) \in Nat \ {0} /\ SIZE(1) \in Nat \ {0} /\ SIZE(0) = PTRS * SIZE(1)
    BY SizeType, SizeUp
  <2>2. \A t, x, y \in Nat : t > 1 /\ x = t * y => x + y <= t * x
    <3>1. SUFFICES ASSUME NEW t \in Nat, NEW x \in Nat, NEW y \in Nat, t > 1, x = t * y
                   PROVE  x + y <= t * x
      OBVIOUS
    <3>2. PICK u \in Nat : t = u + 2
      <4>1. t - 2 \in Nat /\ t = (t - 2) + 2 BY <3>1
      <4> QED BY <4>1
    <3>3. t * y = u * y + (y + y) /\ u * y \in Nat /\ t * x = u * x + (x + x) /\ u * x \in Nat
      BY <3>2
    <3> QED
      BY <3>1, <3>3
  <2> QED
    BY <2>1, <2>2, PgTableAssumption
<1> HIDE DEF z
<1>2. PICK k \in 0 .. z \div PAGE_SIZE - 1 : a = k * PAGE_SIZE
  BY DEF PageAddr, z
<1>3. z \div PAGE_SIZE \in Nat /\ (z \div PAGE_SIZE) * PAGE_SIZE <= z
  BY <1>1, DivBounds, PgTableAssumption, Zenon
<1>4. k \in Nat /\ k + 1 <= z \div PAGE_SIZE
  BY <1>2, <1>3
<1>5. (k + 1) * PAGE_SIZE <= (z \div PAGE_SIZE) * PAGE_SIZE
  <2>1. \A m, n \in Nat : m <= n => m * PAGE_SIZE <= n * PAGE_SIZE
    BY PgTableAssumption
  <2> QED
    BY <1>3, <1>4, <2>1
<1>6. a \in Nat /\ (k + 1) * PAGE_SIZE = a + PAGE_SIZE /\ (k + 1) * PAGE_SIZE \in Nat
  BY <1>2, <1>4, PgTableAssumption
<1>7. (z \div PAGE_SIZE) * PAGE_SIZE \in Nat /\ PTRS * SIZE(0) \in Nat
  BY <1>1, <1>3, PgTableAssumption
<1>8. a < PTRS * SIZE(0)
  BY SMTT(30), <1>1, <1>3, <1>5, <1>6, <1>7, PgTableAssumption
<1> QED
  BY <1>2, <1>4, <1>6, <1>8, MultipleAligned, PgTableAssumption, Zenon

Rights(k) ==
  CASE k = 1 -> [map |-> TRUE, write |-> FALSE, exec |-> TRUE, mem |-> "NORMAL"]
    [] k = 2 -> [map |-> TRUE, write |-> TRUE, exec |-> FALSE, mem |-> "NORMAL"]
    [] k = 3 -> [map |-> TRUE, write |-> TRUE, exec |-> FALSE, mem |-> "nGnRnE"]

LEMMA WantedIs ==
  ASSUME etext \in Etext, NEW a \in Nat, a % PAGE_SIZE = 0
  PROVE  /\ \A k \in Region : Start(k) <= a /\ a < End(k) =>
              Wanted(a) = Rights(k)
         /\ (\A k \in Region : ~(Start(k) <= a /\ a < End(k))) => Wanted(a) = [map |-> FALSE]
<1>1. /\ etext \in Nat /\ TOTAL_MEMORY \in Nat /\ PBASE \in Nat /\ PBASE + DEVICE_SIZE \in Nat
      /\ TOTAL_MEMORY <= PBASE
  BY MmuAssumption
<1>2. /\ a < PAGE_BALIGN(TOTAL_MEMORY) <=> a < TOTAL_MEMORY
      /\ a < PAGE_BALIGN(PBASE + DEVICE_SIZE) <=> a < PBASE + DEVICE_SIZE
      /\ PAGE_BALIGN(etext) \in Nat
  BY <1>1, AlignUp, Zenon
<1>3. PAGE_BALIGN(etext) <= PBASE
  BY <1>1, <1>2, MmuAssumption
<1>4. /\ Start(1) <= a /\ a < End(1) <=> PAGE_ALIGN(text_boot) <= a /\ a < PAGE_BALIGN(etext)
      /\ Start(2) <= a /\ a < End(2) <=> PAGE_BALIGN(etext) <= a /\ a < TOTAL_MEMORY
      /\ Start(3) <= a /\ a < End(3) <=> PBASE <= a /\ a < PBASE + DEVICE_SIZE
  BY <1>2 DEF Start, End
<1>5. CASE Start(1) <= a /\ a < End(1)
  <2>1. ~(PAGE_BALIGN(etext) <= a) /\ ~(PBASE <= a)
    BY <1>1, <1>2, <1>3, <1>4, <1>5
  <2>2. Wanted(a) = Rights(1)
    BY SMTT(30), <1>4, <1>5, <2>1 DEF Wanted, Rights
  <2> QED
    BY <1>4, <1>5, <2>1, <2>2 DEF Region
<1>6. CASE Start(2) <= a /\ a < End(2)
  <2>1. ~(a < PAGE_BALIGN(etext)) /\ ~(PBASE <= a)
    BY <1>1, <1>2, <1>3, <1>4, <1>6
  <2>2. Wanted(a) = Rights(2)
    BY <1>4, <1>6, <2>1 DEF Wanted, Rights
  <2> QED
    BY <1>4, <1>6, <2>1, <2>2 DEF Region
<1>7. CASE Start(3) <= a /\ a < End(3)
  <2>1. ~(a < PAGE_BALIGN(etext)) /\ ~(a < TOTAL_MEMORY)
    BY <1>1, <1>2, <1>3, <1>4, <1>7
  <2>2. Wanted(a) = Rights(3)
    BY <1>4, <1>7, <2>1 DEF Wanted, Rights
  <2> QED
    BY <1>4, <1>7, <2>1, <2>2 DEF Region
<1>8. CASE \A k \in Region : ~(Start(k) <= a /\ a < End(k))
  BY <1>4, <1>8 DEF Wanted, Region
<1> QED
  BY <1>5, <1>6, <1>7, <1>8 DEF Region

(* What a hit gives is what is wanted.                                     *)
LEMMA HitGives ==
  ASSUME etext \in Etext, NEW a \in Nat, a % PAGE_SIZE = 0, NEW x, Hit(x, a)
  PROVE  /\ ~x.fault /\ Wanted(a).map /\ Gives(x, a, Wanted(a).mem)
         /\ Wanted(a).mem = IF x.attr \cap ATTRINDX_MASK = {} THEN "nGnRnE" ELSE "NORMAL"
         /\ x.attr \cap ATTRINDX_MASK \in {{}, {"A2"}}
<1>1. PICK k \in Region, l \in {2, 3} :
        /\ Start(k) <= a /\ a < End(k)
        /\ x = [fault |-> FALSE, level |-> l, pa |-> a, attr |-> LeafAttr(k, l)]
  BY Zenon DEF Hit
<1>2. Wanted(a) = Rights(k)
  BY <1>1, WantedIs, Zenon
<1>3. /\ "RDONLY" \in LeafAttr(k, l) <=> k = 1
      /\ "PXN" \in LeafAttr(k, l) <=> k # 1
      /\ LeafAttr(k, l) \cap ATTRINDX_MASK = IF k = 3 THEN {} ELSE {"A2"}
  BY Leaves, Zenon
<1>4. x.fault = FALSE /\ x.pa = a /\ x.attr = LeafAttr(k, l)
  BY <1>1
<1>5. k = 1 \/ k = 2 \/ k = 3
  BY DEF Region
<1>6. Gives(x, a, Rights(k).mem)
  <2>1. CASE k = 1
    <3>1. Rights(k) = [map |-> TRUE, write |-> FALSE, exec |-> TRUE, mem |-> "NORMAL"]
      BY <2>1 DEF Rights
    <3>2. /\ (x.pa = a) = TRUE /\ ("RDONLY" \notin x.attr) = FALSE /\ ("PXN" \notin x.attr) = TRUE
          /\ Rights(k).mem = "NORMAL"
      BY <1>3, <1>4, <2>1, <3>1
    <3> QED
      BY <1>2, <1>4, <3>1, <3>2, Zenon DEF Gives
  <2>2. CASE k # 1
    <3>1. Rights(k) = [map |-> TRUE, write |-> TRUE, exec |-> FALSE, mem |-> Rights(k).mem]
      BY <1>5, <2>2 DEF Rights
    <3>2. /\ (x.pa = a) = TRUE /\ ("RDONLY" \notin x.attr) = TRUE /\ ("PXN" \notin x.attr) = FALSE
      BY <1>3, <1>4, <2>2
    <3> QED
      BY <1>2, <1>4, <3>1, <3>2, Zenon DEF Gives
  <2> QED
    BY <2>1, <2>2, Zenon
<1>7. Rights(k).map /\ Rights(k).mem = IF k = 3 THEN "nGnRnE" ELSE "NORMAL"
  BY <1>5 DEF Rights
<1>8. {"A2"} # {}
  OBVIOUS
<1> QED
  BY <1>2, <1>3, <1>4, <1>6, <1>7, <1>8, Zenon

LEMMA NeverFromInv == MmuInv => NeverMismapped
<1>1. SUFFICES ASSUME MmuInv, pc # "memset", NEW a \in PageAddr
               PROVE  Walk(a).fault \/ (Wanted(a).map /\ Gives(Walk(a), a, Wanted(a).mem))
  BY Zenon DEF NeverMismapped
<1>2. PICK lv, no : Shape(lv, no) /\ Filled(lv, no)
  BY <1>1, Zenon DEF MmuInv, Built, Tables
<1>3. Control /\ etext \in Etext
  BY <1>1, Zenon DEF MmuInv, Control
<1>4. a \in Nat /\ a % PAGE_SIZE = 0 /\ a < PTRS * SIZE(0)
  BY PageAddrs, Zenon
<1> QED
  BY <1>2, <1>3, <1>4, WalkSound, HitGives, Zenon

(* A table is reached by the walk of every address it covers.              *)
LEMMA Ancestor ==
  ASSUME Control, NEW lv, NEW no, Shape(lv, no), Linkage(lv, no),
         NEW a \in Nat, NEW l \in 0 .. 2, NEW m, m = l + 1,
         NEW p \in TablePage, lv[p] = m, no[p] = slot(l, a)
  PROVE  \E q \in TablePage : /\ lv[q] = l /\ (l > 0 => no[q] = slot(l - 1, a))
                              /\ Leads(tbl, l, q, a) /\ tbl[q][index(l, a)].pa = p
<1>1. lv[p] \in 1 .. 3 /\ lv[p] - 1 = l
  OBVIOUS
<1>2. PICK q \in TablePage : /\ lv[q] = l /\ no[q] = slot(l, a) \div PTRS
                             /\ tbl[q][slot(l, a) % PTRS].pa = p
                             /\ tbl[q][slot(l, a) % PTRS].attr = TYPE_TABLE
  <2>1. PICK q \in TablePage : /\ lv[q] = lv[p] - 1 /\ no[q] = no[p] \div PTRS
                               /\ tbl[q][no[p] % PTRS].pa = p
                               /\ tbl[q][no[p] % PTRS].attr = TYPE_TABLE
    BY <1>1, Zenon DEF Linkage
  <2>2. no[p] \div PTRS = slot(l, a) \div PTRS /\ no[p] % PTRS = slot(l, a) % PTRS
    BY Zenon
  <2> QED
    BY <1>1, <2>1, <2>2, Zenon
<1>3. slot(l, a) % PTRS = index(l, a)
  BY DEF slot, index
<1>4. l > 0 => slot(l, a) \div PTRS = slot(l - 1, a)
  <2>1. SUFFICES ASSUME l > 0 PROVE slot(l, a) \div PTRS = slot(l - 1, a)
    OBVIOUS
  <2>2. SIZE(l) \in Nat \ {0} /\ SIZE(l - 1) = PTRS * SIZE(l)
    BY <2>1, SizeType, SizeUp
  <2> QED
    <3>1. (a \div SIZE(l)) \div PTRS = a \div (PTRS * SIZE(l))
      BY <2>2, DivDiv, PgTableAssumption, Zenon
    <3> QED
      BY <2>2, <3>1, Zenon DEF slot
<1>5. Leads(tbl, l, q, a)
  <2>1. DOMAIN tbl = TablePage
    BY DEF Control
  <2> QED
    BY <1>2, <1>3, <2>1, Types, Zenon DEF Leads, full
<1> QED
  BY <1>2, <1>3, <1>4, <1>5, Zenon

LEMMA MappedWalks ==
  ASSUME Control, NEW lv, NEW no, Tables(lv, no),
         NEW a \in Nat, a < PTRS * SIZE(0), Mapped(lv, no, a)
  PROVE  Hit(Walk(a), a)
<1>1. /\ Shape(lv, no) /\ Filled(lv, no) /\ Linkage(lv, no)
      /\ idmap_pg_dir \in TablePage
  BY Zenon DEF Tables, TablePage
<1>2. ASSUME NEW q1 \in TablePage, lv[q1] = 1, no[q1] = slot(0, a)
      PROVE  Walk(a) = WalkPud(tbl, q1, a)
  <2>1. PICK q \in TablePage : /\ lv[q] = 0 /\ Leads(tbl, 0, q, a)
                               /\ tbl[q][index(0, a)].pa = q1
    BY <1>1, <1>2, Ancestor, SMTT(30)
  <2>2. q = idmap_pg_dir
    BY <1>1, <2>1, Zenon DEF Shape
  <2> QED
    BY <2>1, <2>2, Zenon DEF Walk, WalkPgd
<1>3. ASSUME NEW q2 \in TablePage, lv[q2] = 2, no[q2] = slot(1, a)
      PROVE  Walk(a) = WalkPmd(tbl, q2, a)
  <2>1. PICK q \in TablePage : /\ lv[q] = 1 /\ no[q] = slot(0, a) /\ Leads(tbl, 1, q, a)
                               /\ tbl[q][index(1, a)].pa = q2
    BY <1>1, <1>3, Ancestor, SMTT(30)
  <2> QED
    BY <1>2, <2>1, ZenonT(30) DEF WalkPud
<1>4. ASSUME NEW q3 \in TablePage, lv[q3] = 3, no[q3] = slot(2, a)
      PROVE  Walk(a) = Found(tbl, 3, q3, a)
  <2>1. PICK q \in TablePage : /\ lv[q] = 2 /\ no[q] = slot(1, a) /\ Leads(tbl, 2, q, a)
                               /\ tbl[q][index(2, a)].pa = q3
    BY <1>1, <1>4, Ancestor, SMTT(30)
  <2> QED
    BY <1>3, <2>1, Zenon DEF WalkPmd
<1>5. PICK p \in TablePage :
        /\ lv[p] \in {2, 3} /\ no[p] = slot(lv[p] - 1, a)
        /\ tbl[p][index(lv[p], a)] # none
        /\ lv[p] = 2 => tbl[p][index(lv[p], a)].attr # TYPE_TABLE
  BY Zenon DEF Mapped
<1>6. lv[p] \in 0 .. 3 /\ Covers(no[p], lv[p], a)
  <2>1. lv[p] \in 1 .. 3 /\ lv[p] - 1 \in 0 .. 3
    BY <1>5
  <2>2. SIZE(lv[p] - 1) = PTRS * SIZE(lv[p]) /\ SIZE(lv[p] - 1) \in Nat \ {0}
    BY <2>1, SizeUp, SizeType
  <2>3. (a \div SIZE(lv[p] - 1)) * SIZE(lv[p] - 1) <= a
        /\ a < (a \div SIZE(lv[p] - 1) + 1) * SIZE(lv[p] - 1)
    BY <2>2, DivBounds, Zenon
  <2>4. Covers(no[p], lv[p], a)
    BY <1>5, <2>2, <2>3, Zenon DEF Covers, slot
  <2> QED
    BY <2>1, <2>4
<1>7. CASE lv[p] = 2
  <2>1. no[p] = slot(1, a) /\ tbl[p][index(2, a)] # none /\ tbl[p][index(2, a)].attr # TYPE_TABLE
    BY SMTT(30), <1>5, <1>7
  <2>2. ~Leads(tbl, 2, p, a) /\ Hit(Found(tbl, 2, p, a), a)
    <3>1. 2 \in {2, 3} /\ lv[p] = 2 /\ Covers(no[p], 2, a)
      BY <1>6, <1>7, Zenon
    <3> QED
      BY <1>1, <2>1, <3>1, WalkLeaf, ZenonT(30)
  <2>3. Walk(a) = WalkPmd(tbl, p, a)
    BY <1>3, <1>7, <2>1, Zenon
  <2> QED
    BY <2>2, <2>3, Zenon DEF WalkPmd
<1>8. CASE lv[p] = 3
  <2>1. no[p] = slot(2, a) /\ tbl[p][index(3, a)] # none
    BY SMTT(30), <1>5, <1>8
  <2>2. Hit(Found(tbl, 3, p, a), a)
    <3>1. 3 \in {2, 3} /\ lv[p] = 3 /\ Covers(no[p], 3, a) /\ 3 # 2
      BY <1>6, <1>8, SMTT(30)
    <3> QED
      BY <1>1, <2>1, <3>1, WalkLeaf, ZenonT(30)
  <2> QED
    BY <1>4, <1>8, <2>1, <2>2, Zenon
<1> QED
  BY <1>5, <1>7, <1>8, Zenon

(* mair_el1 holds the memory type that each mapping means.                 *)
LEMMA MairTells == Mair[{}] = "nGnRnE" /\ Mair[{"A2"}] = "NORMAL"
<1>1. DOMAIN ATTRINDX = {"nGnRnE", "nGnRE", "GRE", "NORMAL_NC", "NORMAL", "NORMAL_WT"}
  BY DEF ATTRINDX
<1>2. /\ ATTRINDX["nGnRnE"] = {} /\ ATTRINDX["nGnRE"] = {"A0"} /\ ATTRINDX["GRE"] = {"A1"}
      /\ ATTRINDX["NORMAL_NC"] = {"A0", "A1"} /\ ATTRINDX["NORMAL"] = {"A2"}
      /\ ATTRINDX["NORMAL_WT"] = {"A0", "A2"}
  BY DEF ATTRINDX
<1>3. \A mt \in DOMAIN ATTRINDX : /\ ATTRINDX[mt] = {} => mt = "nGnRnE"
                                  /\ ATTRINDX[mt] = {"A2"} => mt = "NORMAL"
  BY <1>1, <1>2
<1>4. /\ (CHOOSE mt \in DOMAIN ATTRINDX : ATTRINDX[mt] = {}) = "nGnRnE"
      /\ (CHOOSE mt \in DOMAIN ATTRINDX : ATTRINDX[mt] = {"A2"}) = "NORMAL"
  BY <1>1, <1>2, <1>3, Zenon
<1>5. {} \in {ATTRINDX[mt] : mt \in DOMAIN ATTRINDX} /\ {"A2"} \in {ATTRINDX[mt] : mt \in DOMAIN ATTRINDX}
  BY <1>1, <1>2, Zenon
<1> QED
  BY <1>4, <1>5, Zenon DEF Mair

LEMMA ExactFromInv == MmuInv => MapsExactly
<1>1. SUFFICES ASSUME MmuInv, sctlr_M, NEW a \in PageAddr
               PROVE  Gives(Walk(a), a, IF Walk(a).fault THEN "none"
                                        ELSE mair[Walk(a).attr \cap ATTRINDX_MASK])
  BY Zenon DEF MapsExactly
<1>2. /\ Control /\ etext \in Etext /\ stk = <<>> /\ todo = <<>> /\ mair = Mair /\ pc # "memset"
  BY <1>1 DEF MmuInv, Control
<1>3. PICK lv, no : Tables(lv, no) /\ Progress(lv, no)
  BY <1>1, <1>2, Zenon DEF MmuInv, Built
<1>4. Shape(lv, no) /\ Filled(lv, no)
  BY <1>3, Zenon DEF Tables
<1>5. a \in Nat /\ a % PAGE_SIZE = 0 /\ a < PTRS * SIZE(0)
  BY PageAddrs, Zenon
<1>6. ASSUME NEW k \in Region, Start(k) <= a, a < End(k)
      PROVE  Hit(Walk(a), a)
  <2>1. cur = 3
    BY <1>2 DEF cur
  <2>2. k < 3 \/ k = 3
    BY DEF Region
  <2>3. Upto(k) = End(k)
    BY <1>2, <2>1, <2>2 DEF Upto
  <2>4. Mapped(lv, no, a)
    BY <1>3, <1>5, <1>6, <2>3, Zenon DEF Progress
  <2> QED
    BY <1>2, <1>3, <1>5, <2>4, MappedWalks, Zenon
<1>7. CASE Hit(Walk(a), a)
  <2>1. /\ ~Walk(a).fault /\ Gives(Walk(a), a, Wanted(a).mem)
        /\ Wanted(a).mem = IF Walk(a).attr \cap ATTRINDX_MASK = {} THEN "nGnRnE" ELSE "NORMAL"
        /\ Walk(a).attr \cap ATTRINDX_MASK \in {{}, {"A2"}}
    BY <1>2, <1>5, <1>7, HitGives, Zenon
  <2>2. {"A2"} # {}
    OBVIOUS
  <2>3. mair[Walk(a).attr \cap ATTRINDX_MASK] = Wanted(a).mem
    BY <1>2, <2>1, <2>2, MairTells, Zenon
  <2> QED
    BY <2>1, <2>3, Zenon
<1>8. CASE ~Hit(Walk(a), a)
  <2>1. Walk(a).fault
    BY <1>2, <1>4, <1>5, <1>8, WalkSound, Zenon
  <2>2. Wanted(a) = [map |-> FALSE]
    BY <1>2, <1>5, <1>6, <1>8, WantedIs, Zenon
  <2> QED
    BY <2>1, <2>2, Zenon DEF Gives
<1> QED
  BY <1>7, <1>8, Zenon

------------------------------------------------------------------------------
(* The pages that are or may become tables.                                *)

PageAt(i) == (LOW_MEMORY + i) * PAGE_SIZE

LEMMA TablePages ==
  ASSUME etext \in Etext
  PROVE  /\ TablePage \subseteq Nat /\ 0 \in TablePage /\ idmap_pg_dir \in TablePage
         /\ idmap_pg_dir # 0
         /\ \A i \in MapIndex : /\ PageAt(i) \in TablePage /\ PageAt(i) # 0
                                /\ PageAt(i) # idmap_pg_dir
                                /\ PageAt(i) \div PAGE_SIZE - LOW_MEMORY = i
         /\ \A p \in TablePage : p = 0 \/ p = idmap_pg_dir \/ \E i \in MapIndex : p = PageAt(i)
<1>1. /\ etext \in Nat /\ PAGE_SIZE \in Nat \ {0} /\ LOW_MEMORY \in Nat \ {0}
      /\ PAGE_BALIGN(etext) \in Nat
      /\ PAGE_BALIGN(etext) + 2 * PAGE_SIZE <= LOW_MEMORY * PAGE_SIZE
  BY MmuAssumption, PgTableAssumption, PageAllocAssumption, AlignUp
<1>2. idmap_pg_dir \in Nat /\ idmap_pg_dir # 0 /\ idmap_pg_dir < LOW_MEMORY * PAGE_SIZE
  <2>1. LOW_MEMORY * PAGE_SIZE \in Nat
    BY <1>1
  <2> QED
    BY <1>1, <2>1 DEF idmap_pg_dir
<1>3. ASSUME NEW i \in MapIndex
      PROVE  /\ PageAt(i) \in Nat /\ LOW_MEMORY * PAGE_SIZE <= PageAt(i)
             /\ PageAt(i) \div PAGE_SIZE = LOW_MEMORY + i /\ LOW_MEMORY + i \in Nat
  <2>1. i \in Nat /\ LOW_MEMORY + i \in Nat
    BY <1>1, PageAllocAssumption DEF MapIndex
  <2>2. PageAt(i) = LOW_MEMORY * PAGE_SIZE + i * PAGE_SIZE
        /\ i * PAGE_SIZE \in Nat /\ LOW_MEMORY * PAGE_SIZE \in Nat
    BY <1>1, <2>1 DEF PageAt
  <2>3. \A n \in Nat : (n * PAGE_SIZE) \div PAGE_SIZE = n
    <3>1. \A n \in Nat : n * PAGE_SIZE \in Nat /\ n * PAGE_SIZE <= n * PAGE_SIZE
                         /\ n * PAGE_SIZE < (n + 1) * PAGE_SIZE
      BY <1>1
    <3> QED
      BY <1>1, <3>1, DivIs, Zenon
  <2>4. PageAt(i) \div PAGE_SIZE = LOW_MEMORY + i
    BY <2>1, <2>3, Zenon DEF PageAt
  <2> QED
    BY <2>1, <2>2, <2>4
<1>4. TablePage = {PageAt(i) : i \in MapIndex} \cup {0, idmap_pg_dir}
  BY Zenon DEF TablePage, Page, PageAt
<1>5. \A i \in MapIndex : PageAt(i) # 0 /\ PageAt(i) # idmap_pg_dir
  <2>1. LOW_MEMORY * PAGE_SIZE \in Nat \ {0}
    BY <1>1
  <2> QED
    BY <1>2, <1>3, <2>1
<1>6. \A i \in MapIndex : PageAt(i) \div PAGE_SIZE - LOW_MEMORY = i
  BY <1>1, <1>3 DEF MapIndex
<1>7. TablePage \subseteq Nat
  BY <1>2, <1>3, <1>4
<1> QED
  BY <1>2, <1>4, <1>5, <1>6, <1>7, Zenon

LEMMA TreeFromInv == MmuInv => TablesFormTree
<1>1. SUFFICES ASSUME MmuInv PROVE TablesFormTree
  OBVIOUS
<1>2. Control /\ etext \in Etext
  BY <1>1, Zenon DEF MmuInv, Control
<1>3. CASE pc = "memset"
  <2>1. \A p \in TablePage : tbl[p] = stale
    BY <1>2, <1>3, Zenon DEF Control
  <2>2. Linked = {}
    BY <2>1, Zenon DEF Linked
  <2> QED
    BY <2>2, Zenon DEF TablesFormTree
<1>4. CASE pc # "memset"
  <2>1. PICK lv, no : Tables(lv, no) /\ Taken(lv) /\ FreshOk(lv)
    BY <1>1, <1>4, Zenon DEF MmuInv, Built
  <2>2. Shape(lv, no) /\ Filled(lv, no) /\ Distinct(lv, no)
    BY <2>1, Zenon DEF Tables
  <2>3. ASSUME NEW q \in Linked
        PROVE  /\ q[1] \in TablePage /\ q[2] \in 0 .. PTRS - 1 /\ q = <<q[1], q[2]>>
               /\ lv[q[1]] \in 0 .. 2
               /\ LET p == tbl[q[1]][q[2]].pa
                  IN  p \in TablePage /\ lv[p] = lv[q[1]] + 1 /\ no[p] = no[q[1]] * PTRS + q[2]
    <3>1. /\ q[1] \in TablePage /\ q[2] \in 0 .. PTRS - 1 /\ q = <<q[1], q[2]>>
          /\ tbl[q[1]] # stale /\ tbl[q[1]][q[2]].attr = TYPE_TABLE
      BY DEF Linked
    <3>2. lv[q[1]] # 4
      <4>1. CASE q[1] = fresh
        <5>1. fresh # -1
          BY <1>2, <3>1, <4>1, TablePages
        <5>2. tbl[q[1]] = cleared
          BY <2>1, <4>1, <5>1, Zenon DEF FreshOk
        <5>3. tbl[q[1]][q[2]] = none
          BY <3>1, <5>2, Zenon DEF cleared
        <5>4. none.attr = {}
          BY DEF none
        <5> QED
          BY <3>1, <5>3, <5>4, Types, Zenon
      <4>2. CASE q[1] # fresh
        BY <2>1, <3>1, <4>2, Zenon DEF Taken
      <4> QED
        BY <4>1, <4>2, Zenon
    <3>3. EntryOk(lv, no, tbl[q[1]][q[2]], lv[q[1]], no[q[1]] * PTRS + q[2])
      BY <2>2, <3>1, <3>2, Zenon DEF Filled
    <3>4. tbl[q[1]][q[2]] # none
      <4>1. none.attr = {}
        BY DEF none
      <4> QED
        BY <3>1, <4>1, Types, Zenon
    <3>5. ~LeafOf(tbl[q[1]][q[2]], lv[q[1]], no[q[1]] * PTRS + q[2])
      BY <3>1, Leaves, ZenonT(30) DEF LeafOf
    <3>6. Child(lv, no, tbl[q[1]][q[2]], lv[q[1]], no[q[1]] * PTRS + q[2])
      BY <3>3, <3>4, <3>5, Zenon DEF EntryOk
    <3>7. lv[q[1]] \in 0 .. 4 /\ lv[q[1]] < 3
      BY <2>2, <3>1, <3>6, Zenon DEF Shape, Child
    <3>8. lv[q[1]] \in 0 .. 2
      BY <3>7
    <3> QED
      BY <3>1, <3>6, <3>8, Zenon DEF Child
  <2>4. ASSUME NEW q \in Linked, NEW r \in Linked, tbl[q[1]][q[2]].pa = tbl[r[1]][r[2]].pa
        PROVE  q = r
    <3>1. no[q[1]] * PTRS + q[2] = no[r[1]] * PTRS + r[2] /\ lv[q[1]] + 1 = lv[r[1]] + 1
      BY <2>3, <2>4, Zenon
    <3>2. /\ q[1] \in TablePage /\ r[1] \in TablePage /\ no[q[1]] \in Nat /\ no[r[1]] \in Nat
          /\ q[2] \in 0 .. PTRS - 1 /\ r[2] \in 0 .. PTRS - 1 /\ lv[q[1]] \in 0 .. 2 /\ lv[r[1]] \in 0 .. 2
      BY <2>2, <2>3, Zenon DEF Shape
    <3>3. no[q[1]] = no[r[1]] /\ q[2] = r[2]
      <4>1. /\ (no[q[1]] * PTRS + q[2]) \div PTRS = no[q[1]]
            /\ (no[q[1]] * PTRS + q[2]) % PTRS = q[2]
        BY <3>2, Digits, PgTableAssumption, Zenon
      <4>2. /\ (no[r[1]] * PTRS + r[2]) \div PTRS = no[r[1]]
            /\ (no[r[1]] * PTRS + r[2]) % PTRS = r[2]
        BY <3>2, Digits, PgTableAssumption, Zenon
      <4> QED
        BY <3>1, <4>1, <4>2, Zenon
    <3>4. lv[q[1]] = lv[r[1]] /\ lv[q[1]] # 4
      BY <3>1, <3>2
    <3>5. q[1] = r[1]
      BY <2>2, <3>2, <3>3, <3>4, Zenon DEF Distinct
    <3> QED
      BY <2>3, <3>3, <3>5, Zenon
  <2>5. ASSUME NEW q \in Linked
        PROVE  LET p == tbl[q[1]][q[2]].pa
               IN  /\ p \in TablePage \ {0, idmap_pg_dir, fresh}
                   /\ mem_map[p \div PAGE_SIZE - LOW_MEMORY] = 1
    <3> DEFINE p == tbl[q[1]][q[2]].pa
    <3>1. p \in TablePage /\ lv[p] \in 1 .. 3
      BY <2>3
    <3>2. lv[0] = 4 /\ lv[idmap_pg_dir] = 0 /\ (fresh # -1 => lv[fresh] = 4)
      BY <2>1, <2>2, Zenon DEF Shape, FreshOk
    <3>3. p # -1
      BY <1>2, <3>1, TablePages
    <3> HIDE DEF p
    <3>4. p # 0 /\ p # idmap_pg_dir /\ p # fresh
      BY <3>1, <3>2, <3>3
    <3>5. PICK i \in MapIndex : p = PageAt(i)
      BY <1>2, <3>1, <3>4, TablePages, Zenon
    <3>6. p \div PAGE_SIZE - LOW_MEMORY = i
      BY <1>2, <3>5, TablePages, Zenon
    <3>7. lv[p] # 4
      BY <3>1
    <3>8. mem_map[i] = 1
      BY <2>1, <3>5, <3>7, Zenon DEF Taken, PageAt
    <3> QED
      BY <3>1, <3>4, <3>6, <3>8, ZenonT(30) DEF p
  <2> QED
    BY <2>4, <2>5, Zenon DEF TablesFormTree
<1> QED
  BY <1>3, <1>4, Zenon

------------------------------------------------------------------------------
(* The image stays where it is, and with it what is only about the image.  *)

LEMMA Steady ==
  ASSUME UNCHANGED etext
  PROVE  /\ idmap_pg_dir' = idmap_pg_dir /\ TablePage' = TablePage
         /\ \A k : Start(k)' = Start(k) /\ End(k)' = End(k)
         /\ \A k, l, s : Inside(k, l, s)' <=> Inside(k, l, s)
         /\ \A d, l, s : LeafOf(d, l, s)' <=> LeafOf(d, l, s)
         /\ \A lv, no, d, l, s : Child(lv, no, d, l, s)' <=> Child(lv, no, d, l, s)
         /\ \A lv, no, d, l, s : EntryOk(lv, no, d, l, s)' <=> EntryOk(lv, no, d, l, s)
         /\ \A k : Todo(k)' = Todo(k)
<1>1. idmap_pg_dir' = idmap_pg_dir
  BY Zenon DEF idmap_pg_dir
<1>2. TablePage' = TablePage
  BY <1>1, Zenon DEF TablePage
<1>3. \A k : Start(k)' = Start(k) /\ End(k)' = End(k)
  BY Zenon DEF Start, End
<1>4. \A k, l, s : Inside(k, l, s)' <=> Inside(k, l, s)
  BY <1>3, Zenon DEF Inside
<1>5. \A d, l, s : LeafOf(d, l, s)' <=> LeafOf(d, l, s)
  BY <1>4, Zenon DEF LeafOf
<1>6. \A lv, no, d, l, s : Child(lv, no, d, l, s)' <=> Child(lv, no, d, l, s)
  BY <1>2, Zenon DEF Child
<1>7. \A lv, no, d, l, s : EntryOk(lv, no, d, l, s)' <=> EntryOk(lv, no, d, l, s)
  BY <1>5, <1>6, Zenon DEF EntryOk
<1>8. \A k : Todo(k)' = Todo(k)
  BY Zenon DEF Todo
<1> QED
  BY <1>1, <1>2, <1>3, <1>4, <1>5, <1>6, <1>7, <1>8, Zenon

(* Nothing about the tables changes while the tables keep what they hold.  *)
LEMMA TablesSame ==
  ASSUME UNCHANGED etext, NEW lv, NEW no, Tables(lv, no),
         \A p \in TablePage : lv[p] # 4 => tbl'[p] = tbl[p]
  PROVE  Tables(lv, no)'
<1>1. TablePage' = TablePage /\ idmap_pg_dir' = idmap_pg_dir
  BY Steady, Zenon
<1>2. Shape(lv, no)'
  BY <1>1, Zenon DEF Tables, Shape
<1>3. Filled(lv, no)'
  BY <1>1, Steady, Zenon DEF Tables, Filled
<1>4. Linkage(lv, no)'
  <2>1. SUFFICES ASSUME NEW p \in TablePage, lv[p] \in 1 .. 3
                 PROVE  \E q \in TablePage : /\ lv[q] = lv[p] - 1 /\ no[q] = no[p] \div PTRS
                                             /\ tbl'[q][no[p] % PTRS].pa = p
                                             /\ tbl'[q][no[p] % PTRS].attr = TYPE_TABLE
    BY <1>1, Zenon DEF Linkage
  <2>2. PICK q \in TablePage : /\ lv[q] = lv[p] - 1 /\ no[q] = no[p] \div PTRS
                               /\ tbl[q][no[p] % PTRS].pa = p
                               /\ tbl[q][no[p] % PTRS].attr = TYPE_TABLE
    BY <2>1, Zenon DEF Tables, Linkage
  <2>3. lv[p] - 1 # 4
    BY <2>1
  <2> QED
    BY <2>2, <2>3, Zenon
<1>5. Distinct(lv, no)' /\ Needed(lv, no)'
  BY <1>1, Zenon DEF Tables, Distinct, Needed
<1>6. Ragged(lv, no)'
  BY <1>1, Steady, Zenon DEF Tables, Ragged
<1> QED
  BY <1>2, <1>3, <1>4, <1>5, <1>6, Zenon DEF Tables

(* An entry that is no link is replaced by one that maps its slot.         *)
Store(t, i, d) == tbl' = [tbl EXCEPT ![t][i] = d]

(* Entry i of table t links no table, and d is the block or page that      *)
(* belongs there.                                                          *)
NewLeaf(lv, no, t, i, d) ==
  /\ LeafOf(d, lv[t], no[t] * PTRS + i)
  /\ tbl[t][i].attr # TYPE_TABLE

LEMMA TablesLeaf ==
  ASSUME Control, UNCHANGED etext, NEW lv, NEW no, Tables(lv, no),
         NEW t \in TablePage, NEW i \in 0 .. PTRS - 1, NEW d,
         NewLeaf(lv, no, t, i, d), Store(t, i, d)
  PROVE  Tables(lv, no)'
<1>0. /\ LeafOf(d, lv[t], no[t] * PTRS + i) /\ tbl[t][i].attr # TYPE_TABLE
  BY Zenon DEF NewLeaf
<1> USE <1>0
<1>1. TablePage' = TablePage /\ idmap_pg_dir' = idmap_pg_dir
  BY Steady, Zenon
<1>2. \A p \in TablePage : \A j \in 0 .. PTRS - 1 :
        tbl'[p][j] = IF p = t /\ j = i THEN d ELSE tbl[p][j]
  BY Zenon DEF Control, Store
<1>3. Shape(lv, no)'
  BY <1>1, Zenon DEF Tables, Shape
<1>4. Filled(lv, no)'
  <2>1. SUFFICES ASSUME NEW p \in TablePage, NEW j \in 0 .. PTRS - 1, lv[p] # 4
                 PROVE  EntryOk(lv, no, tbl'[p][j], lv[p], no[p] * PTRS + j)
    BY <1>1, Steady, Zenon DEF Filled
  <2>2. CASE p = t /\ j = i
    BY <1>2, <2>2, Zenon DEF EntryOk
  <2>3. CASE ~(p = t /\ j = i)
    <3>1. tbl'[p][j] = tbl[p][j]
      BY <1>2, <2>3, Zenon
    <3> QED
      BY <2>1, <3>1, Zenon DEF Tables, Filled
  <2> QED
    BY <2>2, <2>3, Zenon
<1>5. Linkage(lv, no)'
  <2>1. SUFFICES ASSUME NEW p \in TablePage, lv[p] \in 1 .. 3
                 PROVE  \E q \in TablePage : /\ lv[q] = lv[p] - 1 /\ no[q] = no[p] \div PTRS
                                             /\ tbl'[q][no[p] % PTRS].pa = p
                                             /\ tbl'[q][no[p] % PTRS].attr = TYPE_TABLE
    BY <1>1, Zenon DEF Linkage
  <2>2. PICK q \in TablePage : /\ lv[q] = lv[p] - 1 /\ no[q] = no[p] \div PTRS
                               /\ tbl[q][no[p] % PTRS].pa = p
                               /\ tbl[q][no[p] % PTRS].attr = TYPE_TABLE
    BY <2>1, Zenon DEF Tables, Linkage
  <2>3. no[p] % PTRS \in 0 .. PTRS - 1
    <3>1. no[p] \in Nat
      BY DEF Tables, Shape
    <3> QED
      BY <3>1, DivBounds, PgTableAssumption, Zenon
  <2>4. tbl'[q][no[p] % PTRS] = tbl[q][no[p] % PTRS]
    <3>1. ~(q = t /\ no[p] % PTRS = i)
      BY <2>2, Zenon
    <3> QED
      BY <1>2, <2>3, <3>1, Zenon
  <2> QED
    BY <2>2, <2>4, Zenon
<1>6. Distinct(lv, no)' /\ Needed(lv, no)'
  BY <1>1, Zenon DEF Tables, Distinct, Needed
<1>7. Ragged(lv, no)'
  BY <1>1, Steady, Zenon DEF Tables, Ragged
<1> QED
  BY <1>3, <1>4, <1>5, <1>6, <1>7, Zenon DEF Tables

(* The table that would be linked from a free entry is not there yet.      *)
LEMMA NoTableYet ==
  ASSUME NEW lv, NEW no, Tables(lv, no), NEW t \in TablePage, NEW i \in 0 .. PTRS - 1,
         NEW n, NEW m, n = no[t] * PTRS + i, m = lv[t] + 1, lv[t] \in 0 .. 2,
         tbl[t][i] = none
  PROVE  \A p \in TablePage : lv[p] = m => no[p] # n
<1>1. SUFFICES ASSUME NEW p \in TablePage, lv[p] = m, no[p] = n PROVE FALSE
  OBVIOUS
<1>2. no[t] \in Nat /\ no[p] \in Nat
  BY Zenon DEF Tables, Shape
<1>3. n \div PTRS = no[t] /\ n % PTRS = i
  BY <1>2, Digits, PgTableAssumption, Zenon
<1>4. m \in 1 .. 3 /\ m - 1 = lv[t] /\ lv[t] # 4
  OBVIOUS
<1>5. PICK q \in TablePage : /\ lv[q] = lv[p] - 1 /\ no[q] = no[p] \div PTRS
                             /\ tbl[q][no[p] % PTRS].attr = TYPE_TABLE
  BY <1>1, <1>4, Zenon DEF Tables, Linkage
<1>6. lv[q] = lv[t] /\ no[q] = no[t] /\ tbl[q][i].attr = TYPE_TABLE
  BY <1>1, <1>3, <1>4, <1>5, Zenon
<1>7. q = t
  BY <1>4, <1>6, Zenon DEF Tables, Distinct
<1>8. none.attr # TYPE_TABLE
  BY Types DEF none
<1> QED
  BY <1>6, <1>7, <1>8, Zenon

(* Entry i of table t is free, and the cleared page r may become table n   *)
(* of level m.                                                             *)
NewLink(lv, no, t, i, r, n, m) ==
  /\ n = no[t] * PTRS + i /\ m = lv[t] + 1 /\ lv[t] \in 0 .. 2 /\ tbl[t][i] = none
  /\ lv[r] = 4 /\ r # 0 /\ tbl[r] = cleared
  /\ m = 3 => \A k \in Region : ~Inside(k, 2, n)
  /\ <<m, n>> \in TablesNeeded

Link(t, i, r) == tbl' = [tbl EXCEPT ![t][i] = [pa |-> r, attr |-> TYPE_TABLE]]

Owned(lv, no, r, m, n, lv2, no2) == lv2 = [lv EXCEPT ![r] = m] /\ no2 = [no EXCEPT ![r] = n]

(* A cleared page becomes the table of an entry that had none.             *)
LEMMA TablesLink ==
  ASSUME Control, UNCHANGED etext, NEW lv, NEW no, Tables(lv, no),
         NEW t \in TablePage, NEW i \in 0 .. PTRS - 1, NEW r \in TablePage, NEW n, NEW m,
         NewLink(lv, no, t, i, r, n, m), Link(t, i, r),
         NEW lv2, NEW no2, Owned(lv, no, r, m, n, lv2, no2)
  PROVE  Tables(lv2, no2)'
<1>0. /\ n = no[t] * PTRS + i /\ m = lv[t] + 1 /\ lv[t] \in 0 .. 2 /\ tbl[t][i] = none
      /\ lv[r] = 4 /\ r # 0 /\ tbl[r] = cleared
      /\ m = 3 => \A k \in Region : ~Inside(k, 2, n)
      /\ <<m, n>> \in TablesNeeded
      /\ tbl' = [tbl EXCEPT ![t][i] = [pa |-> r, attr |-> TYPE_TABLE]]
      /\ lv2 = [lv EXCEPT ![r] = m] /\ no2 = [no EXCEPT ![r] = n]
  BY Zenon DEF NewLink, Link, Owned
<1> USE <1>0
<1>1. TablePage' = TablePage /\ idmap_pg_dir' = idmap_pg_dir /\ idmap_pg_dir \in TablePage
      /\ etext \in Etext /\ 0 \in TablePage
  BY Steady, Zenon DEF TablePage, Control
<1>2. /\ lv \in [TablePage -> 0 .. 4] /\ no \in [TablePage -> Nat]
      /\ lv[idmap_pg_dir] = 0 /\ no[idmap_pg_dir] = 0 /\ lv[0] = 4
      /\ \A p \in TablePage : lv[p] = 0 => p = idmap_pg_dir
      /\ \A p \in TablePage : lv[p] = 1 => no[p] < PTRS
  BY Zenon DEF Tables, Shape
<1>3. /\ n \in Nat /\ m \in 1 .. 3 /\ n \div PTRS = no[t] /\ n % PTRS = i /\ m - 1 = lv[t]
  <2>1. no[t] \in Nat
    BY <1>2
  <2>2. n \in Nat
    BY <2>1, PgTableAssumption
  <2>3. n \div PTRS = no[t] /\ n % PTRS = i
    BY <2>1, Digits, PgTableAssumption, Zenon
  <2> QED
    BY SMTT(30), <2>2, <2>3
<1>4. r # t /\ r # idmap_pg_dir /\ m # 4 /\ m # 0
  BY <1>2, <1>3
<1>5. \A p \in TablePage : /\ p # r => lv2[p] = lv[p] /\ no2[p] = no[p]
                           /\ lv2[r] = m /\ no2[r] = n
  BY <1>2, Zenon
<1>6. \A p \in TablePage : \A j \in 0 .. PTRS - 1 :
        tbl'[p][j] = IF p = t /\ j = i THEN [pa |-> r, attr |-> TYPE_TABLE] ELSE tbl[p][j]
  BY Zenon DEF Control
<1>7. Shape(lv2, no2)'
  <2>1. lv2 \in [TablePage -> 0 .. 4] /\ no2 \in [TablePage -> Nat]
    BY <1>2, <1>3
  <2>2. lv2[idmap_pg_dir] = 0 /\ no2[idmap_pg_dir] = 0 /\ lv2[0] = 4
    BY <1>1, <1>2, <1>4, <1>5, Zenon
  <2>3. \A p \in TablePage : lv2[p] = 0 => p = idmap_pg_dir
    BY <1>2, <1>4, <1>5, Zenon
  <2>4. m = 1 => n < PTRS
    <3>1. m = 1 => no[t] = 0
      BY <1>2
    <3>2. m = 1 => n = i
      BY <3>1, PgTableAssumption
    <3> QED
      BY SMTT(30), <3>2, PgTableAssumption
  <2>5. \A p \in TablePage : lv2[p] = 1 => no2[p] < PTRS
    BY <1>2, <1>5, <2>4, Zenon
  <2> QED
    BY <1>1, <2>1, <2>2, <2>3, <2>5, ZenonT(30) DEF Shape
<1>8. Filled(lv2, no2)'
  <2>1. SUFFICES ASSUME NEW p \in TablePage, NEW j \in 0 .. PTRS - 1, lv2[p] # 4
                 PROVE  EntryOk(lv2, no2, tbl'[p][j], lv2[p], no2[p] * PTRS + j)
    BY <1>1, Steady, Zenon DEF Filled
  <2>2. CASE p = r
    <3>1. tbl'[r][j] = tbl[r][j]
      BY <1>4, <1>6, SMTT(30)
    <3>2. tbl[r][j] = none
      BY Zenon DEF cleared
    <3> QED
      BY <2>2, <3>1, <3>2, Zenon DEF EntryOk
  <2>3. CASE p = t /\ j = i
    <3>1. tbl'[p][j].attr = TYPE_TABLE /\ tbl'[p][j].pa = r
      BY SMTT(30), <1>6, <2>3
    <3>2. lv2[p] = lv[t] /\ no2[p] * PTRS + j = n /\ lv2[p] < 3 /\ lv2[r] = lv2[p] + 1 /\ no2[r] = n
      BY <1>4, <1>5, <2>3
    <3> QED
      BY <3>1, <3>2, Zenon DEF EntryOk, Child
  <2>4. CASE p # r /\ ~(p = t /\ j = i)
    <3>1. tbl'[p][j] = tbl[p][j] /\ lv2[p] = lv[p] /\ no2[p] = no[p]
      <4>1. tbl'[p][j] = tbl[p][j]
        BY <1>6, <2>4, ZenonT(30)
      <4>2. lv2[p] = lv[p] /\ no2[p] = no[p]
        BY <1>5, <2>4, Zenon
      <4> QED
        BY <4>1, <4>2, Zenon
    <3>2. EntryOk(lv, no, tbl[p][j], lv[p], no[p] * PTRS + j)
      BY <2>1, <3>1, Zenon DEF Tables, Filled
    <3>3. ASSUME Child(lv, no, tbl[p][j], lv[p], no[p] * PTRS + j)
          PROVE  Child(lv2, no2, tbl[p][j], lv[p], no[p] * PTRS + j)
      <4>1. /\ lv[p] < 3 /\ tbl[p][j].attr = TYPE_TABLE /\ tbl[p][j].pa \in TablePage
            /\ lv[tbl[p][j].pa] = lv[p] + 1 /\ no[tbl[p][j].pa] = no[p] * PTRS + j
        BY <3>3, Zenon DEF Child
      <4>2. lv[p] + 1 # 4
        BY <1>2, <4>1
      <4>3. tbl[p][j].pa # r
        BY <4>1, <4>2, Zenon
      <4> QED
        BY <1>5, <4>1, <4>3, Zenon DEF Child
    <3> QED
      BY <3>1, <3>2, <3>3, Zenon DEF EntryOk
  <2> QED
    BY <2>2, <2>3, <2>4, Zenon
<1>9. Linkage(lv2, no2)'
  <2>1. SUFFICES ASSUME NEW p \in TablePage, lv2[p] \in 1 .. 3
                 PROVE  \E q \in TablePage : /\ lv2[q] = lv2[p] - 1 /\ no2[q] = no2[p] \div PTRS
                                             /\ tbl'[q][no2[p] % PTRS].pa = p
                                             /\ tbl'[q][no2[p] % PTRS].attr = TYPE_TABLE
    BY <1>1, Zenon DEF Linkage
  <2>2. CASE p = r
    <3>1. tbl'[t][i].pa = r /\ tbl'[t][i].attr = TYPE_TABLE
      BY <1>6
    <3>2. lv2[t] = lv2[p] - 1 /\ no2[t] = no2[p] \div PTRS /\ no2[p] % PTRS = i
      BY <1>3, <1>4, <1>5, <2>2, Zenon
    <3> QED
      BY <2>2, <3>1, <3>2, Zenon
  <2>3. CASE p # r
    <3>1. lv2[p] = lv[p] /\ no2[p] = no[p]
      BY <1>5, <2>3, Zenon
    <3>2. PICK q \in TablePage : /\ lv[q] = lv[p] - 1 /\ no[q] = no[p] \div PTRS
                                 /\ tbl[q][no[p] % PTRS].pa = p
                                 /\ tbl[q][no[p] % PTRS].attr = TYPE_TABLE
      BY <2>1, <3>1, Zenon DEF Tables, Linkage
    <3>3. lv[p] - 1 # 4
      BY <2>1, <3>1
    <3>4. q # r
      BY <3>2, <3>3, Zenon
    <3>5. no[p] % PTRS \in 0 .. PTRS - 1
      BY <1>2, DivBounds, PgTableAssumption
    <3>6. ~(q = t /\ no[p] % PTRS = i)
      <4>1. none.attr # TYPE_TABLE
        BY Types DEF none
      <4> QED
        BY <3>2, <4>1, Zenon
    <3>7. tbl'[q][no[p] % PTRS] = tbl[q][no[p] % PTRS]
      BY <1>6, <3>5, <3>6, ZenonT(30)
    <3>8. lv2[q] = lv[q] /\ no2[q] = no[q]
      BY <1>5, <3>4, Zenon
    <3> QED
      BY <3>1, <3>2, <3>7, <3>8, Zenon
  <2> QED
    BY <2>2, <2>3, Zenon
<1>10. \A p \in TablePage : lv[p] = m => no[p] # n
  BY NoTableYet, Zenon
<1>11. Distinct(lv2, no2)'
  <2>1. SUFFICES ASSUME NEW p \in TablePage, NEW q \in TablePage,
                        lv2[p] # 4, lv2[p] = lv2[q], no2[p] = no2[q]
                 PROVE  p = q
    BY <1>1, ZenonT(30) DEF Distinct
  <2>2. CASE p = r /\ q # r
    <3>1. lv2[p] = m /\ no2[p] = n /\ lv2[q] = lv[q] /\ no2[q] = no[q]
      BY <1>5, <2>2, Zenon
    <3> QED
      BY <1>10, <2>1, <3>1, Zenon
  <2>3. CASE q = r /\ p # r
    <3>1. lv2[q] = m /\ no2[q] = n /\ lv2[p] = lv[p] /\ no2[p] = no[p]
      BY <1>5, <2>3, Zenon
    <3> QED
      BY <1>10, <2>1, <3>1, Zenon
  <2>4. CASE p # r /\ q # r
    <3>1. lv2[p] = lv[p] /\ no2[p] = no[p] /\ lv2[q] = lv[q] /\ no2[q] = no[q]
      BY <1>5, <2>4, Zenon
    <3> QED
      BY <2>1, <3>1, Zenon DEF Tables, Distinct
  <2> QED
    BY <2>2, <2>3, <2>4, Zenon
<1>12. Ragged(lv2, no2)'
  <2>1. SUFFICES ASSUME NEW p \in TablePage, NEW k \in Region, lv2[p] = 3
                 PROVE  ~Inside(k, 2, no2[p])
    BY <1>1, Steady, Zenon DEF Ragged
  <2>2. CASE p = r
    BY <1>5, <2>1, <2>2, Zenon
  <2>3. CASE p # r
    BY <1>5, <2>1, <2>3, Zenon DEF Tables, Ragged
  <2> QED
    BY <2>2, <2>3, Zenon
<1>13. Needed(lv2, no2)'
  <2>1. SUFFICES ASSUME NEW p \in TablePage, lv2[p] \in 1 .. 3
                 PROVE  <<lv2[p], no2[p]>> \in TablesNeeded
    BY <1>1, Zenon DEF Needed
  <2>2. CASE p = r
    BY <1>5, <2>2, Zenon
  <2>3. CASE p # r
    BY <1>5, <2>1, <2>3, Zenon DEF Tables, Needed
  <2> QED
    BY <2>2, <2>3, Zenon
<1> QED
  BY <1>7, <1>8, <1>9, <1>11, <1>12, <1>13, Zenon DEF Tables

------------------------------------------------------------------------------
(* What is mapped stays mapped.                                            *)

Grown(lv, no, lv2, no2) ==
  \A p \in TablePage : lv[p] # 4 => lv2[p] = lv[p] /\ no2[p] = no[p]

LEMMA MappedKept ==
  ASSUME UNCHANGED etext, NEW lv, NEW no, NEW lv2, NEW no2,
         Grown(lv, no, lv2, no2),
         \A p \in TablePage : \A i \in 0 .. PTRS - 1 :
           /\ lv[p] \in {2, 3} /\ tbl[p][i] # none
           /\ lv[p] = 2 => tbl[p][i].attr # TYPE_TABLE
           => /\ tbl'[p][i] # none
              /\ lv[p] = 2 => tbl'[p][i].attr # TYPE_TABLE,
         NEW a \in Nat, Mapped(lv, no, a)
  PROVE  Mapped(lv2, no2, a)'
<1>1. TablePage' = TablePage
  BY Steady, Zenon
<1>2. PICK p \in TablePage :
        /\ lv[p] \in {2, 3} /\ no[p] = slot(lv[p] - 1, a)
        /\ tbl[p][index(lv[p], a)] # none
        /\ lv[p] = 2 => tbl[p][index(lv[p], a)].attr # TYPE_TABLE
  BY Zenon DEF Mapped
<1>3. lv[p] # 4 /\ lv[p] \in 0 .. 3
  BY <1>2
<1>4. index(lv[p], a) \in 0 .. PTRS - 1
  <2>1. a \div SIZE(lv[p]) \in Nat
    BY <1>3, SizeType, DivBounds, Zenon
  <2> QED
    BY <2>1, DivBounds, PgTableAssumption, Zenon DEF index
<1>5. lv2[p] = lv[p] /\ no2[p] = no[p]
  BY <1>3, Zenon DEF Grown
<1>6. /\ tbl'[p][index(lv[p], a)] # none
      /\ lv[p] = 2 => tbl'[p][index(lv[p], a)].attr # TYPE_TABLE
  BY <1>2, <1>4, Zenon
<1> QED
  BY <1>1, <1>2, <1>5, <1>6, Zenon DEF Mapped

LEMMA ProgressKept ==
  ASSUME UNCHANGED etext, NEW lv, NEW no, NEW lv2, NEW no2, Progress(lv, no),
         \A a \in Nat : Mapped(lv, no, a) => Mapped(lv2, no2, a)',
         \A k \in Region : \A a \in Nat :
           Start(k) <= a /\ a < Upto(k)' => a < Upto(k) \/ Mapped(lv2, no2, a)'
  PROVE  Progress(lv2, no2)'
  BY Steady, Zenon DEF Progress

(* The frames of the calls in progress look only at tables, not at pages.  *)
LEMMA FramesKept ==
  ASSUME UNCHANGED <<etext, stk, todo, prot>>, NEW lv, NEW no, NEW lv2, NEW no2,
         Grown(lv, no, lv2, no2),
         Frames(lv, no)
  PROVE  Frames(lv2, no2)'
<1>1. TablePage' = TablePage /\ cur' = cur /\ \A k : Start(k)' = Start(k) /\ End(k)' = End(k)
  BY Steady, Zenon DEF cur
<1>2. ASSUME NEW j \in 1 .. Len(stk)
      PROVE  FrameOk(lv2, no2, j)'
  <2>1. FrameOk(lv, no, j) /\ j - 1 # 4
    <3>1. FrameOk(lv, no, j) /\ Len(stk) \in 0 .. 4
      BY Zenon DEF Frames
    <3>2. \A x \in 0 .. 4 : \A y \in 1 .. x : y - 1 # 4
      OBVIOUS
    <3> QED
      BY <3>1, <3>2, Zenon
  <2>2. stk[j].tab \in TablePage /\ lv[stk[j].tab] = j - 1
    BY <2>1, Zenon DEF FrameOk
  <2>3. lv2[stk[j].tab] = lv[stk[j].tab] /\ no2[stk[j].tab] = no[stk[j].tab]
    BY <2>1, <2>2, Zenon DEF Grown
  <2> QED
    BY <1>1, <2>1, <2>3, Zenon DEF FrameOk
<1> QED
  BY <1>1, <1>2, Zenon DEF Frames, Prot

------------------------------------------------------------------------------
(* The stack: a loop moves on, calls and returns.                          *)

LEMMA InMap == Control /\ stk # <<>> => pc = "map" /\ ~sctlr_M /\ etext \in Etext
  BY DEF Control

LEMMA MovedFrame ==
  ASSUME NEW x \in Frame, NEW y \in Int
  PROVE  LET g == [x EXCEPT !.phys = y, !.addr = y]
         IN  /\ g \in Frame /\ g.l = x.l /\ g.tab = x.tab /\ g.end = x.end
             /\ g.addr = y /\ g.phys = y
  BY Zenon DEF Frame

(* How far the mappings are, by the state of the one in progress.          *)
LEMMA UptoIs ==
  ASSUME cur \in Int, NEW k \in Region
  PROVE  Upto(k) = IF k < cur THEN End(k)
                   ELSE IF k = cur THEN IF stk = <<>> THEN End(k) ELSE f.addr
                   ELSE Start(k)
  BY DEF Upto, Region

LEMMA FramesAdvance ==
  ASSUME etext \in Etext, NEW lv, NEW no, Shape(lv, no), Frames(lv, no), Looping,
         advance, UNCHANGED <<etext, todo, prot>>
  PROVE  /\ Frames(lv, no)'
         /\ \A k \in Region : Upto(k)' = IF k = cur THEN next ELSE Upto(k)
<1> DEFINE n == Len(stk)
<1>1. /\ stk \in Seq(Frame) /\ n \in 1 .. 4 /\ cur \in Region /\ prot = Prot(cur)
      /\ \A j \in 1 .. n : FrameOk(lv, no, j)
      /\ \A j \in 1 .. n - 1 : /\ stk[j].addr # stk[j].end
                               /\ stk[j + 1].end = addr_end(j - 1, stk[j].addr, stk[j].end)
  BY SMTT(30) DEF Frames, Looping
<1>2. /\ next \in Nat /\ f.addr < next /\ next <= f.end /\ next % PAGE_SIZE = 0
      /\ next = f.end \/ next % SIZE(f.l) = 0
      /\ f.addr \in Nat /\ f.phys = f.addr /\ f.l = n - 1
  BY SMTT(30), Here
<1>3. f = stk[n] /\ f \in Frame
  BY <1>1 DEF f
<1> DEFINE g == [f EXCEPT !.phys = next, !.addr = next]
<1>4. stk' = [stk EXCEPT ![n] = g]
  <2>1. f.phys + next - f.addr = next
    BY <1>2
  <2>2. stk' = [stk EXCEPT ![n] = [[f EXCEPT !.phys = f.phys + next - f.addr] EXCEPT !.addr = next]]
    BY <1>1, <1>3, Zenon DEF advance, Frame
  <2> QED
    BY <1>3, <2>1, <2>2, Zenon DEF Frame
<1>5. /\ g \in Frame /\ g.l = f.l /\ g.tab = f.tab /\ g.end = f.end /\ g.addr = next /\ g.phys = next
  <2>1. next \in Int
    BY <1>2
  <2> QED
    BY <1>3, <2>1, MovedFrame, ZenonT(30)
<1> HIDE DEF g, n
<1>6. /\ stk' \in Seq(Frame) /\ Len(stk') = n /\ stk'[n] = g
      /\ \A j \in 1 .. n : j # n => stk'[j] = stk[j]
  BY <1>1, <1>4, <1>5 DEF n
<1>7. TablePage' = TablePage /\ cur' = cur /\ \A k : Start(k)' = Start(k) /\ End(k)' = End(k)
  BY Steady, Zenon DEF cur
<1>8. ASSUME NEW j \in 1 .. n
      PROVE  FrameOk(lv, no, j)'
  <2>1. CASE j # n
    <3>1. stk'[j] = stk[j]
      BY <1>6, <2>1, Zenon
    <3> QED
      BY <1>1, <1>7, <3>1, Zenon DEF FrameOk
  <2>2. CASE j = n
    <3>1. /\ f.l = n - 1 /\ f.tab \in TablePage /\ lv[f.tab] = n - 1
          /\ f.addr \in Nat /\ f.end \in Nat
          /\ Start(cur) <= f.addr /\ f.addr <= f.end /\ f.end <= End(cur)
          /\ f.end % PAGE_SIZE = 0
          /\ f.end = End(cur) \/ (n > 1 /\ f.end % SIZE(n - 2) = 0)
          /\ no[f.tab] * (PTRS * SIZE(n - 1)) <= f.addr
          /\ f.end <= (no[f.tab] + 1) * (PTRS * SIZE(n - 1))
      <4>1. FrameOk(lv, no, n)
        BY <1>1
      <4> QED
        BY <1>3, <4>1, ZenonT(30) DEF FrameOk, n
    <3>2. Start(cur) \in Nat /\ End(cur) \in Nat /\ no[f.tab] * (PTRS * SIZE(n - 1)) \in Nat
      <4>1. no[f.tab] \in Nat
        BY <3>1, Zenon DEF Shape
      <4>3. n - 1 \in 0 .. 3
        BY <1>1
      <4>4. SIZE(n - 1) \in Nat /\ PTRS \in Nat
        BY <4>3, SizeType, PgTableAssumption, Zenon
      <4>2. \A x, y \in Nat : x * y \in Nat
        BY SMTT(30)
      <4> QED
        BY <1>1, <4>1, <4>2, <4>4, Regions, Zenon
    <3>3. Start(cur) <= next /\ no[f.tab] * (PTRS * SIZE(n - 1)) <= next
      BY <1>2, <3>1, <3>2
    <3>4. g = stk[j]'
      BY <1>6, <2>2, Zenon
    <3>5. /\ g.l = j - 1 /\ g.tab \in TablePage /\ lv[g.tab] = j - 1
          /\ g.addr \in Nat /\ g.end \in Nat /\ g.phys = g.addr
          /\ Start(cur) <= g.addr /\ g.addr <= g.end /\ g.end <= End(cur)
          /\ g.addr % PAGE_SIZE = 0 /\ g.end % PAGE_SIZE = 0
          /\ g.addr = Start(cur) \/ g.addr % SIZE(j - 1) = 0 \/ g.addr = g.end
          /\ g.end = End(cur) \/ (j > 1 /\ g.end % SIZE(j - 2) = 0)
          /\ no[g.tab] * (PTRS * SIZE(j - 1)) <= g.addr
          /\ g.end <= (no[g.tab] + 1) * (PTRS * SIZE(j - 1))
      BY <1>2, <1>5, <2>2, <3>1, <3>3, Zenon
    <3> QED
      BY <1>7, <3>4, <3>5, Zenon DEF FrameOk
  <2> QED
    BY <2>1, <2>2, Zenon
<1>9. \A j \in 1 .. n - 1 : /\ stk'[j].addr # stk'[j].end
                            /\ stk'[j + 1].end = addr_end(j - 1, stk'[j].addr, stk'[j].end)
  <2>1. SUFFICES ASSUME NEW j \in 1 .. n - 1
                 PROVE  /\ stk'[j].addr # stk'[j].end
                        /\ stk'[j + 1].end = addr_end(j - 1, stk'[j].addr, stk'[j].end)
    OBVIOUS
  <2>2. stk'[j] = stk[j] /\ stk'[j + 1].end = stk[j + 1].end
    <3>1. j \in 1 .. n /\ j + 1 \in 1 .. n /\ j # n
      BY <1>1
    <3>2. CASE j + 1 = n
      BY <1>3, <1>5, <1>6, <3>1, <3>2, Zenon
    <3>3. CASE j + 1 # n
      BY <1>6, <3>1, <3>3, Zenon
    <3> QED
      BY <3>2, <3>3, Zenon
  <2> QED
    BY <1>1, <2>2, ZenonT(30) DEF n
<1>10. Frames(lv, no)'
  BY SMTT(30), <1>1, <1>6, <1>7, <1>8, <1>9 DEF Frames, Prot, n
<1>11. stk # <<>> /\ stk' # <<>> /\ f'.addr = next
  BY SMTT(30), <1>1, <1>5, <1>6 DEF f, n
<1>12. cur \in Int
  BY <1>1 DEF Region
<1>13. ASSUME NEW k \in Region
       PROVE  Upto(k)' = IF k = cur THEN next ELSE Upto(k)
  <2>1. Upto(k)' = IF k < cur THEN End(k) ELSE IF k = cur THEN next ELSE Start(k)
    <3>1. k \in Int
      BY DEF Region
    <3> QED
      BY <1>7, <1>11, <1>12, <3>1 DEF Upto
  <2>2. Upto(k) = IF k < cur THEN End(k) ELSE IF k = cur THEN f.addr ELSE Start(k)
    BY <1>11, <1>12, UptoIs, Zenon
  <2>3. k = cur => ~(k < cur)
    BY <1>12
  <2> QED
    BY <2>1, <2>2, <2>3, Zenon
<1> QED
  BY <1>10, <1>13, Zenon

(* An entry that leads on leads to the table of its slot.                  *)
LEMMA EntryBelow ==
  ASSUME Control, NEW lv, NEW no, Shape(lv, no), Filled(lv, no), Frames(lv, no),
         Looping, f.l < 3, ~section_fits, entry # none
  PROVE  entry.pa \in TablePage /\ lv[entry.pa] = f.l + 1 /\ no[entry.pa] = here
<1>1. /\ etext \in Etext /\ f.l \in 0 .. 3 /\ f.tab \in TablePage /\ lv[f.tab] = f.l
      /\ index(f.l, f.addr) \in 0 .. PTRS - 1 /\ here = no[f.tab] * PTRS + index(f.l, f.addr)
  BY Here, Zenon DEF Control
<1>2. lv[f.tab] # 4
  BY <1>1
<1>3. EntryOk(lv, no, entry, f.l, here)
  BY <1>1, <1>2, Zenon DEF Filled, entry
<1>4. ~LeafOf(entry, f.l, here)
  <2>1. SUFFICES ASSUME LeafOf(entry, f.l, here) PROVE FALSE
    BY SMTT(30)
  <2>2. f.l = 2
    BY <1>1, <2>1 DEF LeafOf
  <2>3. \E k \in Region : Inside(k, 2, here)
    BY <2>1, <2>2, Zenon DEF LeafOf
  <2> QED
    BY <1>1, <2>2, <2>3, SectionFits, Zenon
<1> QED
  BY <1>3, <1>4, Zenon DEF EntryOk, Child

LEMMA FramesDescend ==
  ASSUME Control, NEW lv, NEW no, Shape(lv, no), Filled(lv, no), Frames(lv, no), descend
  PROVE  /\ Frames(lv, no)'
         /\ \A k \in Region : Upto(k)' = Upto(k)
<1> DEFINE n == Len(stk)
           g == [l |-> f.l + 1, tab |-> entry.pa, addr |-> f.addr, end |-> next, phys |-> f.phys]
<1>0. /\ Looping /\ f.l < 3 /\ ~section_fits /\ entry # none /\ stk' = Append(stk, g)
      /\ UNCHANGED <<etext, todo, prot>> /\ etext \in Etext
  BY Zenon DEF descend, image, Control
<1>1. /\ stk \in Seq(Frame) /\ n \in 1 .. 4 /\ cur \in Region /\ prot = Prot(cur)
      /\ \A j \in 1 .. n : FrameOk(lv, no, j)
      /\ \A j \in 1 .. n - 1 : /\ stk[j].addr # stk[j].end
                               /\ stk[j + 1].end = addr_end(j - 1, stk[j].addr, stk[j].end)
  BY <1>0 DEF Frames, Looping
<1>2. /\ f.l \in 0 .. 3 /\ n = f.l + 1 /\ here \in Nat /\ f.addr \in Nat /\ f.phys = f.addr
      /\ Start(cur) <= f.addr /\ f.end <= End(cur) /\ f.end \in Nat
      /\ next \in Nat /\ f.addr < next /\ next <= f.end /\ next % PAGE_SIZE = 0
      /\ next <= (here + 1) * SIZE(f.l) /\ here * SIZE(f.l) <= f.addr
      /\ f.addr % PAGE_SIZE = 0
      /\ f.addr = Start(cur) \/ f.addr % SIZE(f.l) = 0
      /\ next = End(cur) \/ next % SIZE(f.l) = 0
  BY <1>0, Here, Zenon
<1>3. entry.pa \in TablePage /\ lv[entry.pa] = n /\ no[entry.pa] = here
  BY <1>0, <1>2, EntryBelow, ZenonT(30)
<1>4. /\ n \in 1 .. 3 /\ f.l = n - 1 /\ SIZE(n - 1) = PTRS * SIZE(n) /\ f = stk[n]
      /\ next = addr_end(n - 1, f.addr, f.end) /\ f.addr # f.end
  <2>1. /\ n \in 1 .. 3 /\ f.l = n - 1
    BY SMTT(30), <1>0, <1>2
  <2>2. SIZE(n - 1) = PTRS * SIZE(n)
    BY <2>1, SizeUp, Zenon
  <2>3. f = stk[n] /\ next = addr_end(f.l, f.addr, f.end)
    BY Zenon DEF f, next
  <2>4. f.addr # f.end
    BY <1>0, Zenon DEF Looping
  <2> QED
    BY <2>1, <2>2, <2>3, <2>4, Zenon
<1>5. g \in Frame
  BY SMTT(30), <1>0, <1>2, <1>3, TablePages DEF Frame
<1>6. /\ g.l = n /\ g.tab = entry.pa /\ g.addr = f.addr /\ g.end = next /\ g.phys = f.addr
  BY <1>2
<1> HIDE DEF g, n
<1>7. /\ stk' \in Seq(Frame) /\ Len(stk') = n + 1 /\ stk'[n + 1] = g
      /\ \A j \in 1 .. n : stk'[j] = stk[j]
  BY <1>0, <1>1, <1>5 DEF n
<1>8. TablePage' = TablePage /\ cur' = cur /\ \A k : Start(k)' = Start(k) /\ End(k)' = End(k)
  BY <1>0, Steady, Zenon DEF cur
<1>9. ASSUME NEW j \in 1 .. n + 1
      PROVE  FrameOk(lv, no, j)'
  <2>1. CASE j # n + 1
    <3>1. j \in 1 .. n
      BY <1>1, <2>1
    <3>2. stk'[j] = stk[j]
      BY <1>7, <3>1, Zenon
    <3> QED
      BY <1>1, <1>8, <3>1, <3>2, ZenonT(30) DEF FrameOk
  <2>2. CASE j = n + 1
    <3>1. j - 1 = n /\ j > 1 /\ j - 2 = n - 1
      BY <1>1, <2>2
    <3>2. f.addr = Start(cur) \/ f.addr % SIZE(n) = 0
      BY <1>2, <1>4, AlignedBelow, ZenonT(30)
    <3>3. next <= End(cur)
      BY SMTT(30), <1>0, <1>1, <1>2, Regions
    <3>4. f.addr <= next
      BY <1>2
    <3>5. /\ g.l = j - 1 /\ g.tab \in TablePage /\ lv[g.tab] = j - 1
          /\ g.addr \in Nat /\ g.end \in Nat /\ g.phys = g.addr
          /\ Start(cur) <= g.addr /\ g.addr <= g.end /\ g.end <= End(cur)
          /\ g.addr % PAGE_SIZE = 0 /\ g.end % PAGE_SIZE = 0
      BY <1>2, <1>3, <1>6, <3>1, <3>3, <3>4, Zenon
    <3>6. /\ g.addr = Start(cur) \/ g.addr % SIZE(j - 1) = 0 \/ g.addr = g.end
          /\ g.end = End(cur) \/ (j > 1 /\ g.end % SIZE(j - 2) = 0)
          /\ no[g.tab] * (PTRS * SIZE(j - 1)) <= g.addr
          /\ g.end <= (no[g.tab] + 1) * (PTRS * SIZE(j - 1))
      BY <1>2, <1>3, <1>4, <1>6, <3>1, <3>2, Zenon
    <3>7. g = stk[j]'
      BY <1>7, <2>2, Zenon
    <3> QED
      BY <1>8, <3>5, <3>6, <3>7, Zenon DEF FrameOk
  <2> QED
    BY <2>1, <2>2, Zenon
<1>10. \A j \in 1 .. n : /\ stk'[j].addr # stk'[j].end
                         /\ stk'[j + 1].end = addr_end(j - 1, stk'[j].addr, stk'[j].end)
  <2>1. SUFFICES ASSUME NEW j \in 1 .. n
                 PROVE  /\ stk'[j].addr # stk'[j].end
                        /\ stk'[j + 1].end = addr_end(j - 1, stk'[j].addr, stk'[j].end)
    OBVIOUS
  <2>2. stk'[j] = stk[j]
    BY <1>7, Zenon
  <2>3. CASE j = n
    BY <1>4, <1>6, <1>7, <2>2, <2>3, Zenon
  <2>4. CASE j # n
    <3>1. j \in 1 .. n - 1 /\ j + 1 \in 1 .. n
      BY <1>1, <2>4
    <3>2. stk'[j + 1] = stk[j + 1]
      BY <1>7, <3>1, Zenon
    <3> QED
      BY <1>1, <2>2, <3>1, <3>2, Zenon
  <2> QED
    BY <2>3, <2>4, ZenonT(30)
<1>11. Frames(lv, no)'
  <2>1. Len(stk') \in 0 .. 4 /\ Len(stk') - 1 = n
    BY <1>4, <1>7
  <2>2. \A j \in 1 .. Len(stk') : FrameOk(lv, no, j)'
    BY <1>7, <1>9, Zenon
  <2>3. cur' \in Region' /\ prot' = Prot(cur)'
    BY <1>0, <1>1, <1>8, ZenonT(30) DEF Prot, Region
  <2> QED
    BY <1>7, <1>10, <2>1, <2>2, <2>3, ZenonT(30) DEF Frames
<1>12. stk # <<>> /\ stk' # <<>> /\ f'.addr = f.addr
  BY SMTT(30), <1>1, <1>6, <1>7 DEF f, n
<1> QED
  BY <1>8, <1>11, <1>12, Zenon DEF Upto

LEMMA Prefixes ==
  ASSUME NEW T, NEW s \in Seq(T), NEW m \in 0 .. Len(s)
  PROVE  /\ SubSeq(s, 1, m) \in Seq(T) /\ Len(SubSeq(s, 1, m)) = m
         /\ \A j \in 1 .. m : SubSeq(s, 1, m)[j] = s[j]
  OBVIOUS

LEMMA FramesReturn ==
  ASSUME Control, NEW lv, NEW no, Shape(lv, no), Frames(lv, no), return
  PROVE  /\ Frames(lv, no)'
         /\ \A k \in Region : Upto(k)' = Upto(k)
<1> DEFINE n == Len(stk)
           up == SubSeq(stk, 1, n - 1)
<1>0. /\ stk # <<>> /\ f.addr = f.end /\ UNCHANGED <<etext, todo, prot>> /\ etext \in Etext
      /\ stk' = IF up = <<>> THEN <<>>
                ELSE [up EXCEPT ![Len(up)].phys = @ + f.end - up[Len(up)].addr,
                                ![Len(up)].addr = f.end]
  BY Zenon DEF return, image, Control
<1>1. /\ stk \in Seq(Frame) /\ n \in 1 .. 4 /\ cur \in Region /\ prot = Prot(cur)
      /\ \A j \in 1 .. n : FrameOk(lv, no, j)
      /\ \A j \in 1 .. n - 1 : /\ stk[j].addr # stk[j].end
                               /\ stk[j + 1].end = addr_end(j - 1, stk[j].addr, stk[j].end)
  BY <1>0 DEF Frames
<1>2. up \in Seq(Frame) /\ Len(up) = n - 1 /\ \A j \in 1 .. n - 1 : up[j] = stk[j]
  <2>1. n - 1 \in 0 .. Len(stk)
    <3>1. n \in 1 .. 4
      BY <1>1, Zenon
    <3> QED
      BY <3>1
  <2> QED
    BY <1>1, <2>1, Prefixes, Zenon
<1>3. TablePage' = TablePage /\ cur' = cur /\ \A k : Start(k)' = Start(k) /\ End(k)' = End(k)
  BY <1>0, Steady, Zenon DEF cur
<1>4. f = stk[n] /\ cur \in Int
  BY <1>1 DEF f, Region
<1> HIDE DEF up
<1>5. CASE n = 1
  <2>1. stk' = <<>>
    BY SMTT(30), <1>0, <1>2, <1>5
  <2>2. Frames(lv, no)'
    BY <2>1 DEF Frames
  <2>3. f.addr = End(cur)
    <3>1. FrameOk(lv, no, 1)
      BY <1>1, <1>5
    <3>2. stk[1].end = End(cur) \/ 1 > 1
      BY <3>1, Zenon DEF FrameOk
    <3>3. ~(1 > 1)
      OBVIOUS
    <3> QED
      BY <1>0, <1>4, <1>5, <3>2, <3>3, Zenon
  <2>4. ASSUME NEW k \in Region
        PROVE  Upto(k)' = Upto(k)
    <3>1. Upto(k) = IF k < cur THEN End(k) ELSE IF k = cur THEN f.addr ELSE Start(k)
      BY <1>0, <1>4, UptoIs, Zenon
    <3>2. Upto(k)' = IF k < cur THEN End(k) ELSE IF k = cur THEN End(k) ELSE Start(k)
      <4>1. k \in Int
        BY DEF Region
      <4> QED
        BY <1>3, <1>4, <2>1, <4>1 DEF Upto
    <3>3. CASE k = cur
      BY <1>4, <2>3, <3>1, <3>2, <3>3
    <3>4. CASE k # cur
      BY <3>1, <3>2, <3>4, Zenon
    <3> QED
      BY <3>3, <3>4, Zenon
  <2> QED
    BY <2>2, <2>4, Zenon
<1>6. CASE n # 1
  <2> DEFINE m == n - 1
             h == stk[m]
             g == [h EXCEPT !.phys = f.end, !.addr = f.end]
  <2>1. m \in 1 .. 3 /\ m \in 1 .. n /\ m \in 1 .. n - 1 /\ m + 1 = n /\ n \in 1 .. n
    BY SMTT(30), <1>1, <1>6
  <2>2. FrameOk(lv, no, m) /\ FrameOk(lv, no, n) /\ h \in Frame
    BY <1>1, <2>1
  <2>3. h.addr # h.end /\ f.end = addr_end(m - 1, h.addr, h.end)
    BY <1>1, <1>4, <2>1, Zenon
  <2> HIDE DEF m, n
  <2>4. /\ h.l = m - 1 /\ h.tab \in TablePage /\ lv[h.tab] = m - 1
        /\ h.addr \in Nat /\ h.end \in Nat /\ h.phys = h.addr
        /\ Start(cur) <= h.addr /\ h.addr <= h.end /\ h.end <= End(cur)
        /\ h.addr % PAGE_SIZE = 0 /\ h.end % PAGE_SIZE = 0
        /\ h.end = End(cur) \/ (m > 1 /\ h.end % SIZE(m - 2) = 0)
        /\ no[h.tab] * (PTRS * SIZE(m - 1)) <= h.addr
        /\ h.end <= (no[h.tab] + 1) * (PTRS * SIZE(m - 1))
    BY <2>2, ZenonT(30) DEF FrameOk
  <2>5. h.addr < h.end /\ m - 1 \in 0 .. 3
    BY <2>1, <2>3, <2>4
  <2>6. /\ f.end \in Nat /\ h.addr < f.end /\ f.end <= h.end /\ f.end % PAGE_SIZE = 0
        /\ f.end = h.end \/ f.end % SIZE(m - 1) = 0
    <3>1. ASSUME NEW l \in 0 .. 3, NEW x, x = addr_end(l, h.addr, h.end)
          PROVE  /\ x \in Nat /\ h.addr < x /\ x <= h.end /\ x % PAGE_SIZE = 0
                 /\ x = h.end \/ x % SIZE(l) = 0
      BY <2>4, <2>5, <3>1, AddrEnd, Zenon
    <3> QED
      BY <2>3, <2>5, <3>1, Zenon
  <2>7. stk' = [up EXCEPT ![m] = g]
    <3>1. up # <<>> /\ Len(up) = m /\ up[m] = h /\ m \in DOMAIN up /\ f.end \in Int
      BY SMTT(30), <1>2, <2>1, <2>6 DEF m, n
    <3>2. h.phys + f.end - h.addr = f.end
      BY <2>4, <2>6
    <3>3. stk' = [up EXCEPT ![m] = [[h EXCEPT !.phys = h.phys + f.end - h.addr] EXCEPT !.addr = f.end]]
      BY <1>0, <2>2, <3>1, Zenon DEF Frame
    <3> QED
      BY <2>2, <3>2, <3>3, ZenonT(30) DEF Frame
  <2>8. /\ g \in Frame /\ g.l = h.l /\ g.tab = h.tab /\ g.end = h.end
        /\ g.addr = f.end /\ g.phys = f.end
    <3>1. f.end \in Int
      BY SMTT(30), <2>6
    <3> QED
      BY <2>2, <3>1, MovedFrame, Zenon
  <2> HIDE DEF g, h
  <2>9. /\ stk' \in Seq(Frame) /\ Len(stk') = m /\ stk'[m] = g
        /\ \A j \in 1 .. m : j # m => stk'[j] = stk[j]
    BY <1>2, <2>1, <2>7, <2>8 DEF m, n
  <2>10. ASSUME NEW j \in 1 .. m
         PROVE  FrameOk(lv, no, j)'
    <3>1. CASE j # m
      <4>1. stk'[j] = stk[j] /\ j \in 1 .. n
        BY <2>1, <2>9, <3>1
      <4> QED
        BY <1>1, <1>3, <4>1, Zenon DEF FrameOk, n
    <3>2. CASE j = m
      <4>1. Start(cur) \in Nat /\ End(cur) \in Nat /\ no[h.tab] * (PTRS * SIZE(m - 1)) \in Nat
        <5>1. no[h.tab] \in Nat
          BY <2>4, Zenon DEF Shape
        <5>2. \A x, y \in Nat : x * y \in Nat
          BY SMTT(30)
        <5>3. SIZE(m - 1) \in Nat /\ PTRS \in Nat
          BY <2>5, SizeType, PgTableAssumption, ZenonT(30)
        <5> QED
          BY <1>0, <1>1, <5>1, <5>2, <5>3, Regions, Zenon
      <4>2. Start(cur) <= f.end /\ no[h.tab] * (PTRS * SIZE(m - 1)) <= f.end
        BY <2>4, <2>6, <4>1
      <4>3. g = stk[j]'
        BY <2>9, <3>2, Zenon
      <4>4. /\ g.l = j - 1 /\ g.tab \in TablePage /\ lv[g.tab] = j - 1
            /\ g.addr \in Nat /\ g.end \in Nat /\ g.phys = g.addr
            /\ Start(cur) <= g.addr /\ g.addr <= g.end /\ g.end <= End(cur)
            /\ g.addr % PAGE_SIZE = 0 /\ g.end % PAGE_SIZE = 0
            /\ g.addr = Start(cur) \/ g.addr % SIZE(j - 1) = 0 \/ g.addr = g.end
            /\ g.end = End(cur) \/ (j > 1 /\ g.end % SIZE(j - 2) = 0)
            /\ no[g.tab] * (PTRS * SIZE(j - 1)) <= g.addr
            /\ g.end <= (no[g.tab] + 1) * (PTRS * SIZE(j - 1))
        BY <2>4, <2>6, <2>8, <3>2, <4>2, Zenon
      <4> QED
        BY <1>3, <4>3, <4>4, Zenon DEF FrameOk
    <3> QED
      BY <3>1, <3>2, Zenon
  <2>11. \A j \in 1 .. m - 1 : /\ stk'[j].addr # stk'[j].end
                               /\ stk'[j + 1].end = addr_end(j - 1, stk'[j].addr, stk'[j].end)
    <3>1. SUFFICES ASSUME NEW j \in 1 .. m - 1
                   PROVE  /\ stk'[j].addr # stk'[j].end
                          /\ stk'[j + 1].end = addr_end(j - 1, stk'[j].addr, stk'[j].end)
      OBVIOUS
    <3>2. j \in 1 .. m /\ j + 1 \in 1 .. m /\ j # m /\ j \in 1 .. n - 1
      BY <2>1
    <3>3. stk'[j] = stk[j]
      BY <2>9, <3>2, Zenon
    <3>4. stk'[j + 1].end = stk[j + 1].end
      <4>1. CASE j + 1 = m
        BY <2>8, <2>9, <4>1, Zenon DEF h
      <4>2. CASE j + 1 # m
        BY <2>9, <3>2, <4>2, Zenon
      <4> QED
        BY <4>1, <4>2, Zenon
    <3> QED
      BY <1>1, <3>2, <3>3, <3>4, ZenonT(30) DEF n
  <2>12. Frames(lv, no)'
    <3>1. Len(stk') \in 0 .. 4 /\ Len(stk') - 1 = m - 1
      BY <2>1, <2>9
    <3>2. \A j \in 1 .. Len(stk') : FrameOk(lv, no, j)'
      BY <2>9, <2>10, Zenon
    <3>3. cur' \in Region' /\ prot' = Prot(cur)'
      BY <1>0, <1>1, <1>3, Zenon DEF Prot, Region
    <3> QED
      BY <2>9, <2>11, <3>1, <3>2, <3>3, Zenon DEF Frames
  <2>13. stk' # <<>> /\ f'.addr = f.addr
    BY SMTT(30), <1>0, <2>1, <2>8, <2>9 DEF f
  <2>14. \A k \in Region : Upto(k)' = Upto(k)
    BY <1>0, <1>3, <2>13, ZenonT(30) DEF Upto
  <2> QED
    BY <2>12, <2>14, Zenon
<1> QED
  BY <1>5, <1>6, Zenon


(* The list of mappings to come: its head is the next region.              *)
LEMMA NextTodo ==
  ASSUME etext \in Etext, NEW c \in 0 .. 2, NEW k, k = c + 1
  PROVE  /\ Tail(Todo(c)) = Todo(k) /\ k \in Region
         /\ LET m == Head(Todo(c))
            IN  /\ PAGE_ALIGN(m.virt) = Start(k) /\ PAGE_ALIGN(m.phys) = Start(k)
                /\ PAGE_BALIGN(m.virt + m.size) = End(k)
                /\ m.prot = Prot(k)
<1>1. /\ etext \in Nat /\ text_boot \in Nat /\ TOTAL_MEMORY \in Nat
      /\ PBASE \in Nat /\ PBASE % PAGE_SIZE = 0 /\ PBASE + DEVICE_SIZE \in Nat
      /\ DEVICE_SIZE \in Nat
  BY MmuAssumption
<1>2. ASSUME NEW x \in Nat, x % PAGE_SIZE = 0
      PROVE  PAGE_ALIGN(x) = x
  BY <1>2 DEF PAGE_ALIGN
<1>3. PAGE_BALIGN(etext) \in Nat /\ PAGE_BALIGN(etext) % PAGE_SIZE = 0
  <2>1. 1 \in Region /\ End(1) = PAGE_BALIGN(etext)
    BY DEF Region, End
  <2> QED
    BY <2>1, Regions, Zenon
<1>4. ASSUME NEW a \in Nat, NEW b \in Nat, NEW p
      PROVE  /\ Mapping(a, b, p).virt = a /\ Mapping(a, b, p).phys = a
             /\ Mapping(a, b, p).virt + Mapping(a, b, p).size = b
             /\ Mapping(a, b, p).prot = p
  BY DEF Mapping
<1>5. CASE c = 0
  <2>1. /\ Head(Todo(c)) = Mapping(text_boot, etext, PAGE_KERNNEL_ROX)
        /\ Tail(Todo(c)) = Todo(k) /\ k = 1
    BY <1>5 DEF Todo
  <2>2. Start(k) = PAGE_ALIGN(text_boot) /\ End(k) = PAGE_BALIGN(etext) /\ Prot(k) = PAGE_KERNNEL_ROX
    BY <2>1 DEF Start, End, Prot
  <2>3. k \in Region
    BY <2>1 DEF Region
  <2>4. /\ Mapping(text_boot, etext, PAGE_KERNNEL_ROX).virt = text_boot /\ Mapping(text_boot, etext, PAGE_KERNNEL_ROX).phys = text_boot
        /\ Mapping(text_boot, etext, PAGE_KERNNEL_ROX).virt + Mapping(text_boot, etext, PAGE_KERNNEL_ROX).size = etext /\ Mapping(text_boot, etext, PAGE_KERNNEL_ROX).prot = PAGE_KERNNEL_ROX
    BY <1>1, <1>3, <1>4
  <2> QED
    BY <2>1, <2>2, <2>3, <2>4, Zenon
<1>6. CASE c = 1
  <2>1. /\ Head(Todo(c)) = Mapping(PAGE_BALIGN(etext), TOTAL_MEMORY, PAGE_KERNEL)
        /\ Tail(Todo(c)) = Todo(k) /\ k = 2
    BY <1>6 DEF Todo
  <2>2. Start(k) = PAGE_BALIGN(etext) /\ End(k) = PAGE_BALIGN(TOTAL_MEMORY) /\ Prot(k) = PAGE_KERNEL
    BY <2>1 DEF Start, End, Prot
  <2>3. k \in Region
    BY SMTT(30), <2>1 DEF Region
  <2>4. /\ Mapping(PAGE_BALIGN(etext), TOTAL_MEMORY, PAGE_KERNEL).virt = PAGE_BALIGN(etext) /\ Mapping(PAGE_BALIGN(etext), TOTAL_MEMORY, PAGE_KERNEL).phys = PAGE_BALIGN(etext)
        /\ Mapping(PAGE_BALIGN(etext), TOTAL_MEMORY, PAGE_KERNEL).virt + Mapping(PAGE_BALIGN(etext), TOTAL_MEMORY, PAGE_KERNEL).size = TOTAL_MEMORY /\ Mapping(PAGE_BALIGN(etext), TOTAL_MEMORY, PAGE_KERNEL).prot = PAGE_KERNEL
    BY <1>1, <1>3, <1>4
  <2>5. PAGE_ALIGN(PAGE_BALIGN(etext)) = PAGE_BALIGN(etext)
    BY <1>1, <1>2, <1>3, Zenon
  <2> QED
    BY <2>1, <2>2, <2>3, <2>4, <2>5, Zenon
<1>7. CASE c = 2
  <2>1. /\ Head(Todo(c)) = Mapping(PBASE, PBASE + DEVICE_SIZE, PROT("nGnRnE"))
        /\ Tail(Todo(c)) = Todo(k) /\ k = 3
    BY <1>7 DEF Todo
  <2>2. Start(k) = PBASE /\ End(k) = PAGE_BALIGN(PBASE + DEVICE_SIZE) /\ Prot(k) = PROT("nGnRnE")
    BY <2>1 DEF Start, End, Prot
  <2>3. k \in Region
    BY SMTT(30), <2>1 DEF Region
  <2>4. /\ Mapping(PBASE, PBASE + DEVICE_SIZE, PROT("nGnRnE")).virt = PBASE /\ Mapping(PBASE, PBASE + DEVICE_SIZE, PROT("nGnRnE")).phys = PBASE
        /\ Mapping(PBASE, PBASE + DEVICE_SIZE, PROT("nGnRnE")).virt + Mapping(PBASE, PBASE + DEVICE_SIZE, PROT("nGnRnE")).size = PBASE + DEVICE_SIZE /\ Mapping(PBASE, PBASE + DEVICE_SIZE, PROT("nGnRnE")).prot = PROT("nGnRnE")
    BY <1>1, <1>3, <1>4
  <2>5. PAGE_ALIGN(PBASE) = PBASE
    BY <1>1, <1>2, <1>3, Zenon
  <2> QED
    BY <2>1, <2>2, <2>3, <2>4, <2>5, Zenon
<1> QED
  BY <1>5, <1>6, <1>7

LEMMA TodoLength == \A c \in 0 .. 3 : Len(Todo(c)) = 3 - c
<1>1. SUFFICES ASSUME NEW c \in 0 .. 3
               PROVE  Len(Todo(c)) = 3 - c
  OBVIOUS
<1>2. c = 0 \/ c = 1 \/ c = 2 \/ c = 3
  OBVIOUS
<1>3. CASE c = 0
  BY <1>3 DEF Todo
<1>4. CASE c = 1
  BY <1>4 DEF Todo
<1>5. CASE c = 2
  BY <1>5 DEF Todo
<1>6. CASE c = 3
  BY <1>6 DEF Todo
<1> QED
  BY <1>2, <1>3, <1>4, <1>5, <1>6, Zenon


LEMMA FramesCreate ==
  ASSUME Control, NEW lv, NEW no, Shape(lv, no), __create_pgd_mapping
  PROVE  /\ Frames(lv, no)'
         /\ Len(todo') \in 0 .. 3 /\ todo' = Todo(cur)'
         /\ \A k \in Region : Upto(k)' = Upto(k)
<1> DEFINE c == cur
           k == c + 1
           m == Head(todo)
           g == [l |-> 0, tab |-> idmap_pg_dir, addr |-> Start(k), end |-> End(k), phys |-> Start(k)]
<1>0. /\ pc = "map" /\ stk = <<>> /\ todo # <<>>
      /\ stk' = << [l |-> 0, tab |-> idmap_pg_dir, addr |-> PAGE_ALIGN(m.virt),
                    end |-> PAGE_BALIGN(m.virt + m.size), phys |-> PAGE_ALIGN(m.phys)] >>
      /\ prot' = m.prot /\ todo' = Tail(todo)
      /\ UNCHANGED etext /\ etext \in Etext
  BY Zenon DEF __create_pgd_mapping, image, Control
<1>1. Len(todo) \in 0 .. 3 /\ todo = Todo(c)
  BY <1>0, SMTT(30) DEF Control
<1>2. c \in 0 .. 2 /\ k \in Int
  <2>1. c \in 0 .. 3
    <3>1. Len(todo) \in 0 .. 3
      BY <1>1, Zenon
    <3>2. \A x \in 0 .. 3 : 3 - x \in 0 .. 3
      OBVIOUS
    <3> QED
      BY <3>1, <3>2, Zenon DEF cur
  <2>2. c # 3
    BY <1>0, <1>1 DEF Todo
  <2> QED
    BY <2>1, <2>2
<1> HIDE DEF c
<1>3. /\ todo' = Todo(k) /\ k \in Region /\ prot' = Prot(k) /\ stk' = << g >>
  BY <1>0, <1>1, <1>2, NextTodo, Zenon
<1>4. k \in 1 .. 3
  BY <1>2
<1>5. Len(todo') = 3 - k /\ cur' = k
  <2>1. Len(todo') = 3 - k
    <3>1. k \in 0 .. 3
      BY <1>4
    <3> QED
      BY <1>3, <3>1, TodoLength, Zenon
  <2> QED
    BY <1>4, <2>1 DEF cur
<1>6. /\ TablePage' = TablePage /\ \A j : Start(j)' = Start(j) /\ End(j)' = End(j)
      /\ \A j : Todo(j)' = Todo(j)
  BY <1>0, Steady, Zenon
<1>7. Len(todo') \in 0 .. 3 /\ todo' = Todo(cur)'
  <2>1. Len(todo') \in 0 .. 3
    BY <1>4, <1>5
  <2> QED
    BY <1>3, <1>5, <1>6, <2>1, Zenon
<1>8. /\ Start(k) \in Nat /\ End(k) \in Nat /\ Start(k) < End(k)
      /\ Start(k) % PAGE_SIZE = 0 /\ End(k) % PAGE_SIZE = 0
      /\ End(k) <= PTRS * SIZE(0)
  BY <1>0, <1>3, Regions, Zenon
<1>9. idmap_pg_dir \in TablePage /\ lv[idmap_pg_dir] = 0 /\ no[idmap_pg_dir] = 0
      /\ idmap_pg_dir \in Int
  <2>1. etext \in Nat /\ PAGE_SIZE \in Nat \ {0}
    BY <1>0, MmuAssumption, PgTableAssumption
  <2>2. idmap_pg_dir \in Int
    <3>1. 1 \in Region /\ End(1) = PAGE_BALIGN(etext)
      BY DEF Region, End
    <3>2. PAGE_BALIGN(etext) \in Nat
      BY <1>0, <3>1, Regions, Zenon
    <3> QED
      BY <2>1, <3>2 DEF idmap_pg_dir
  <2> QED
    BY <2>2, ZenonT(30) DEF TablePage, Shape
<1> HIDE DEF k
<1>10. /\ g \in Frame /\ g.l = 0 /\ g.tab = idmap_pg_dir
       /\ g.addr = Start(k) /\ g.phys = Start(k) /\ g.end = End(k)
  <2>1. 0 \in Int /\ Start(k) \in Int /\ End(k) \in Int
    BY SMTT(30), <1>8
  <2> QED
    BY <1>9, <2>1, Zenon DEF Frame
<1> HIDE DEF g
<1>11. /\ stk' \in Seq(Frame) /\ Len(stk') = 1 /\ stk'[1] = g /\ stk' # <<>> /\ f' = g
  BY <1>3, <1>10 DEF f
<1>12. FrameOk(lv, no, 1)'
  <2>1. 1 - 1 = 0
    OBVIOUS
  <2>2. no[g.tab] * (PTRS * SIZE(0)) = 0 /\ (no[g.tab] + 1) * (PTRS * SIZE(0)) = PTRS * SIZE(0)
    <3>1. no[g.tab] = 0
      BY <1>9, <1>10, Zenon
    <3>2. PTRS * SIZE(0) \in Nat
      <4>1. \A x, y \in Nat : x * y \in Nat
        BY SMTT(30)
      <4>2. SIZE(0) \in Nat /\ PTRS \in Nat
        BY SizeType, PgTableAssumption
      <4> QED
        BY <4>1, <4>2, Zenon
    <3>3. \A x \in Nat : 0 * x = 0 /\ (0 + 1) * x = x
      OBVIOUS
    <3> QED
      BY <3>1, <3>2, <3>3, Zenon
  <2>3. /\ g.addr \in Nat /\ g.end \in Nat /\ g.phys = g.addr
        /\ Start(k) <= g.addr /\ g.addr <= g.end /\ g.end <= End(k) /\ 0 <= g.addr
    BY <1>8, <1>10
  <2>4. /\ g.l = 1 - 1 /\ g.tab \in TablePage /\ lv[g.tab] = 1 - 1
        /\ g.addr % PAGE_SIZE = 0 /\ g.end % PAGE_SIZE = 0
        /\ g.addr = Start(k) /\ g.end = End(k)
        /\ no[g.tab] * (PTRS * SIZE(1 - 1)) <= g.addr
        /\ g.end <= (no[g.tab] + 1) * (PTRS * SIZE(1 - 1))
    BY <1>8, <1>9, <1>10, <2>1, <2>2, <2>3, Zenon
  <2>5. Start(cur)' = Start(k) /\ End(cur)' = End(k) /\ stk[1]' = g
    BY <1>5, <1>6, <1>11, Zenon
  <2> QED
    BY <1>6, <2>3, <2>4, <2>5, Zenon DEF FrameOk
<1>13. Frames(lv, no)'
  <2>1. Len(stk') \in 0 .. 4 /\ 1 .. Len(stk') - 1 = {}
    BY <1>11
  <2>2. \A j \in 1 .. Len(stk') : FrameOk(lv, no, j)'
    <3>1. \A j \in 1 .. Len(stk') : j = 1
      BY <1>11
    <3> QED
      BY <1>12, <3>1, Zenon
  <2>3. cur' \in Region' /\ prot' = Prot(cur)'
    BY <1>3, <1>5, Zenon DEF Prot, Region
  <2> QED
    BY <1>11, <2>1, <2>2, <2>3, Zenon DEF Frames
<1>14. ASSUME NEW j \in Region
       PROVE  Upto(j)' = Upto(j)
  <2>1. j \in Int /\ c \in Int /\ k = c + 1
    BY <1>2 DEF Region, k
  <2>2. Upto(j) = IF j < c THEN End(j) ELSE IF j = c THEN End(j) ELSE Start(j)
    BY <1>0, <2>1 DEF Upto, c
  <2>3. Upto(j)' = IF j < k THEN End(j) ELSE IF j = k THEN g.addr ELSE Start(j)
    BY SMTT(30), <1>5, <1>6, <1>11, <2>1 DEF Upto
  <2> QED
    BY SMTT(30), <1>10, <2>1, <2>2, <2>3
<1> QED
  BY <1>7, <1>13, <1>14, Zenon


------------------------------------------------------------------------------
(* Every step keeps the invariant.                                         *)

LEMMA ControlKept ==
  ASSUME Control, UNCHANGED <<etext, todo, cpu>>, pc = "map",
         tbl' \in [TablePage -> [0 .. PTRS - 1 -> Descriptor]]
  PROVE  Control'
<1>1. /\ TablePage' = TablePage /\ \A k : Todo(k)' = Todo(k)
      /\ cur' = cur /\ pc' = "map" /\ sctlr_M' = sctlr_M
  BY Steady, Zenon DEF cpu, cur
<1>2. /\ etext \in Etext /\ Len(todo) \in 0 .. 3 /\ todo = Todo(cur) /\ ~sctlr_M
  BY DEF Control
<1>3. /\ pc' \in {"memset", "map", "enable", "done"} /\ pc' # "memset"
      /\ pc' \notin {"enable", "done"}
  BY <1>1
<1>4. Descriptor' = Descriptor
  BY Zenon DEF Descriptor, Bits
<1>5. Len(todo') \in 0 .. 3 /\ todo' = Todo(cur)'
  BY <1>1, <1>2, Zenon
<1> QED
  BY <1>1, <1>2, <1>3, <1>4, <1>5, Zenon DEF Control

LEMMA ControlWrite ==
  ASSUME Control, UNCHANGED <<etext, todo, cpu>>, pc = "map",
         NEW t \in TablePage, NEW i \in 0 .. PTRS - 1, NEW d \in Descriptor,
         tbl' = [tbl EXCEPT ![t][i] = d]
  PROVE  Control'
<1>1. tbl \in [TablePage -> [0 .. PTRS - 1 -> Descriptor]]
  BY Zenon DEF Control
<1>2. tbl' \in [TablePage -> [0 .. PTRS - 1 -> Descriptor]]
  BY <1>1, Zenon
<1> QED
  BY <1>2, ControlKept, Zenon

LEMMA UptoKept ==
  ASSUME UNCHANGED <<etext, stk, todo>>
  PROVE  \A k \in Region : Upto(k)' = Upto(k)
<1>1. cur' = cur /\ f' = f /\ \A k : Start(k)' = Start(k) /\ End(k)' = End(k)
  BY Steady, Zenon DEF cur, f
<1> QED
  BY <1>1, Zenon DEF Upto

LEMMA NeededAt ==
  ASSUME NEW l \in 1 .. 3, NEW a \in (0 .. TOTAL_MEMORY) \cup (PBASE .. PBASE + DEVICE_SIZE)
  PROVE  <<l, a \div SIZE(l - 1)>> \in TablesNeeded
  BY DEF TablesNeeded

(* The table that an entry lacks is one of those there are pages for.      *)
LEMMA NeededHere ==
  ASSUME etext \in Etext, NEW lv, NEW no, Shape(lv, no), Frames(lv, no), Looping, f.l < 3
  PROVE  <<f.l + 1, here>> \in TablesNeeded
<1>1. /\ f.l \in 0 .. 3 /\ cur \in Region /\ f.addr \in Nat /\ f.addr % PAGE_SIZE = 0
      /\ Start(cur) <= f.addr /\ f.addr < f.end /\ f.end <= End(cur) /\ f.end \in Nat
  BY Here, Zenon
<1>2. /\ etext \in Nat /\ TOTAL_MEMORY \in Nat /\ PBASE \in Nat /\ DEVICE_SIZE \in Nat
      /\ PAGE_BALIGN(etext) < TOTAL_MEMORY /\ PBASE + DEVICE_SIZE \in Nat
  BY SMTT(30), MmuAssumption
<1>3. f.addr < End(cur)
  BY SMTT(30), <1>1, Regions
<1>4. f.addr \in (0 .. TOTAL_MEMORY) \cup (PBASE .. PBASE + DEVICE_SIZE)
  <2>1. CASE cur = 1
    <3>1. End(cur) = PAGE_BALIGN(etext) /\ PAGE_BALIGN(etext) \in Nat
      BY SMTT(30), <1>2, <2>1, AlignUp DEF End
    <3> QED
      BY <1>1, <1>2, <1>3, <3>1
  <2>2. CASE cur = 2
    <3>1. End(cur) = PAGE_BALIGN(TOTAL_MEMORY)
      BY <2>2 DEF End
    <3>2. f.addr < TOTAL_MEMORY
      BY SMTT(30), <1>1, <1>2, <1>3, <3>1, AlignUp
    <3> QED
      BY <1>1, <1>2, <3>2
  <2>3. CASE cur = 3
    <3>1. End(cur) = PAGE_BALIGN(PBASE + DEVICE_SIZE) /\ Start(cur) = PBASE
      BY SMTT(30), <2>3 DEF End, Start
    <3>2. f.addr < PBASE + DEVICE_SIZE
      BY SMTT(30), <1>1, <1>2, <1>3, <3>1, AlignUp
    <3> QED
      BY SMTT(30), <1>1, <1>2, <3>1, <3>2
  <2> QED
    BY SMTT(30), <1>1, <2>1, <2>2, <2>3 DEF Region
<1>5. f.l + 1 \in 1 .. 3 /\ f.l = (f.l + 1) - 1
  BY <1>1
<1>6. here = f.addr \div SIZE((f.l + 1) - 1)
  BY <1>5, Zenon DEF here, slot
<1> QED
  BY <1>4, <1>5, <1>6, NeededAt, Zenon

LEMMA StepLink ==
  ASSUME Control, NEW lv, NEW no, Built(lv, no), link_table
  PROVE  Control' /\ \E lv2, no2 : Built(lv2, no2)'
<1> DEFINE i == index(f.l, f.addr)
           m == f.l + 1
           d == [pa |-> fresh, attr |-> TYPE_TABLE]
<1>1. /\ fresh # -1 /\ fresh' = -1 /\ tbl' = [tbl EXCEPT ![f.tab][i] = d]
      /\ UNCHANGED <<mem_map, etext, todo, stk, prot, cpu>>
  BY Zenon DEF link_table, set_entry, image
<1>2. Tables(lv, no) /\ Shape(lv, no) /\ Taken(lv) /\ Frames(lv, no) /\ Progress(lv, no)
      /\ etext \in Etext
  BY Zenon DEF Built, Tables, Control
<1>3. /\ Looping /\ f.l < 3 /\ ~section_fits /\ entry = none
      /\ fresh \in TablePage /\ lv[fresh] = 4 /\ fresh # 0 /\ tbl[fresh] = cleared
  BY <1>1, Zenon DEF Built, FreshOk
<1>4. /\ f.l \in 0 .. 3 /\ f.tab \in TablePage /\ lv[f.tab] = f.l /\ no[f.tab] \in Nat
      /\ i \in 0 .. PTRS - 1 /\ here \in Nat /\ here = no[f.tab] * PTRS + i
  BY <1>2, <1>3, Here, Zenon
<1>5. pc = "map"
  BY <1>3, InMap, Zenon DEF Looping
<1>6. Control'
  <2>1. fresh \in Int
    BY <1>2, <1>3, TablePages
  <2>2. d \in Descriptor
    BY <2>1, Types, Zenon DEF Descriptor
  <2> QED
    BY <1>1, <1>4, <1>5, <2>2, ControlWrite, ZenonT(30)
<1>7. /\ f.l \in 0 .. 2 /\ m \in 1 .. 3 /\ m # 4 /\ f.l # 4 /\ (m = 3 => f.l = 2)
  BY <1>3, <1>4
<1>17. PICK lv2, no2 : lv2 = [lv EXCEPT ![fresh] = m] /\ no2 = [no EXCEPT ![fresh] = here]
  OBVIOUS
<1> HIDE DEF i, m, d
<1>8. \A p \in TablePage : /\ lv[p] # 4 => lv2[p] = lv[p] /\ no2[p] = no[p]
                           /\ p # fresh => lv2[p] = lv[p]
  BY <1>2, <1>3, <1>17, Zenon DEF Shape
<1>18. Grown(lv, no, lv2, no2)
  BY <1>8, Zenon DEF Grown
<1>9. lv2[fresh] = m
  BY <1>2, <1>3, <1>17, Zenon DEF Shape
<1>10. Tables(lv2, no2)'
  <2>1. m = 3 => \A k \in Region : ~Inside(k, 2, here)
    BY <1>2, <1>3, <1>7, SectionFits, Zenon
  <2>2. <<m, here>> \in TablesNeeded
    BY <1>2, <1>3, NeededHere, Zenon DEF m
  <2>3. m = lv[f.tab] + 1 /\ lv[f.tab] \in 0 .. 2 /\ tbl[f.tab][i] = none
    BY <1>3, <1>4, <1>7, Zenon DEF m, i, entry
  <2> QED
    <3>1. UNCHANGED etext /\ Link(f.tab, i, fresh) /\ Owned(lv, no, fresh, m, here, lv2, no2)
      BY <1>1, <1>17, Zenon DEF d, Link, Owned
    <3>2. fresh \in TablePage /\ lv[fresh] = 4 /\ fresh # 0 /\ tbl[fresh] = cleared
      BY <1>3, Zenon
    <3>3. Tables(lv, no) /\ f.tab \in TablePage /\ i \in 0 .. PTRS - 1 /\ here = no[f.tab] * PTRS + i
      BY <1>2, <1>4, Zenon
    <3>4. NewLink(lv, no, f.tab, i, fresh, here, m)
      BY <2>1, <2>2, <2>3, <3>2, <3>3, Zenon DEF NewLink
    <3> QED
      BY <3>1, <3>2, <3>3, <3>4, TablesLink, Zenon
<1>11. \A p \in TablePage : \A j \in 0 .. PTRS - 1 :
         tbl'[p][j] = IF p = f.tab /\ j = i THEN d ELSE tbl[p][j]
  BY <1>1, <1>4, Zenon DEF Control
<1>12. \A p \in TablePage : p # f.tab => tbl'[p] = tbl[p]
  BY <1>1, <1>4, Zenon DEF Control
<1>13. Taken(lv2)'
  <2>1. /\ mem_map \in [MapIndex -> {0, 1}]
        /\ \A j \in MapIndex : mem_map[j] = 1 <=> lv[PageAt(j)] # 4 \/ fresh = PageAt(j)
        /\ \A p \in TablePage : lv[p] = 4 /\ p # fresh => tbl[p] = stale
    BY <1>2, Zenon DEF Taken, PageAt
  <2>2. ASSUME NEW j \in MapIndex
        PROVE  mem_map[j] = 1 <=> lv2[PageAt(j)] # 4 \/ -1 = PageAt(j)
    <3>1. PageAt(j) \in TablePage /\ PageAt(j) # -1
      BY <1>2, TablePages
    <3> QED
      BY <1>7, <1>8, <1>9, <2>1, <3>1, Zenon
  <2>3. ASSUME NEW p \in TablePage, lv2[p] = 4
        PROVE  tbl'[p] = stale
    <3>1. p # fresh /\ lv[p] = 4
      BY <1>7, <1>8, <1>9, <2>3, Zenon
    <3>2. p # f.tab
      BY <1>4, <1>7, <3>1, Zenon
    <3> QED
      BY <1>12, <2>1, <3>1, <3>2, Zenon
  <2>4. TablePage' = TablePage
    BY <1>1, Steady, Zenon
  <2>5. mem_map' \in [MapIndex -> {0, 1}]
    BY <1>1, <2>1, Zenon
  <2>6. \A j \in MapIndex : mem_map'[j] = 1 <=> lv2[PageAt(j)] # 4 \/ fresh' = PageAt(j)
    BY <1>1, <2>2, Zenon
  <2> QED
    BY <2>3, <2>4, <2>5, <2>6, Zenon DEF Taken, PageAt, MapIndex, stale
<1>14. Frames(lv2, no2)'
  <2>1. UNCHANGED <<etext, stk, todo, prot>>
    BY <1>1, Zenon
  <2> QED
    BY <1>2, <1>18, <2>1, FramesKept, Zenon
<1>15. FreshOk(lv2)'
  BY <1>1, Zenon DEF FreshOk
<1>16. Progress(lv2, no2)'
  <2>1. \A k \in Region : Upto(k)' = Upto(k)
    BY <1>1, UptoKept, Zenon
  <2>2. ASSUME NEW p \in TablePage, NEW j \in 0 .. PTRS - 1, tbl[p][j] # none
        PROVE  tbl'[p][j] = tbl[p][j]
    BY <1>3, <1>11, <2>2, Zenon DEF entry, i
  <2>3. ASSUME NEW a \in Nat, Mapped(lv, no, a)
        PROVE  Mapped(lv2, no2, a)'
    <3>1. UNCHANGED etext
      BY <1>1, Zenon
    <3>2. \A p \in TablePage : \A j \in 0 .. PTRS - 1 :
            /\ lv[p] \in {2, 3} /\ tbl[p][j] # none
            /\ lv[p] = 2 => tbl[p][j].attr # TYPE_TABLE
            => /\ tbl'[p][j] # none
               /\ lv[p] = 2 => tbl'[p][j].attr # TYPE_TABLE
      BY <2>2, Zenon
    <3> QED
      BY <1>18, <2>3, <3>1, <3>2, MappedKept, Zenon
  <2> QED
    BY <1>1, <1>2, <2>1, <2>3, ProgressKept, Zenon
<1> QED
  BY <1>6, <1>10, <1>13, <1>14, <1>15, <1>16, Zenon DEF Built


(* A store of a page or section entry at the address the loop has reached. *)
LEMMA StepLeaf ==
  ASSUME Control, NEW lv, NEW no, Built(lv, no), Looping, f.l \in {2, 3},
         Inside(cur, f.l, here), f.addr = here * SIZE(f.l), next = (here + 1) * SIZE(f.l),
         NEW d, d = [pa |-> f.phys, attr |-> LeafAttr(cur, f.l)],
         set_entry(d), advance, UNCHANGED <<mem_map, etext, todo, prot, fresh, cpu>>,
         fresh = -1
  PROVE  Control' /\ Built(lv, no)'
<1> DEFINE i == index(f.l, f.addr)
<1>1. tbl' = [tbl EXCEPT ![f.tab][i] = d]
  BY Zenon DEF set_entry
<1>2. /\ Tables(lv, no) /\ Shape(lv, no) /\ Filled(lv, no) /\ Ragged(lv, no)
      /\ Taken(lv) /\ Frames(lv, no) /\ Progress(lv, no) /\ etext \in Etext
  BY Zenon DEF Built, Tables, Control
<1>3. /\ f.tab \in TablePage /\ lv[f.tab] = f.l /\ no[f.tab] \in Nat
      /\ i \in 0 .. PTRS - 1 /\ here \in Nat /\ here = no[f.tab] * PTRS + i
      /\ cur \in Region /\ f.phys = f.addr /\ f.addr \in Nat
      /\ Start(cur) <= f.addr
  BY <1>2, Here, Zenon
<1>4. pc = "map"
  BY InMap, Zenon DEF Looping
<1>5. d.pa = here * SIZE(f.l) /\ d.attr = LeafAttr(cur, f.l) /\ d \in Descriptor
  <2>1. f.phys \in Int
    <3>1. \A x \in Nat : x \in Int
      OBVIOUS
    <3> QED
      BY <1>3, <3>1, Zenon
  <2>2. LeafAttr(cur, f.l) \in SUBSET Bits
    BY <1>3, Leaves, Zenon
  <2>3. d.pa = f.phys /\ d.attr = LeafAttr(cur, f.l)
    BY Zenon
  <2> QED
    BY <1>3, <2>1, <2>2, <2>3, Zenon DEF Descriptor
<1> HIDE DEF i
<1>6. Control'
  BY <1>1, <1>3, <1>4, <1>5, ControlWrite, Zenon
<1>7. LeafOf(d, f.l, here) /\ d # none /\ d.attr # TYPE_TABLE
  <2>1. LeafOf(d, f.l, here)
    BY <1>3, <1>5, Zenon DEF LeafOf
  <2>2. LeafAttr(cur, f.l) # {} /\ LeafAttr(cur, f.l) # TYPE_TABLE
    BY <1>3, Leaves, Zenon
  <2>3. none.attr = {}
    BY Zenon DEF none
  <2> QED
    BY <1>5, <2>1, <2>2, <2>3, Zenon
<1>8. tbl[f.tab][i].attr # TYPE_TABLE
  <2>1. f.l # 4
    OBVIOUS
  <2>2. EntryOk(lv, no, tbl[f.tab][i], f.l, here)
    BY <1>2, <1>3, <2>1, Zenon DEF Filled
  <2>3. CASE tbl[f.tab][i] = none
    <3>1. none.attr # TYPE_TABLE
      BY Types DEF none
    <3> QED
      BY <2>3, <3>1, Zenon
  <2>4. CASE Child(lv, no, tbl[f.tab][i], f.l, here)
    <3>1. /\ f.l < 3 /\ tbl[f.tab][i].pa \in TablePage
          /\ lv[tbl[f.tab][i].pa] = f.l + 1 /\ no[tbl[f.tab][i].pa] = here
      BY <2>4, ZenonT(30) DEF Child
    <3>2. f.l = 2 /\ f.l + 1 = 3
      BY <3>1
    <3>3. ~Inside(cur, 2, here)
      BY <1>2, <1>3, <3>1, <3>2, Zenon DEF Ragged
    <3> QED
      BY <3>2, <3>3, Zenon
  <2>5. CASE LeafOf(tbl[f.tab][i], f.l, here)
    <3>1. PICK k \in Region : tbl[f.tab][i].attr = LeafAttr(k, f.l)
      BY <2>5, ZenonT(30) DEF LeafOf
    <3> QED
      BY <3>1, Leaves, Zenon
  <2> QED
    BY <2>2, <2>3, <2>4, <2>5, Zenon DEF EntryOk
<1>9. Tables(lv, no)'
  <2>1. LeafOf(d, lv[f.tab], no[f.tab] * PTRS + i)
    BY <1>3, <1>7, Zenon
  <2>4. NewLeaf(lv, no, f.tab, i, d)
    BY <1>8, <2>1, Zenon DEF NewLeaf
  <2>5. UNCHANGED etext
    BY <1>3, Zenon
  <2>2. Store(f.tab, i, d)
    BY <1>1, Zenon DEF Store
  <2>3. Tables(lv, no) /\ f.tab \in TablePage /\ i \in 0 .. PTRS - 1
    BY <1>2, <1>3, Zenon
  <2> QED
    BY <2>2, <2>3, <2>4, <2>5, TablesLeaf, ZenonT(30)
<1>10. \A p \in TablePage : p # f.tab => tbl'[p] = tbl[p]
  BY <1>1, <1>3, Zenon DEF Control
<1>11. \A p \in TablePage : \A j \in 0 .. PTRS - 1 :
         tbl'[p][j] = IF p = f.tab /\ j = i THEN d ELSE tbl[p][j]
  BY <1>1, <1>3, Zenon DEF Control
<1>12. TablePage' = TablePage
  BY Steady, Zenon
<1>13. Taken(lv)'
  <2>1. f.l # 4
    OBVIOUS
  <2>2. ASSUME NEW p \in TablePage, lv[p] = 4, p # fresh
        PROVE  tbl'[p] = stale
    BY <1>2, <1>3, <1>10, <2>1, <2>2, Zenon DEF Taken
  <2>3. /\ mem_map' \in [MapIndex -> {0, 1}]
        /\ \A j \in MapIndex : mem_map'[j] = 1 <=> \/ lv[(LOW_MEMORY + j) * PAGE_SIZE] # 4
                                                   \/ fresh' = (LOW_MEMORY + j) * PAGE_SIZE
    BY <1>2, Zenon DEF Taken
  <2> QED
    BY <1>12, <2>2, <2>3, Zenon DEF Taken, MapIndex, stale
<1>14. Frames(lv, no)' /\ \A k \in Region : Upto(k)' = IF k = cur THEN next ELSE Upto(k)
  BY <1>2, FramesAdvance, Zenon
<1>15. FreshOk(lv)'
  BY Zenon DEF FreshOk
<1>16. Grown(lv, no, lv, no)
  BY Zenon DEF Grown
<1>17. ASSUME NEW a \in Nat, Mapped(lv, no, a)
       PROVE  Mapped(lv, no, a)'
  <2>1. \A p \in TablePage : \A j \in 0 .. PTRS - 1 :
          /\ lv[p] \in {2, 3} /\ tbl[p][j] # none
          /\ lv[p] = 2 => tbl[p][j].attr # TYPE_TABLE
          => /\ tbl'[p][j] # none
             /\ lv[p] = 2 => tbl'[p][j].attr # TYPE_TABLE
    BY <1>7, <1>11, Zenon
  <2> QED
    BY <1>16, <1>17, <2>1, MappedKept, Zenon
<1>18. ASSUME NEW a \in Nat, f.addr <= a, a < next
       PROVE  Mapped(lv, no, a)'
  <2>1. f.l \in 0 .. 3 /\ f.l > 0
    BY SMTT(30)
  <2>2. index(f.l, a) = i /\ slot(f.l - 1, a) = no[f.tab]
    <3>1. (no[f.tab] * PTRS + i) * SIZE(f.l) <= a /\ a < (no[f.tab] * PTRS + i + 1) * SIZE(f.l)
      BY <1>3, <1>18, Zenon
    <3>2. no[f.tab] \in Nat /\ i \in 0 .. PTRS - 1
      BY <1>3, Zenon
    <3> QED
      BY <2>1, <3>1, <3>2, SameSlot
  <2>3. tbl'[f.tab][i] = d
    BY <1>3, <1>11, Zenon
  <2>4. f.tab \in TablePage' /\ lv[f.tab] \in {2, 3} /\ no[f.tab] = slot(lv[f.tab] - 1, a)
    BY <1>3, <1>12, <2>2, Zenon
  <2>5. tbl'[f.tab][index(lv[f.tab], a)] = d
    BY <1>3, <2>2, <2>3, Zenon
  <2> QED
    BY <1>7, <2>4, <2>5, Zenon DEF Mapped
<1>19. Progress(lv, no)'
  <2>1. ASSUME NEW k \in Region, NEW a \in Nat, Start(k) <= a, a < Upto(k)'
        PROVE  a < Upto(k) \/ Mapped(lv, no, a)'
    <3>1. CASE k # cur
      BY <1>14, <2>1, <3>1, Zenon
    <3>2. CASE k = cur
      <4>1. a < next /\ Upto(k) = f.addr
        <5>1. a < next
          BY <1>14, <2>1, <3>2, ZenonT(30)
        <5>2. cur \in Int
          BY SMTT(30), <1>3 DEF Region
        <5>3. Upto(k) = f.addr
          <6>1. stk # <<>> /\ ~(k < k)
            BY SMTT(30), <5>2, <3>2 DEF Looping
          <6> QED
            BY <3>2, <5>2, <6>1, UptoIs, ZenonT(30)
        <5> QED
          BY <5>1, <5>3, Zenon
      <4>2. a < f.addr \/ f.addr <= a
        BY <1>3
      <4> QED
        BY <1>18, <4>1, <4>2, Zenon
    <3> QED
      BY <3>1, <3>2, Zenon
  <2>2. UNCHANGED etext
    BY Zenon
  <2> QED
    BY <1>2, <1>17, <2>1, <2>2, ProgressKept, Zenon
<1> QED
  BY <1>6, <1>9, <1>13, <1>14, <1>15, <1>19, Zenon DEF Built


LEMMA StepSection ==
  ASSUME Control, NEW lv, NEW no, Built(lv, no), pmd_set_section
  PROVE  Control' /\ Built(lv, no)'
<1>1. /\ Looping /\ section_fits /\ f.l = 2 /\ advance
      /\ set_entry([pa |-> f.phys, attr |-> TYPE_SECT \cup mk_sect_prot(prot)])
      /\ UNCHANGED <<mem_map, etext, todo, prot, fresh, cpu>>
  BY Zenon DEF pmd_set_section, section_fits, image
<1>2. Shape(lv, no) /\ Frames(lv, no) /\ FreshOk(lv) /\ etext \in Etext
  BY Zenon DEF Built, Tables, Control
<1>3. fresh = -1
  BY <1>1, <1>2, Zenon DEF FreshOk
<1>4. f.addr = here * SIZE(2) /\ next = (here + 1) * SIZE(2) /\ Inside(cur, 2, here)
  BY <1>1, <1>2, SectionFits, Zenon
<1>5. prot = Prot(cur)
  BY <1>1, <1>2, Here, Zenon
<1>6. f.l \in {2, 3} /\ TYPE_SECT \cup mk_sect_prot(prot) = LeafAttr(cur, f.l)
  <2>1. 2 # 3
    OBVIOUS
  <2> QED
    BY <1>1, <1>5, <2>1, Zenon DEF LeafAttr
<1>7. set_entry([pa |-> f.phys, attr |-> LeafAttr(cur, f.l)])
  BY <1>1, <1>6, Zenon
<1>8. f.addr = here * SIZE(f.l) /\ next = (here + 1) * SIZE(f.l) /\ Inside(cur, f.l, here)
  BY <1>1, <1>4, Zenon
<1> QED
  BY <1>1, <1>3, <1>6, <1>7, <1>8, StepLeaf, Zenon

LEMMA StepPte ==
  ASSUME Control, NEW lv, NEW no, Built(lv, no), set_pte
  PROVE  Control' /\ Built(lv, no)'
<1>1. /\ Looping /\ f.l = 3 /\ advance /\ set_entry([pa |-> f.phys, attr |-> prot])
      /\ UNCHANGED <<mem_map, etext, todo, prot, fresh, cpu>>
  BY Zenon DEF set_pte, image
<1>2. Shape(lv, no) /\ Frames(lv, no) /\ FreshOk(lv) /\ etext \in Etext
  BY Zenon DEF Built, Tables, Control
<1>3. fresh = -1
  <2>1. ~(f.l < 3)
    BY <1>1
  <2> QED
    BY <1>2, <2>1, Zenon DEF FreshOk
<1>4. /\ prot = Prot(cur) /\ cur \in Region /\ f.addr \in Nat /\ next \in Nat /\ f.end \in Nat
      /\ f.addr % PAGE_SIZE = 0 /\ next % PAGE_SIZE = 0 /\ f.addr < next
      /\ Start(cur) <= f.addr /\ next <= f.end /\ f.end <= End(cur) /\ here \in Nat
      /\ next <= (here + 1) * SIZE(f.l)
  BY <1>1, <1>2, Here, Zenon
<1>5. SIZE(3) = PAGE_SIZE /\ here = f.addr \div PAGE_SIZE /\ PAGE_SIZE \in Nat \ {0}
  BY <1>1, PgTableAssumption DEF SIZE, here, slot
<1>6. f.addr = here * PAGE_SIZE
  BY <1>4, <1>5, AlignedIs, Zenon
<1>7. f.addr + PAGE_SIZE <= next
  BY <1>4, PagesApart, Zenon
<1>8. (here + 1) * PAGE_SIZE = here * PAGE_SIZE + PAGE_SIZE
  <2>1. \A x, y \in Nat : (x + 1) * y = x * y + y
    BY SMTT(30)
  <2>2. PAGE_SIZE \in Nat
    BY <1>5
  <2> QED
    BY <1>4, <2>1, <2>2, Zenon
<1>9. next = (here + 1) * PAGE_SIZE
  <2>1. next <= (here + 1) * PAGE_SIZE
    BY <1>1, <1>4, <1>5, Zenon
  <2> DEFINE x == (here + 1) * PAGE_SIZE
  <2>2. x = f.addr + PAGE_SIZE
    BY <1>6, <1>8, Zenon
  <2>3. next <= x
    BY SMTT(30), <2>1
  <2> HIDE DEF x
  <2>4. next = x
    BY SMTT(30), <1>4, <1>5, <1>7, <2>2, <2>3
  <2> QED
    BY <2>4 DEF x
<1>10. next <= End(cur)
  BY <1>2, <1>4, Regions
<1>11. f.addr = here * SIZE(f.l) /\ next = (here + 1) * SIZE(f.l) /\ Inside(cur, f.l, here)
  <2>1. f.addr = here * SIZE(f.l) /\ next = (here + 1) * SIZE(f.l)
    BY <1>1, <1>5, <1>6, <1>9, Zenon
  <2> QED
    BY <1>4, <1>10, <2>1, Zenon DEF Inside
<1>12. f.l \in {2, 3} /\ prot = LeafAttr(cur, f.l)
  BY <1>1, <1>4, Zenon DEF LeafAttr
<1>13. set_entry([pa |-> f.phys, attr |-> LeafAttr(cur, f.l)])
  BY <1>1, <1>12, Zenon
<1> QED
  BY <1>1, <1>3, <1>11, <1>12, <1>13, StepLeaf, Zenon

(* Steps that write no table and allocate none.                            *)
LEMMA Quiet ==
  ASSUME Control, NEW lv, NEW no, Built(lv, no), UNCHANGED <<mem_map, etext, tbl, fresh>>,
         fresh = -1, Frames(lv, no)', \A k \in Region : Upto(k)' = Upto(k)
  PROVE  Built(lv, no)'
<1>1. TablePage' = TablePage /\ \A k : Start(k)' = Start(k)
  BY Steady, Zenon
<1>2. Tables(lv, no)'
  BY TablesSame, Zenon DEF Built
<1>3. Taken(lv)'
  BY <1>1, Zenon DEF Built, Taken, MapIndex, stale
<1>4. FreshOk(lv)'
  BY Zenon DEF FreshOk
<1>5. \A a \in Nat : Mapped(lv, no, a) => Mapped(lv, no, a)'
  BY <1>1, Zenon DEF Mapped
<1>6. Progress(lv, no)'
  BY <1>1, <1>5, Zenon DEF Built, Progress
<1> QED
  BY <1>2, <1>3, <1>4, <1>6, Zenon DEF Built

LEMMA StepDescend ==
  ASSUME Control, NEW lv, NEW no, Built(lv, no), descend
  PROVE  Control' /\ Built(lv, no)'
<1>1. Looping /\ entry # none /\ UNCHANGED <<mem_map, etext, tbl, todo, prot, fresh, cpu>>
  BY Zenon DEF descend, image
<1>2. Shape(lv, no) /\ Filled(lv, no) /\ Frames(lv, no) /\ FreshOk(lv)
  BY Zenon DEF Built, Tables
<1>3. fresh = -1
  BY <1>1, <1>2, Zenon DEF FreshOk
<1>4. Control'
  <2>1. pc = "map"
    BY <1>1, InMap, Zenon DEF Looping
  <2>2. tbl' \in [TablePage -> [0 .. PTRS - 1 -> Descriptor]]
    BY <1>1, Zenon DEF Control
  <2> QED
    BY <1>1, <2>1, <2>2, ControlKept, Zenon
<1>5. Frames(lv, no)' /\ \A k \in Region : Upto(k)' = Upto(k)
  BY <1>2, FramesDescend, Zenon
<1> QED
  BY <1>1, <1>3, <1>4, <1>5, Quiet, Zenon

LEMMA StepReturn ==
  ASSUME Control, NEW lv, NEW no, Built(lv, no), return
  PROVE  Control' /\ Built(lv, no)'
<1>1. /\ stk # <<>> /\ f.addr = f.end
      /\ UNCHANGED <<mem_map, etext, tbl, todo, prot, fresh, cpu>>
  BY Zenon DEF return, image
<1>2. Shape(lv, no) /\ Frames(lv, no) /\ FreshOk(lv)
  BY Zenon DEF Built, Tables
<1>3. fresh = -1
  BY <1>1, <1>2, Zenon DEF FreshOk, Looping
<1>4. Control'
  <2>1. pc = "map"
    BY <1>1, InMap, Zenon
  <2>2. tbl' \in [TablePage -> [0 .. PTRS - 1 -> Descriptor]]
    BY <1>1, Zenon DEF Control
  <2> QED
    BY <1>1, <2>1, <2>2, ControlKept, Zenon
<1>5. Frames(lv, no)' /\ \A k \in Region : Upto(k)' = Upto(k)
  BY <1>2, FramesReturn, Zenon
<1> QED
  BY <1>1, <1>3, <1>4, <1>5, Quiet, Zenon

LEMMA StepCreate ==
  ASSUME Control, NEW lv, NEW no, Built(lv, no), __create_pgd_mapping
  PROVE  Control' /\ Built(lv, no)'
<1>1. /\ pc = "map" /\ stk = <<>> /\ UNCHANGED <<mem_map, etext, tbl, fresh, cpu>>
  BY Zenon DEF __create_pgd_mapping, image
<1>2. Shape(lv, no) /\ FreshOk(lv)
  BY Zenon DEF Built, Tables
<1>3. fresh = -1
  BY <1>1, <1>2, Zenon DEF FreshOk, Looping
<1>4. /\ Frames(lv, no)' /\ Len(todo') \in 0 .. 3 /\ todo' = Todo(cur)'
      /\ \A k \in Region : Upto(k)' = Upto(k)
  BY <1>2, FramesCreate, Zenon
<1>5. Control'
  <2>1. TablePage' = TablePage /\ Descriptor' = Descriptor
    BY <1>1, Steady, Zenon DEF Descriptor, Bits
  <2>2. /\ pc' = "map" /\ sctlr_M' = sctlr_M /\ etext' = etext /\ tbl' = tbl
    BY <1>1, Zenon DEF cpu
  <2>3. etext \in Etext /\ ~sctlr_M /\ tbl \in [TablePage -> [0 .. PTRS - 1 -> Descriptor]]
    BY <1>1, SMTT(30) DEF Control
  <2>4. /\ pc' \in {"memset", "map", "enable", "done"} /\ pc' # "memset"
        /\ pc' \notin {"enable", "done"}
    BY <2>2
  <2> QED
    BY <1>4, <2>1, <2>2, <2>3, <2>4, Zenon DEF Control
<1> QED
  BY <1>1, <1>3, <1>4, <1>5, Quiet, Zenon


LEMMA Joined ==
  ASSUME NEW T, NEW s \in Seq(T), NEW t \in Seq(T)
  PROVE  /\ s \o t \in Seq(T) /\ Len(s \o t) = Len(s) + Len(t)
         /\ \A i \in 1 .. Len(s) : (s \o t)[i] = s[i]
         /\ \A i \in 1 .. Len(t) : (s \o t)[Len(s) + i] = t[i]
<1>1. s \o t \in Seq(T)
  OBVIOUS
<1>2. Len(s \o t) = Len(s) + Len(t)
  OBVIOUS
<1>3. \A i \in 1 .. Len(s) : (s \o t)[i] = s[i]
  OBVIOUS
<1>4. \A i \in 1 .. Len(t) : (s \o t)[Len(s) + i] = t[i]
  OBVIOUS
<1> QED
  BY <1>1, <1>2, <1>3, <1>4

LEMMA JoinedThree == \A a, b, c : <<a, b>> \o <<c>> = <<a, b, c>>
<1>1. SUFFICES ASSUME NEW a, NEW b, NEW c
               PROVE  <<a, b>> \o <<c>> = <<a, b, c>>
  OBVIOUS
<1> DEFINE s == <<a, b>>
           t == <<c>>
           u == s \o t
           T == {a, b, c}
<1>2. /\ s \in Seq(T) /\ Len(s) = 2 /\ s[1] = a /\ s[2] = b
      /\ t \in Seq(T) /\ Len(t) = 1 /\ t[1] = c
  OBVIOUS
<1>3. <<a, b, c>> \in Seq(T) /\ Len(<<a, b, c>>) = 3
  OBVIOUS
<1> HIDE DEF s, t, T
<1>4. u \in Seq(T) /\ Len(u) = 3 /\ u[1] = a /\ u[2] = b /\ u[3] = c
  <2>1. /\ u \in Seq(T) /\ Len(u) = Len(s) + Len(t)
        /\ \A i \in 1 .. Len(s) : u[i] = s[i]
        /\ \A i \in 1 .. Len(t) : u[Len(s) + i] = t[i]
    <3>1. s \in Seq(T) /\ t \in Seq(T)
      BY <1>2, Zenon
    <3> QED
      BY <3>1, Joined
  <2> HIDE DEF u
  <2>2. /\ 1 \in 1 .. Len(s) /\ 2 \in 1 .. Len(s) /\ 1 \in 1 .. Len(t)
        /\ Len(s) + 1 = 3 /\ Len(s) + Len(t) = 3
    <3>1. 1 \in 1 .. 2 /\ 2 \in 1 .. 2 /\ 1 \in 1 .. 1 /\ 2 + 1 = 3
      OBVIOUS
    <3> QED
      BY <1>2, <3>1, Zenon
  <2> QED
    BY <1>2, <2>1, <2>2, Zenon
<1> HIDE DEF u
<1>5. \A i \in 1 .. 3 : u[i] = <<a, b, c>>[i]
  BY <1>4
<1>6. DOMAIN u = 1 .. 3 /\ u = [i \in 1 .. 3 |-> u[i]]
  BY <1>4
<1>7. u = <<a, b, c>>
  BY SMTT(30), <1>3, <1>4, <1>5, <1>6
<1> QED
  BY <1>7 DEF u, s, t

LEMMA StepClear ==
  ASSUME Control, clear_pgd
  PROVE  Control' /\ \E lv, no : Built(lv, no)'
<1>1. /\ pc = "memset" /\ pc' = "map" /\ tbl' = [tbl EXCEPT ![idmap_pg_dir] = cleared]
      /\ todo' = create_identical_mapping \o create_mmio_mapping
      /\ UNCHANGED <<mem_map, etext, stk, prot, fresh, mair, ips, sctlr_M>>
  BY Zenon DEF clear_pgd, image
<1>2. /\ mem_map = [i \in MapIndex |-> 0] /\ tbl = [p \in TablePage |-> stale]
      /\ stk = <<>> /\ todo = <<>> /\ fresh = -1 /\ etext \in Etext
      /\ tbl \in [TablePage -> [0 .. PTRS - 1 -> Descriptor]]
  BY <1>1, Zenon DEF Control
<1>3. ~sctlr_M
  BY <1>1 DEF Control
<1>4. /\ TablePage' = TablePage /\ idmap_pg_dir' = idmap_pg_dir
      /\ \A k : Todo(k)' = Todo(k) /\ Start(k)' = Start(k)
  BY <1>1, Steady, Zenon
<1>5. todo' = Todo(0) /\ Len(todo') = 3 /\ cur' = 0
  <2>1. todo' = Todo(0)
    <3>1. Todo(0) = << Mapping(text_boot, etext, PAGE_KERNNEL_ROX),
                       Mapping(PAGE_BALIGN(etext), TOTAL_MEMORY, PAGE_KERNEL),
                       Mapping(PBASE, PBASE + DEVICE_SIZE, PROT("nGnRnE")) >>
      BY DEF Todo
    <3> QED
      BY <1>1, <3>1, JoinedThree, Zenon DEF create_identical_mapping, create_mmio_mapping
  <2>2. Len(todo') = 3
    BY <2>1, TodoLength
  <2> QED
    BY <2>1, <2>2 DEF cur
<1>6. /\ TablePage \subseteq Nat /\ 0 \in TablePage /\ idmap_pg_dir \in TablePage
      /\ idmap_pg_dir # 0
      /\ \A i \in MapIndex : PageAt(i) \in TablePage /\ PageAt(i) # idmap_pg_dir
  BY <1>2, TablePages, Zenon
<1>7. cleared \in [0 .. PTRS - 1 -> Descriptor] /\ \A i \in 0 .. PTRS - 1 : cleared[i] = none
  <2>1. none \in Descriptor
    <3>1. 0 \in Int
      OBVIOUS
    <3> QED
      BY <3>1, Types, Zenon DEF none, Descriptor
  <2> QED
    BY <2>1, Zenon DEF cleared
<1>8. Control'
  <2>1. tbl' \in [TablePage -> [0 .. PTRS - 1 -> Descriptor]]
    BY <1>1, <1>2, <1>7, Zenon
  <2>2. Descriptor' = Descriptor
    BY Zenon DEF Descriptor, Bits
  <2>3. /\ pc' \in {"memset", "map", "enable", "done"} /\ pc' # "memset"
        /\ pc' \notin {"enable", "done"}
    BY <1>1
  <2>4. Len(todo') \in 0 .. 3 /\ todo' = Todo(cur)'
    <3>1. Len(todo') \in 0 .. 3
      BY <1>5
    <3> QED
      BY <1>4, <1>5, <3>1, Zenon
  <2>5. etext' \in Etext /\ ~sctlr_M'
    BY <1>1, <1>2, <1>3, Zenon
  <2> QED
    BY <1>4, <2>1, <2>2, <2>3, <2>4, <2>5, ZenonT(30) DEF Control
<1>9. PICK lv, no : /\ lv = [p \in TablePage |-> IF p = idmap_pg_dir THEN 0 ELSE 4]
                    /\ no = [p \in TablePage |-> 0]
  OBVIOUS
<1>10. /\ lv[idmap_pg_dir] = 0 /\ \A p \in TablePage : p # idmap_pg_dir => lv[p] = 4
       /\ \A p \in TablePage : no[p] = 0
  BY <1>6, <1>9, Zenon
<1>11. \A p \in TablePage : /\ lv[p] # 4 => p = idmap_pg_dir
                            /\ lv[p] \notin 1 .. 3 /\ lv[p] # 3 /\ lv[p] # 1
  <2>1. 0 \notin 1 .. 3 /\ 4 \notin 1 .. 3 /\ 0 # 3 /\ 4 # 3 /\ 0 # 1 /\ 4 # 1
    OBVIOUS
  <2> QED
    BY <1>10, <2>1, Zenon
<1>12. /\ tbl'[idmap_pg_dir] = cleared
       /\ \A p \in TablePage : p # idmap_pg_dir => tbl'[p] = stale
  BY <1>1, <1>2, <1>6, Zenon
<1>13. Tables(lv, no)'
  <2>1. Shape(lv, no)'
    <3>1. lv \in [TablePage -> 0 .. 4] /\ no \in [TablePage -> Nat]
      BY <1>9
    <3>2. lv[0] = 4 /\ no[idmap_pg_dir] = 0
      BY <1>6, <1>10, Zenon
    <3>3. \A p \in TablePage : lv[p] = 0 => p = idmap_pg_dir
      <4>1. 0 # 4
        OBVIOUS
      <4> QED
        BY <1>11, <4>1, Zenon
    <3> QED
      BY <1>4, <1>10, <1>11, <3>1, <3>2, <3>3, Zenon DEF Shape
  <2>2. Filled(lv, no)'
    BY <1>4, <1>7, <1>11, <1>12, Zenon DEF Filled, EntryOk, none
  <2>3. Linkage(lv, no)' /\ Distinct(lv, no)' /\ Ragged(lv, no)' /\ Needed(lv, no)'
    BY <1>4, <1>11, ZenonT(30) DEF Linkage, Distinct, Ragged, Needed
  <2> QED
    BY <2>1, <2>2, <2>3, Zenon DEF Tables
<1>14. Taken(lv)'
  <2>1. mem_map' \in [MapIndex -> {0, 1}] /\ \A i \in MapIndex : mem_map'[i] # 1
    BY <1>1, <1>2
  <2>2. \A i \in MapIndex : lv[PageAt(i)] = 4
    BY <1>6, <1>10, Zenon
  <2>3. \A i \in MapIndex : fresh' # PageAt(i)
    BY <1>1, <1>2, <1>6
  <2>4. ASSUME NEW p \in TablePage, lv[p] = 4
        PROVE  tbl'[p] = stale
    <3>1. 0 # 4
      BY SMTT(30)
    <3> QED
      BY <1>10, <1>12, <2>4, <3>1, Zenon
  <2> QED
    BY <1>4, <2>1, <2>2, <2>3, <2>4, Zenon DEF Taken, PageAt, MapIndex, stale
<1>15. Frames(lv, no)'
  BY <1>1, <1>2 DEF Frames
<1>16. FreshOk(lv)'
  BY <1>1, <1>2, Zenon DEF FreshOk
<1>17. Progress(lv, no)'
  <2>1. ASSUME NEW k \in Region
        PROVE  Upto(k)' = Start(k)
    BY SMTT(30), <1>4, <1>5 DEF Upto, Region
  <2>2. ASSUME NEW k \in Region, NEW a \in Nat, Start(k) <= a, a < Start(k)
        PROVE  FALSE
    BY <1>2, <2>2, Regions
  <2> QED
    BY <1>4, <2>1, <2>2, Zenon DEF Progress
<1> QED
  BY <1>8, <1>13, <1>14, <1>15, <1>16, <1>17, Zenon DEF Built

LEMMA StepCpuInit ==
  ASSUME Control, NEW lv, NEW no, Built(lv, no), cpu_init
  PROVE  Control' /\ Built(lv, no)'
<1>1. /\ pc = "map" /\ stk = <<>> /\ todo = <<>> /\ pc' = "enable" /\ mair' = Mair
      /\ UNCHANGED <<mem_map, etext, tbl, todo, stk, prot, fresh, sctlr_M>>
  BY Zenon DEF cpu_init, image, Mair
<1>2. Frames(lv, no) /\ FreshOk(lv)
  BY Zenon DEF Built
<1>3. fresh = -1
  BY <1>1, <1>2, Zenon DEF FreshOk, Looping
<1>4. Frames(lv, no)' /\ \A k \in Region : Upto(k)' = Upto(k)
  <2>1. Frames(lv, no)'
    BY <1>1 DEF Frames
  <2> QED
    BY <1>1, <2>1, UptoKept, ZenonT(30)
<1>5. Control'
  <2>1. /\ TablePage' = TablePage /\ Descriptor' = Descriptor /\ cur' = cur
        /\ \A k : Todo(k)' = Todo(k)
    BY <1>1, Steady, Zenon DEF Descriptor, Bits, cur
  <2>2. /\ etext \in Etext /\ ~sctlr_M /\ tbl \in [TablePage -> [0 .. PTRS - 1 -> Descriptor]]
        /\ Len(todo) \in 0 .. 3 /\ todo = Todo(cur)
    BY <1>1, SMTT(30) DEF Control
  <2>3. /\ pc' \in {"memset", "map", "enable", "done"} /\ pc' # "memset"
    BY <1>1
  <2>4. Mair' = Mair
    BY Zenon DEF Mair
  <2>5. etext' \in Etext /\ ~sctlr_M' /\ tbl' \in [TablePage' -> [0 .. PTRS - 1 -> Descriptor']]
    BY <1>1, <2>1, <2>2, Zenon
  <2>6. Len(todo') \in 0 .. 3 /\ todo' = Todo(cur)'
    BY <1>1, <2>1, <2>2, Zenon
  <2>7. stk' = <<>> /\ todo' = <<>> /\ mair' = Mair'
    BY <1>1, <2>4, Zenon
  <2> QED
    BY <2>3, <2>5, <2>6, <2>7, Zenon DEF Control
<1> QED
  BY <1>1, <1>3, <1>4, <1>5, Quiet, Zenon

LEMMA StepEnable ==
  ASSUME Control, NEW lv, NEW no, Built(lv, no), enable_mmu
  PROVE  Control' /\ Built(lv, no)'
<1>1. /\ pc = "enable" /\ pc' = "done"
      /\ UNCHANGED <<mem_map, etext, tbl, todo, stk, prot, fresh, mair>>
  BY Zenon DEF enable_mmu, image
<1>2. /\ stk = <<>> /\ todo = <<>> /\ mair = Mair /\ etext \in Etext
      /\ Len(todo) \in 0 .. 3 /\ todo = Todo(cur)
      /\ tbl \in [TablePage -> [0 .. PTRS - 1 -> Descriptor]]
  BY <1>1, SMTT(30) DEF Control
<1>3. fresh = -1
  BY <1>2, Zenon DEF Built, FreshOk, Looping
<1>4. Frames(lv, no)' /\ \A k \in Region : Upto(k)' = Upto(k)
  <2>1. Frames(lv, no)'
    BY <1>1, <1>2 DEF Frames
  <2> QED
    BY <1>1, <2>1, UptoKept, ZenonT(30)
<1>5. Control'
  <2>1. /\ TablePage' = TablePage /\ Descriptor' = Descriptor /\ cur' = cur
        /\ \A k : Todo(k)' = Todo(k)
    BY <1>1, Steady, Zenon DEF Descriptor, Bits, cur
  <2>2. /\ pc' \in {"memset", "map", "enable", "done"} /\ pc' # "memset"
    BY <1>1
  <2>3. Mair' = Mair
    BY Zenon DEF Mair
  <2>4. etext' \in Etext /\ tbl' \in [TablePage' -> [0 .. PTRS - 1 -> Descriptor']]
    BY <1>1, <1>2, <2>1, Zenon
  <2>5. Len(todo') \in 0 .. 3 /\ todo' = Todo(cur)'
    BY <1>1, <1>2, <2>1, Zenon
  <2>6. stk' = <<>> /\ todo' = <<>> /\ mair' = Mair'
    BY <1>1, <1>2, <2>3, Zenon
  <2> QED
    BY <1>1, <2>2, <2>4, <2>5, <2>6, Zenon DEF Control
<1> QED
  BY <1>1, <1>3, <1>4, <1>5, Quiet, Zenon


(* early_pgtable_alloc with a page left: it is no table yet.               *)
LEMMA StepAllocPage ==
  ASSUME Control, NEW lv, NEW no, Built(lv, no), Looping, f.l < 3, ~section_fits,
         entry = none, fresh = -1, NEW i \in MapIndex, mem_map[i] = 0,
         mem_map' = [mem_map EXCEPT ![i] = 1],
         tbl' = [tbl EXCEPT ![PageAt(i)] = cleared], fresh' = PageAt(i),
         UNCHANGED <<etext, todo, stk, prot, cpu>>
  PROVE  Control' /\ Built(lv, no)'
<1> DEFINE r == PageAt(i)
<1>1. /\ Tables(lv, no) /\ Shape(lv, no) /\ Taken(lv) /\ Frames(lv, no)
      /\ Progress(lv, no) /\ etext \in Etext
      /\ tbl \in [TablePage -> [0 .. PTRS - 1 -> Descriptor]]
  BY Zenon DEF Built, Tables, Control
<1>2. /\ r \in TablePage /\ r # 0
      /\ \A j \in MapIndex : PageAt(j) \in TablePage /\ PageAt(j) # -1
      /\ \A j \in MapIndex : PageAt(j) = r => j = i
  <2>1. TablePage \subseteq Nat /\ -1 \notin Nat
    BY <1>1, TablePages
  <2> QED
    BY <1>1, <2>1, TablePages, ZenonT(30)
<1>3. /\ mem_map \in [MapIndex -> {0, 1}]
      /\ \A j \in MapIndex : mem_map[j] = 1 <=> lv[PageAt(j)] # 4 \/ fresh = PageAt(j)
      /\ \A p \in TablePage : lv[p] = 4 /\ p # fresh => tbl[p] = stale
  BY <1>1, Zenon DEF Taken, PageAt
<1>4. lv[r] = 4
  <2>1. mem_map[i] # 1
    OBVIOUS
  <2> QED
    BY <1>3, <2>1, Zenon
<1>5. f.tab \in TablePage /\ lv[f.tab] = f.l /\ index(f.l, f.addr) \in 0 .. PTRS - 1 /\ f.l # 4
  <2>1. f.l \in 0 .. 3
    BY <1>1, Here, Zenon
  <2>2. f.l # 4
    BY SMTT(30), <2>1
  <2> QED
    BY <1>1, <2>2, Here, Zenon
<1> HIDE DEF r
<1>6. tbl' = [tbl EXCEPT ![r] = cleared] /\ fresh' = r
  BY DEF r
<1>7. tbl'[r] = cleared /\ \A p \in TablePage : p # r => tbl'[p] = tbl[p]
  BY <1>1, <1>2, <1>6, Zenon
<1>8. TablePage' = TablePage
  BY Steady, Zenon
<1>9. Control'
  <2>1. pc = "map"
    BY InMap, Zenon DEF Looping
  <2>2. none \in Descriptor
    <3>1. 0 \in Int
      OBVIOUS
    <3> QED
      BY <3>1, Types, Zenon DEF none, Descriptor
  <2>3. cleared \in [0 .. PTRS - 1 -> Descriptor]
    BY <2>2, Zenon DEF cleared
  <2>4. tbl' \in [TablePage -> [0 .. PTRS - 1 -> Descriptor]]
    BY <1>1, <1>6, <2>3, Zenon
  <2> QED
    BY <2>1, <2>4, ControlKept, Zenon
<1>10. \A p \in TablePage : lv[p] # 4 => tbl'[p] = tbl[p]
  BY <1>4, <1>7, Zenon
<1>11. Tables(lv, no)'
  BY <1>1, <1>10, TablesSame, Zenon
<1>12. Taken(lv)'
  <2>1. mem_map' \in [MapIndex -> {0, 1}]
    BY <1>3
  <2>2. ASSUME NEW j \in MapIndex
        PROVE  mem_map'[j] = 1 <=> lv[PageAt(j)] # 4 \/ fresh' = PageAt(j)
    <3>1. CASE j = i
      BY <1>3, <1>6, <3>1, Zenon DEF r
    <3>2. CASE j # i
      <4>1. mem_map'[j] = mem_map[j]
        BY <1>3, <3>2, Zenon
      <4>2. fresh' # PageAt(j) /\ fresh # PageAt(j)
        BY <1>2, <1>6, <3>2, Zenon
      <4> QED
        BY <1>3, <4>1, <4>2, Zenon
    <3> QED
      BY <3>1, <3>2, Zenon
  <2>3. \A p \in TablePage : lv[p] = 4 /\ p # fresh' => tbl'[p] = stale
    <3>1. -1 \notin TablePage
      BY <1>1, TablePages
    <3> QED
      BY <1>3, <1>6, <1>7, <3>1, ZenonT(30)
  <2> QED
    BY <1>8, <2>1, <2>2, <2>3, ZenonT(30) DEF Taken, PageAt, MapIndex, stale
<1>13. Grown(lv, no, lv, no)
  BY Zenon DEF Grown
<1>14. Frames(lv, no)'
  <2>1. UNCHANGED <<etext, stk, todo, prot>>
    BY Zenon
  <2> QED
    BY <1>1, <1>13, <2>1, FramesKept, Zenon
<1>15. FreshOk(lv)'
  <2>1. f' = f /\ next' = next
    BY Zenon DEF f, next
  <2>2. Looping' /\ ~section_fits'
    BY <2>1, Zenon DEF Looping, section_fits
  <2>3. entry' = none'
    <3>1. f.tab # r
      BY <1>4, <1>5, Zenon
    <3>2. tbl'[f.tab] = tbl[f.tab]
      BY <1>5, <1>7, <3>1, Zenon
    <3> QED
      BY <2>1, <3>2, Zenon DEF entry, none
  <2>4. fresh' \in TablePage' /\ lv[fresh'] = 4 /\ fresh' # 0 /\ tbl'[fresh'] = cleared
    BY <1>2, <1>4, <1>6, <1>7, <1>8, ZenonT(30)
  <2>5. f'.l < 3
    BY <2>1, Zenon
  <2> QED
    BY <2>2, <2>3, <2>4, <2>5, Zenon DEF FreshOk, cleared, none
<1>16. Progress(lv, no)'
  <2>1. \A k \in Region : Upto(k)' = Upto(k)
    BY UptoKept, Zenon
  <2>2. \A p \in TablePage : lv[p] \in {2, 3} => tbl'[p] = tbl[p]
    <3>1. 4 \notin {2, 3}
      OBVIOUS
    <3> QED
      BY <1>10, <3>1, Zenon
  <2>3. ASSUME NEW a \in Nat, Mapped(lv, no, a)
        PROVE  Mapped(lv, no, a)'
    BY <1>8, <2>2, <2>3, ZenonT(30) DEF Mapped
  <2>4. UNCHANGED etext
    BY Zenon
  <2> QED
    BY <1>1, <2>1, <2>3, <2>4, ProgressKept, ZenonT(30)
<1> QED
  BY <1>9, <1>11, <1>12, <1>14, <1>15, <1>16, ZenonT(30) DEF Built


------------------------------------------------------------------------------
(* There is always a page left: the pages taken are tables with different  *)
(* levels or numbers, all needed, and the one to come is needed as well.   *)

(* The pages cannot all be tables with different levels and numbers while  *)
(* one of the tables needed is missing.                                    *)
Enough ==
  \A x \in TablesNeeded : \A g \in [MapIndex -> TablesNeeded \ {x}] :
    \E i, j \in MapIndex : i # j /\ g[i] = g[j]

LEMMA NotExhausted ==
  ASSUME Enough, Control, NEW lv, NEW no, Built(lv, no), Looping, f.l < 3, entry = none, fresh = -1
  PROVE  \E i \in MapIndex : mem_map[i] = 0
<1>1. SUFFICES ASSUME \A i \in MapIndex : mem_map[i] # 0
               PROVE  FALSE
  BY Zenon
<1> DEFINE x == <<f.l + 1, here>>
           g == [i \in MapIndex |-> <<lv[PageAt(i)], no[PageAt(i)]>>]
           T == TablesNeeded \ {x}
<1>2. /\ Tables(lv, no) /\ Shape(lv, no) /\ Taken(lv) /\ Frames(lv, no) /\ etext \in Etext
      /\ Distinct(lv, no) /\ Needed(lv, no)
  BY ZenonT(30) DEF Built, Tables, Control
<1>3. /\ f.l \in 0 .. 3 /\ f.tab \in TablePage /\ lv[f.tab] = f.l
      /\ index(f.l, f.addr) \in 0 .. PTRS - 1
      /\ here = no[f.tab] * PTRS + index(f.l, f.addr)
  BY <1>2, Here, ZenonT(30)
<1>4. \A p \in TablePage : lv[p] = f.l + 1 => no[p] # here
  <2>1. f.l \in 0 .. 2
    BY SMTT(30), <1>3
  <2>2. f.l + 1 = lv[f.tab] + 1 /\ lv[f.tab] \in 0 .. 2 /\ tbl[f.tab][index(f.l, f.addr)] = none
    BY <1>3, <2>1, ZenonT(30) DEF entry
  <2> QED
    BY <1>2, <1>3, <2>2, NoTableYet, ZenonT(30)
<1>5. ASSUME NEW i \in MapIndex
      PROVE  PageAt(i) \in TablePage /\ lv[PageAt(i)] \in 1 .. 3 /\ lv[PageAt(i)] # 4
  <2>1. PageAt(i) \in TablePage /\ PageAt(i) # idmap_pg_dir /\ PageAt(i) # -1
    <3>1. TablePage \subseteq Nat /\ -1 \notin Nat
      BY SMTT(30), <1>2, TablePages
    <3> QED
      BY <1>2, <3>1, TablePages, ZenonT(30)
  <2>2. mem_map[i] = 1
    BY SMTT(30), <1>1, <1>2 DEF Taken
  <2>3. lv[PageAt(i)] # 4
    BY <1>2, <2>1, <2>2, ZenonT(30) DEF Taken, PageAt
  <2>4. lv[PageAt(i)] \in 0 .. 4 /\ lv[PageAt(i)] # 0
    BY <1>2, <2>1, ZenonT(30) DEF Shape
  <2>5. \A y \in 0 .. 4 : y # 0 /\ y # 4 => y \in 1 .. 3
    OBVIOUS
  <2> QED
    BY <2>1, <2>3, <2>4, <2>5, ZenonT(30)
<1>6. ASSUME NEW i \in MapIndex
      PROVE  g[i] \in T
  <2>1. <<lv[PageAt(i)], no[PageAt(i)]>> \in TablesNeeded
    BY <1>2, <1>5, ZenonT(30) DEF Needed
  <2>2. <<lv[PageAt(i)], no[PageAt(i)]>> # x
    BY <1>4, <1>5, ZenonT(30)
  <2> QED
    BY <2>1, <2>2, ZenonT(30)
<1>7. g \in [MapIndex -> T]
  BY <1>6, Zenon
<1>8. ASSUME NEW i \in MapIndex, NEW j \in MapIndex, g[i] = g[j]
      PROVE  i = j
  <2>1. lv[PageAt(i)] = lv[PageAt(j)] /\ no[PageAt(i)] = no[PageAt(j)]
    BY <1>8, Zenon
  <2>2. PageAt(i) = PageAt(j)
    BY <1>2, <1>5, <2>1, ZenonT(30) DEF Distinct
  <2> QED
    BY <1>2, <2>2, TablePages, ZenonT(30)
<1>9. x \in TablesNeeded
  BY <1>2, NeededHere, ZenonT(30)
<1> HIDE DEF g, x
<1>10. \E i, j \in MapIndex : i # j /\ g[i] = g[j]
  BY <1>7, <1>9, Zenon DEF Enough
<1> QED
  BY <1>8, <1>10, Zenon

LEMMA StepAlloc ==
  ASSUME Enough, Control, NEW lv, NEW no, Built(lv, no), early_pgtable_alloc
  PROVE  Control' /\ Built(lv, no)'
<1>1. /\ Looping /\ f.l < 3 /\ ~section_fits /\ entry = none /\ fresh = -1
      /\ UNCHANGED <<etext, todo, stk, prot, cpu>>
  BY Zenon DEF early_pgtable_alloc, image
<1>2. PICK r \in Page \cup {0} : /\ get_free_page(r)
                                 /\ tbl' = [tbl EXCEPT ![r * PAGE_SIZE] = cleared]
                                 /\ fresh' = r * PAGE_SIZE
  BY Zenon DEF early_pgtable_alloc
<1>3. ~(\A i \in MapIndex : mem_map[i] # 0)
  BY <1>1, NotExhausted, ZenonT(30)
<1>4. PICK i \in MapIndex : /\ mem_map[i] = 0 /\ mem_map' = [mem_map EXCEPT ![i] = 1]
                            /\ r = LOW_MEMORY + i
  BY <1>2, <1>3, ZenonT(30) DEF get_free_page
<1>5. tbl' = [tbl EXCEPT ![PageAt(i)] = cleared] /\ fresh' = PageAt(i)
  BY <1>2, <1>4, ZenonT(30) DEF PageAt
<1> QED
  BY <1>1, <1>4, <1>5, StepAllocPage, ZenonT(30)

LEMMA MmuInit == Init => MmuInv
<1> SUFFICES ASSUME Init PROVE MmuInv
  OBVIOUS
<1>1. /\ etext \in Etext /\ mem_map = [i \in MapIndex |-> 0]
      /\ tbl = [p \in TablePage |-> stale]
      /\ todo = <<>> /\ stk = <<>> /\ fresh = -1 /\ sctlr_M = FALSE /\ pc = "memset"
  BY Zenon DEF Init, mem_map_init
<1>2. stale \in [0 .. PTRS - 1 -> Descriptor]
  <2>1. PAGE_SIZE \in Int
    BY SMTT(30), PgTableAssumption
  <2> QED
    BY <2>1, Types, ZenonT(30) DEF stale, Descriptor
<1>3. tbl \in [TablePage -> [0 .. PTRS - 1 -> Descriptor]]
  BY <1>1, <1>2, ZenonT(30)
<1>4. /\ pc \in {"memset", "map", "enable", "done"} /\ pc \notin {"enable", "done"}
  BY SMTT(30), <1>1
<1> QED
  BY <1>1, <1>3, <1>4, ZenonT(30) DEF MmuInv, Control

LEMMA MmuStays ==
  ASSUME MmuInv, UNCHANGED vars
  PROVE  MmuInv'
<1>1. /\ UNCHANGED <<mem_map, etext, tbl, todo, stk, prot, fresh, mair, sctlr_M, pc>>
  BY Zenon DEF vars, image, cpu
<1>2. /\ TablePage' = TablePage /\ idmap_pg_dir' = idmap_pg_dir /\ cur' = cur
      /\ \A k : Todo(k)' = Todo(k) /\ Start(k)' = Start(k) /\ End(k)' = End(k)
  BY <1>1, Steady, ZenonT(30) DEF cur
<1>3. Control'
  BY <1>1, <1>2, ZenonT(30) DEF MmuInv, Control, Descriptor, Bits, Mair, MapIndex, stale
<1>4. ASSUME NEW lv, NEW no, Built(lv, no)
      PROVE  Built(lv, no)'
  <2>1. Tables(lv, no)'
    BY <1>1, <1>4, TablesSame, ZenonT(30) DEF Built
  <2>2. Taken(lv)'
    BY <1>1, <1>2, <1>4, ZenonT(30) DEF Built, Taken, MapIndex, stale
  <2>3. Grown(lv, no, lv, no)
    BY Zenon DEF Grown
  <2>4. Frames(lv, no)'
    <3>1. UNCHANGED <<etext, stk, todo, prot>> /\ Frames(lv, no)
      BY <1>1, <1>4, ZenonT(30) DEF Built
    <3> QED
      BY <2>3, <3>1, FramesKept, ZenonT(30)
  <2>5. f' = f /\ next' = next /\ entry' = entry
    BY <1>1, ZenonT(30) DEF f, next, entry
  <2>6. (Looping' <=> Looping) /\ (section_fits' <=> section_fits)
    BY <1>1, <2>5, ZenonT(30) DEF Looping, section_fits
  <2>7. FreshOk(lv)'
    BY <1>1, <1>2, <1>4, <2>5, <2>6, ZenonT(30) DEF Built, FreshOk, cleared, none
  <2>8. Progress(lv, no)'
    <3>1. \A k \in Region : Upto(k)' = Upto(k)
      BY <1>1, UptoKept, ZenonT(30)
    <3>2. \A a \in Nat : Mapped(lv, no, a) => Mapped(lv, no, a)'
      BY <1>1, <1>2, ZenonT(30) DEF Mapped
    <3> QED
      BY <1>2, <1>4, <3>1, <3>2, ZenonT(30) DEF Built, Progress
  <2> QED
    BY <2>1, <2>2, <2>4, <2>7, <2>8, ZenonT(30) DEF Built
<1> QED
  BY <1>1, <1>3, <1>4, ZenonT(30) DEF MmuInv


LEMMA MmuNext ==
  ASSUME Enough, MmuInv, [Next]_vars
  PROVE  MmuInv'
<1>1. Control
  BY Zenon DEF MmuInv
<1>2. CASE clear_pgd
  BY <1>1, <1>2, StepClear, ZenonT(30) DEF MmuInv
<1>3. CASE \/ __create_pgd_mapping \/ early_pgtable_alloc \/ link_table
           \/ descend \/ pmd_set_section \/ set_pte \/ return
           \/ cpu_init \/ enable_mmu
  <2>1. pc # "memset"
    <3>1. CASE stk # <<>>
      BY SMTT(30), <1>1, <3>1, InMap
    <3>2. CASE fresh # -1
      BY <1>1, <3>2, ZenonT(30) DEF Control
    <3>3. CASE __create_pgd_mapping \/ cpu_init \/ enable_mmu
      <4>1. pc = "map" \/ pc = "enable"
        BY <3>3, ZenonT(30) DEF __create_pgd_mapping, cpu_init, enable_mmu
      <4> QED
        BY <4>1
    <3> QED
      BY <1>3, <3>1, <3>2, <3>3, ZenonT(30) DEF early_pgtable_alloc, link_table, descend,
         pmd_set_section, set_pte, return, Looping
  <2>2. PICK lv, no : Built(lv, no)
    BY <2>1, ZenonT(30) DEF MmuInv
  <2>3. Control' /\ \E lv2, no2 : Built(lv2, no2)'
    <3>1. CASE __create_pgd_mapping
      BY <1>1, <2>2, <3>1, StepCreate, ZenonT(30)
    <3>2. CASE early_pgtable_alloc
      BY <1>1, <2>2, <3>2, StepAlloc, ZenonT(30)
    <3>3. CASE link_table
      BY <1>1, <2>2, <3>3, StepLink, ZenonT(30)
    <3>4. CASE descend
      BY <1>1, <2>2, <3>4, StepDescend, Zenon
    <3>5. CASE pmd_set_section
      BY <1>1, <2>2, <3>5, StepSection, Zenon
    <3>6. CASE set_pte
      BY <1>1, <2>2, <3>6, StepPte, Zenon
    <3>7. CASE return
      BY <1>1, <2>2, <3>7, StepReturn, Zenon
    <3>8. CASE cpu_init
      BY <1>1, <2>2, <3>8, StepCpuInit, Zenon
    <3>9. CASE enable_mmu
      BY <1>1, <2>2, <3>9, StepEnable, Zenon
    <3> QED
      BY <1>3, <3>1, <3>2, <3>3, <3>4, <3>5, <3>6, <3>7, <3>8, <3>9, ZenonT(30)
  <2> QED
    BY <2>3, Zenon DEF MmuInv
<1>4. CASE UNCHANGED vars
  BY <1>4, MmuStays, ZenonT(30)
<1> QED
  BY <1>2, <1>3, <1>4, ZenonT(30) DEF Next

LEMMA Quotient ==
  ASSUME NEW a \in Nat, NEW s \in Nat \ {0}, NEW b \in Nat, a <= b
  PROVE  a \div s \in 0 .. b
<1>1. a \div s \in Nat /\ a = (a \div s) * s + (a % s) /\ a % s \in 0 .. s - 1
  BY DivBounds, Zenon
<1>2. \A x, y \in Nat : \A z \in Nat \ {0} : x <= x * z + y
  BY SMTT(30)
<1>3. a % s \in Nat
  BY SMTT(30), <1>1
<1>4. a \div s <= a
  BY <1>1, <1>2, <1>3, ZenonT(30)
<1> QED
  BY SMTT(30), <1>1, <1>4

FST == INSTANCE FiniteSetTheorems

LEMMA Cardinalities ==
  \A S : Cardinality(S) = FST!Cardinality(S) /\ (IsFiniteSet(S) <=> FST!IsFiniteSet(S))
  BY DEF Cardinality, FST!Cardinality, IsFiniteSet, FST!IsFiniteSet

LEMMA NeededFinite == FST!IsFiniteSet(TablesNeeded)
<1> DEFINE top == PBASE + DEVICE_SIZE
<1>1. top \in Nat /\ PBASE \in Nat /\ TOTAL_MEMORY \in Nat /\ TOTAL_MEMORY <= top
  BY SMTT(30), MmuAssumption
<1>2. ASSUME NEW x \in TablesNeeded
      PROVE  x \in (1 .. 3) \X (0 .. top)
  <2>1. PICK l \in 1 .. 3, a \in (0 .. TOTAL_MEMORY) \cup (PBASE .. top) :
               x = <<l, a \div SIZE(l - 1)>>
    BY SMTT(30) DEF TablesNeeded
  <2>2. a \in Nat /\ a <= top
    <3>1. \A t, b, c \in Nat : t <= c => \A y \in (0 .. t) \cup (b .. c) : y \in Nat /\ y <= c
      BY SMTT(30)
    <3> QED
      BY <1>1, <3>1, ZenonT(30)
  <2>3. SIZE(l - 1) \in Nat \ {0}
    <3>1. l - 1 \in 0 .. 3
      OBVIOUS
    <3> QED
      BY <3>1, SizeType, ZenonT(30)
  <2>4. a \div SIZE(l - 1) \in 0 .. top
    BY <1>1, <2>2, <2>3, Quotient, ZenonT(30)
  <2> QED
    BY <2>1, <2>4, ZenonT(30)
<1>3. 1 \in Int /\ 3 \in Int /\ 0 \in Int /\ top \in Int
  BY SMTT(30), <1>1
<1> HIDE DEF top
<1>4. FST!IsFiniteSet(1 .. 3) /\ FST!IsFiniteSet(0 .. top)
  BY <1>3, FST!FS_Interval, ZenonT(30)
<1>5. FST!IsFiniteSet((1 .. 3) \X (0 .. top))
  BY <1>4, FST!FS_Product, ZenonT(30)
<1>6. TablesNeeded \in SUBSET ((1 .. 3) \X (0 .. top))
  BY <1>2, Zenon
<1> QED
  BY <1>5, <1>6, FST!FS_Subset, ZenonT(30)

(* The needed tables are no more than the pages (MmuAssumption), so this is *)
(* the pigeonhole principle.                                               *)
LEMMA EnoughPages == Enough
<1>1. SUFFICES ASSUME NEW x \in TablesNeeded, NEW g \in [MapIndex -> TablesNeeded \ {x}]
               PROVE  \E i, j \in MapIndex : i # j /\ g[i] = g[j]
  BY Zenon DEF Enough
<1> DEFINE T == TablesNeeded \ {x}
<1>2. FST!IsFiniteSet(T) /\ FST!Cardinality(T) < NR_PAGES
  <2>1. /\ FST!IsFiniteSet(T) /\ FST!Cardinality(T) \in Nat
        /\ FST!Cardinality(T) = FST!Cardinality(TablesNeeded) - 1
        /\ FST!Cardinality(TablesNeeded) \in Nat
    BY <1>1, NeededFinite, FST!FS_RemoveElement, FST!FS_CardinalityType, ZenonT(30)
  <2>2. FST!Cardinality(TablesNeeded) <= NR_PAGES /\ NR_PAGES \in Nat
    BY MmuAssumption, PageAllocAssumption, Cardinalities, ZenonT(30)
  <2> HIDE DEF T
  <2>3. \A c, d, e \in Nat : c = d - 1 /\ d <= e => c < e
    BY SMTT(30)
  <2> QED
    BY <2>1, <2>2, <2>3, ZenonT(30)
<1>3. g \in [MapIndex -> T]
  BY <1>1, Zenon
<1> HIDE DEF T
<1>4. FST!IsFiniteSet(MapIndex) /\ FST!Cardinality(MapIndex) = NR_PAGES
  <2>1. 0 \in Int /\ NR_PAGES - 1 \in Int /\ NR_PAGES \in Nat
    BY SMTT(30), PageAllocAssumption
  <2>2. /\ FST!IsFiniteSet(0 .. NR_PAGES - 1)
        /\ FST!Cardinality(0 .. NR_PAGES - 1)
             = IF 0 > NR_PAGES - 1 THEN 0 ELSE NR_PAGES - 1 - 0 + 1
    BY <2>1, FST!FS_Interval, ZenonT(30)
  <2>3. (IF 0 > NR_PAGES - 1 THEN 0 ELSE NR_PAGES - 1 - 0 + 1) = NR_PAGES
    BY SMTT(30), <2>1
  <2>4. MapIndex = 0 .. NR_PAGES - 1
    BY Zenon DEF MapIndex
  <2> QED
    BY SMTT(30), <2>2, <2>3, <2>4
<1>5. FST!Cardinality(T) < FST!Cardinality(MapIndex)
  BY <1>2, <1>4, Zenon
<1>6. FST!IsFiniteSet(T) /\ FST!IsFiniteSet(MapIndex)
  BY <1>2, <1>4, Zenon
<1> QED
  BY <1>3, <1>5, <1>6, FST!FS_PigeonHole, ZenonT(30)

(* The tables are those of a tree, built up to the address the innermost   *)
(* loop has reached, at every step of paging_init, whatever the sizes of   *)
(* pages, tables, memory and devices and wherever the image ends.          *)
THEOREM MmuInvariant == Spec => []MmuInv
<1>1. ASSUME MmuInv, [Next]_vars
      PROVE  MmuInv'
  BY <1>1, EnoughPages, MmuNext, ZenonT(30)
<1> QED
  BY <1>1, MmuInit, PTL DEF Spec

(* alloc_init_pud / _pmd / _pte: after every store an address faults or    *)
(* translates to itself with the rights of its region.                     *)
THEOREM MmuNeverMismapped == Spec => []NeverMismapped
<1> QED
  BY MmuInvariant, NeverFromInv, PTL

(* paging_init: when the MMU is on, text, memory and devices are mapped,   *)
(* each with its rights and memory type, and nothing else is.              *)
THEOREM MmuMapsExactly == Spec => []MapsExactly
<1> QED
  BY MmuInvariant, ExactFromInv, PTL

(* early_pgtable_alloc: every linked table has one parent and is a page    *)
(* the allocator counts as taken; page 0 is never linked, because the      *)
(* pages never run out.                                                    *)
THEOREM MmuTablesFormTree == Spec => []TablesFormTree
<1> QED
  BY MmuInvariant, TreeFromInv, PTL
==============================================================================
