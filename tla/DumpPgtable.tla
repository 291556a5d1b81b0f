----------------------------- MODULE DumpPgtable -----------------------------
(***************************************************************************)
(* kernel/dump_pgtable.c, run on the tables that paging_init built: the    *)
(* four nested walkers are frames told apart by their level, as in Mmu.    *)
(* A printed line is its address range, its level and its labels.          *)
(***************************************************************************)
EXTENDS Mmu, SequencesExt

VARIABLES wstk,         \* frames of walk_pgd, _pud, _pmd, _pte
          out,          \* lines printed
          mask,         \* pg_level[].mask, the same for every level
          dpc           \* where dump_pgtable is

dvars == <<vars, wstk, out, mask, dpc>>

(* pte_bits: mask, val, label when set, label when clear ("" for blank).   *)
Bit(b, set, clear) == [mask |-> {b}, val |-> {b}, set |-> set, clear |-> clear]

Attr(mt, set) == [mask |-> ATTRINDX_MASK, val |-> ATTRINDX[mt], set |-> set, clear |-> ""]

(* Slip: the row of the table bit has its labels exchanged.                *)
bits_exchanged ==
  {Bit("VALID", "", "F"), Bit("RDONLY", "ro", "RW"), Bit("PXN", "NX", "X"),
   Bit("TABLE_BIT", "BLK", ""),
   Attr("nGnRnE", "DEVICE/nGnRnE"), Attr("NORMAL", "MEM/NORMAL")}

pte_bits ==
  {Bit("VALID", "", "F"), Bit("USER", "USR", ""), Bit("RDONLY", "ro", "RW"),
   Bit("PXN", "NX", "X"), Bit("SHARED", "SHD", ""), Bit("AF", "AF", ""),
   Bit("NG", "NG", ""), Bit("CONT", "CON", ""), Bit("TABLE_BIT", "", "BLK"),
   Bit("UXN", "UXN", ""),
   Attr("nGnRnE", "DEVICE/nGnRnE"), Attr("nGnRE", "DEVICE/nGnRE"),
   Attr("GRE", "DEVICE/GRE"), Attr("NORMAL_NC", "MEM/NORMAL-NC"),
   Attr("NORMAL", "MEM/NORMAL")}

dump_prot(p) ==
  {IF p \cap b.mask = b.val THEN b.set ELSE b.clear : b \in pte_bits} \ {""}

print_pgtable(start, end, level, d) ==
  IF d = none THEN <<>>
  ELSE << [start |-> start, end |-> end, level |-> level,
           labels |-> dump_prot(d.attr \cap mask)] >>

Walker(l, tab, start, end) ==
  [l |-> l, tab |-> tab, start |-> start, addr |-> start, end |-> end,
   i |-> index(l, start)]

(* Slip: the walk stops short of the last page.                            *)
walks_short ==
  /\ pc = "done" /\ dpc = "idle" /\ dpc' = "walk"
  /\ mask' = UNION {b.mask : b \in pte_bits}
  /\ wstk' = << Walker(0, idmap_pg_dir, 0, TOTAL_MEMORY - PAGE_SIZE) >>
  /\ UNCHANGED <<vars, out>>

(* dump_pgtable(), called once paging_init has returned, whether or not    *)
(* the MMU could be enabled.                                               *)
pg_level_init ==
  /\ pc = "done" /\ dpc = "idle" /\ dpc' = "walk"
  /\ mask' = UNION {b.mask : b \in pte_bits}
  /\ wstk' = << Walker(0, idmap_pg_dir, 0, TOTAL_MEMORY) >>
  /\ UNCHANGED <<vars, out>>

w == Last(wstk)

wentry == tbl[w.tab][w.i]

(* walk_pud computes the end of its entry from start, not from addr.       *)
wnext == addr_end(w.l, IF w.l = 1 THEN w.start ELSE w.addr, w.end)

(* do ... while (addr != end): the body runs once before the first test.   *)
Walking == wstk # <<>> /\ (w.addr # w.end \/ w.i = index(w.l, w.start))

to_next == wstk' = [wstk EXCEPT ![Len(wstk)].addr = wnext, ![Len(wstk)].i = @ + 1]

Leaf == \/ w.l = 3
        \/ wentry = none
        \/ w.l \in {1, 2} /\ sect(wentry)

(* Slip: an empty entry is skipped without moving on.                      *)
print_sticks ==
  /\ Walking /\ Leaf
  /\ out' = out \o print_pgtable(w.addr, wnext, w.l + 1, wentry)
  /\ IF wentry = none THEN UNCHANGED wstk ELSE to_next
  /\ UNCHANGED <<vars, mask, dpc>>

walk_print ==
  /\ Walking /\ Leaf
  /\ out' = out \o print_pgtable(w.addr, wnext, w.l + 1, wentry)
  /\ to_next
  /\ UNCHANGED <<vars, mask, dpc>>

walk_descend ==
  /\ Walking /\ ~Leaf
  /\ wstk' = Append(wstk, Walker(w.l + 1, wentry.pa, w.addr, wnext))
  /\ UNCHANGED <<vars, out, mask, dpc>>

walk_return ==
  /\ wstk # <<>> /\ ~Walking
  /\ wstk' = LET up == Front(wstk) IN
             IF up = <<>> THEN <<>>
             ELSE [up EXCEPT ![Len(up)].addr = w.end, ![Len(up)].i = @ + 1]
  /\ dpc' = IF Len(wstk) = 1 THEN "done" ELSE dpc
  /\ UNCHANGED <<vars, out, mask>>

DInit == Init /\ wstk = <<>> /\ out = <<>> /\ mask = {} /\ dpc = "idle"

DNext == \/ Next /\ UNCHANGED <<wstk, out, mask, dpc>>
         \/ pg_level_init \/ walk_print \/ walk_descend \/ walk_return

DSpec == DInit /\ [][DNext]_dvars /\ WF_dvars(DNext)

Covered(line) == {a \in PageAddr : line.start <= a /\ a < line.end}

(* walk_pgd .. walk_pte: when the dump returns, exactly the mapped pages   *)
(* below TOTAL_MEMORY have been printed, in rising order, none twice, each *)
(* in a line of the level that translates it.                              *)
DumpComplete ==
  dpc = "done" =>
    /\ UNION {Covered(out[i]) : i \in DOMAIN out}
         = {a \in PageAddr : a < TOTAL_MEMORY /\ ~Walk(a).fault}
    /\ \A i \in 1 .. Len(out) - 1 : out[i].end <= out[i + 1].start
    /\ \A i \in DOMAIN out : \A a \in Covered(out[i]) : Walk(a).level + 1 = out[i].level

(* dump_prot: the labels of a line are the rights that the hardware gives  *)
(* its first page, "BLK" marks exactly the sections, and one memory type   *)
(* is named, the one mair_el1 holds.                                       *)
DumpTellsRights ==
  \A i \in DOMAIN out :
    LET h == Walk(out[i].start)
        s == out[i].labels
    IN  /\ "RW" \in s <=> "RDONLY" \notin h.attr
        /\ "X" \in s <=> "PXN" \notin h.attr
        /\ "BLK" \in s <=> h.level = 2
        /\ "F" \notin s
        /\ s \cap {"DEVICE/nGnRnE", "DEVICE/nGnRE", "DEVICE/GRE", "MEM/NORMAL-NC", "MEM/NORMAL"}
             = IF mair[h.attr \cap ATTRINDX_MASK] = "NORMAL" THEN {"MEM/NORMAL"} ELSE {"DEVICE/nGnRnE"}

(* The do-while loops of mmu.c and dump_pgtable.c stop on addr != end, and *)
(* walk_pud compares with a boundary that never moves: paging_init returns *)
(* for every image, and the dump ends as long as TOTAL_MEMORY lies in the  *)
(* first PUD entry, as it does.                                            *)
DumpTerminates == <>(dpc = "done")
==============================================================================
