----------------------------- MODULE PageClients -----------------------------
(***************************************************************************)
(* mm/page_alloc.c with its callers.  get_free_page() runs with IRQs       *)
(* enabled, so it is modelled entry by entry: between its test of an entry *)
(* and its store other contexts run, and may give pages back.  A caller    *)
(* gives back only pages it holds.                                         *)
(***************************************************************************)
EXTENDS PageAlloc

CONSTANTS Contexts,   \* init_task and the threads
          init_task

ASSUME ContextAssumption == init_task \in Contexts

(* NR_PAGES is TOTAL_MEMORY / PAGE_SIZE, so this is TOTAL_MEMORY in pages. *)
TOTAL_MEMORY == NR_PAGES

VARIABLES held,       \* held[c]: the pages that context c owns
          scan,       \* scan[c]: where its get_free_page stands, and i
          ret,        \* what the last get_free_page to end returned
          wasEmpty    \* history: the contexts that called on a full mem_map

vars == <<mem_map, held, scan, ret, wasEmpty>>

Idle == [at |-> "idle", i |-> 0]

Init ==
  /\ mem_map_init
  /\ held = [c \in Contexts |-> {}]
  /\ scan = [c \in Contexts |-> Idle]
  /\ ret = 0 /\ wasEmpty = {}

(* Slip: every context allocates.                                          *)
allocates_anyone(c) == TRUE

(* do_fork and early_pgtable_alloc are only called on init_task.           *)
allocates(c) == c = init_task

get_free_page_call(c) ==
  /\ allocates(c) /\ scan[c].at = "idle"
  /\ scan' = [scan EXCEPT ![c] = [at |-> "test", i |-> 0]]
  /\ wasEmpty' = IF FreePages = {} THEN wasEmpty \cup {c} ELSE wasEmpty \ {c}
  /\ UNCHANGED <<mem_map, held, ret>>

(* Slip: one entry short.                                                  *)
in_map_short(i) == i < NR_PAGES - 1

(* i < NR_PAGES                                                            *)
in_map(i) == i < NR_PAGES

(* The load of mem_map[i], or the end of the loop and return 0.            *)
test(c) ==
  /\ scan[c].at = "test"
  /\ scan' = [scan EXCEPT ![c] =
                IF ~in_map(scan[c].i) THEN Idle
                ELSE IF mem_map[scan[c].i] = 0 THEN [at |-> "set", i |-> scan[c].i]
                ELSE [at |-> "test", i |-> scan[c].i + 1]]
  /\ ret' = IF in_map(scan[c].i) THEN ret ELSE 0
  /\ UNCHANGED <<mem_map, held, wasEmpty>>

(* mem_map[i] = 1; return LOW_MEMORY + i * PAGE_SIZE                       *)
set(c) ==
  /\ scan[c].at = "set"
  /\ mem_map' = [mem_map EXCEPT ![scan[c].i] = 1]
  /\ ret' = LOW_MEMORY + scan[c].i
  /\ held' = [held EXCEPT ![c] = @ \cup {LOW_MEMORY + scan[c].i}]
  /\ scan' = [scan EXCEPT ![c] = Idle]
  /\ UNCHANGED wasEmpty

(* A caller of free_page.                                                  *)
Free(c) ==
  \E p \in held[c] :
    /\ scan[c].at = "idle"
    /\ free_page(p)
    /\ held' = [held EXCEPT ![c] = @ \ {p}]
    /\ UNCHANGED <<scan, ret, wasEmpty>>

(* A page changes hands, as the one that do_fork makes a thread of.        *)
Give(c, d) ==
  \E p \in held[c] :
    /\ c # d /\ scan[c].at = "idle"
    /\ held' = [held EXCEPT ![c] = @ \ {p}, ![d] = @ \cup {p}]
    /\ UNCHANGED <<mem_map, scan, ret, wasEmpty>>

Next == \E c \in Contexts :
          \/ get_free_page_call(c) \/ test(c) \/ set(c) \/ Free(c)
          \/ \E d \in Contexts : Give(c, d)

Spec == Init /\ [][Next]_vars
------------------------------------------------------------------------------
TypeOK ==
  /\ mem_map \in [MapIndex -> {0, 1}]
  /\ held \in [Contexts -> SUBSET Page]
  /\ scan \in [Contexts -> [at : {"idle", "test", "set"}, i : 0 .. NR_PAGES]]
  /\ ret \in Page \cup {0}
  /\ wasEmpty \subseteq Contexts

Owned == UNION {held[c] : c \in Contexts}

(* get_free_page / free_page with IRQs enabled: although an entry is       *)
(* tested and set in two steps, no page has two owners, and an entry of    *)
(* mem_map is set exactly while some context owns its page.  This rests on *)
(* init_task being the only context that allocates.                        *)
MapMatchesOwners ==
  /\ \A c, d \in Contexts : c # d => held[c] \cap held[d] = {}
  /\ FreePages = Page \ Owned

Pool == INSTANCE PagePool WITH
          Pages <- Page, Refusal <- 0, pool <- FreePages, owned <- Owned, reply <- ret,
          request <- IF scan[init_task].at = "idle" THEN "none"
                     ELSE IF init_task \in wasEmpty THEN "hopeless" ELSE "open"

(* page_alloc.c implements the page pool: a page is handed out again only  *)
(* after free_page, and get_free_page returns 0 only if no page was free   *)
(* when it was called, whatever is freed while it looks.                   *)
ImplementsPool == Pool!Spec

(* get_free_page: every page it returns lies inside the memory that        *)
(* kernel_main passes to mem_init and that test_access_unmap_address takes *)
(* to end at TOTAL_MEMORY.                                                 *)
PagesInsideMemory == \A p \in Owned : p < TOTAL_MEMORY
==============================================================================
