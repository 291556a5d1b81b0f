----------------------------- MODULE PageProofs ------------------------------
(***************************************************************************)
(* The page allocator keeps mem_map in step with its callers and           *)
(* implements the page pool, for every size of memory and every set of     *)
(* contexts.                                                               *)
(***************************************************************************)
EXTENDS PageClients, TLAPS

at == scan[init_task].at

idx == scan[init_task].i

(* Only init_task is inside get_free_page; the entry it is about to set is *)
(* still free; and if a page was free when it was called, one is still     *)
(* free where the scan has not been.                                       *)
PageInv ==
  /\ TypeOK /\ MapMatchesOwners
  /\ \A c \in Contexts \ {init_task} : scan[c].at = "idle"
  /\ at = "set" => idx \in MapIndex /\ mem_map[idx] = 0
  /\ at = "test" => \/ init_task \in wasEmpty
                    \/ \E j \in MapIndex : j >= idx /\ mem_map[j] = 0

(* The state of the pool's request that PageClients substitutes.           *)
asked == IF at = "idle" THEN "none"
         ELSE IF init_task \in wasEmpty THEN "hopeless" ELSE "open"

PoolStep == [Pool!Next]_<<FreePages, Owned, asked, ret>>

(* LOW_MEMORY is not 0, so no page is mistaken for the reply 0, and pages  *)
(* and entries of mem_map correspond one to one.                           *)
LEMMA PageIndex ==
  /\ 0 \notin Page
  /\ \A i \in MapIndex : LOW_MEMORY + i \in Page /\ LOW_MEMORY + i - LOW_MEMORY = i
  /\ \A p \in Page : p - LOW_MEMORY \in MapIndex /\ LOW_MEMORY + (p - LOW_MEMORY) = p
  BY PageAllocAssumption DEF Page, MapIndex

LEMMA EntryPage ==
  \A i \in MapIndex : \E p \in Page : p = LOW_MEMORY + i /\ p - LOW_MEMORY = i
  BY PageAllocAssumption DEF Page, MapIndex

(* A store to entry i of mem_map concerns page LOW_MEMORY + i alone.       *)
LEMMA EntryStore ==
  ASSUME TypeOK, NEW i \in MapIndex, NEW v \in {0, 1},
         mem_map' = [mem_map EXCEPT ![i] = v]
  PROVE  /\ mem_map' \in [MapIndex -> {0, 1}]
         /\ FreePages' = IF v = 0 THEN FreePages \cup {LOW_MEMORY + i}
                         ELSE FreePages \ {LOW_MEMORY + i}
<1>1. mem_map \in [MapIndex -> {0, 1}]
  BY DEF TypeOK
<1>2. \A p \in Page : p - LOW_MEMORY = i <=> p = LOW_MEMORY + i
  BY PageAllocAssumption DEF Page, MapIndex
<1>3. \A p \in Page : mem_map'[p - LOW_MEMORY]
                        = IF p = LOW_MEMORY + i THEN v ELSE mem_map[p - LOW_MEMORY]
  BY <1>1, <1>2, PageIndex
<1>4. mem_map' \in [MapIndex -> {0, 1}]
  BY <1>1
<1>5. LOW_MEMORY + i \in Page
  BY PageIndex
<1> QED BY <1>3, <1>4, <1>5 DEF FreePages

LEMMA PageInvInit == Init => PageInv /\ Pool!Init
<1> SUFFICES ASSUME Init PROVE PageInv /\ Pool!Init
  OBVIOUS
<1> USE ContextAssumption, PageAllocAssumption
<1>1. /\ mem_map = [i \in MapIndex |-> 0] /\ held = [c \in Contexts |-> {}]
      /\ scan = [c \in Contexts |-> Idle] /\ ret = 0 /\ wasEmpty = {}
  BY DEF Init, mem_map_init
<1>2. FreePages = Page /\ Owned = {}
  BY <1>1, PageIndex DEF FreePages, Owned
<1>3. TypeOK
  BY <1>1 DEF TypeOK, Idle
<1>4. PageInv
  BY <1>1, <1>2, <1>3 DEF PageInv, MapMatchesOwners, at, Idle
<1> QED BY <1>1, <1>2, <1>4 DEF Pool!Init, Idle

LEMMA CallStep ==
  ASSUME PageInv, NEW c \in Contexts, get_free_page_call(c)
  PROVE  PageInv' /\ PoolStep
<1> USE ContextAssumption, PageAllocAssumption
<1>1. c = init_task
  BY DEF get_free_page_call, allocates
<1>2. UNCHANGED <<mem_map, held, ret>>
  BY DEF get_free_page_call
<1>3. FreePages' = FreePages /\ Owned' = Owned
  BY <1>2 DEF FreePages, Owned
<1>4. TypeOK' /\ MapMatchesOwners'
  BY <1>2, <1>3 DEF PageInv, TypeOK, MapMatchesOwners, get_free_page_call
<1>5. /\ at = "idle" /\ at' = "test" /\ idx' = 0
      /\ wasEmpty' = IF FreePages = {} THEN wasEmpty \cup {init_task}
                     ELSE wasEmpty \ {init_task}
      /\ \A d \in Contexts \ {init_task} : scan'[d] = scan[d]
  BY <1>1 DEF PageInv, TypeOK, get_free_page_call, at, idx
<1>6. FreePages # {} => \E j \in MapIndex : j >= 0 /\ mem_map[j] = 0
  BY PageIndex DEF FreePages, MapIndex
<1>7. PageInv'
  BY <1>2, <1>4, <1>5, <1>6 DEF PageInv
<1>8. asked = "none" /\ asked' = IF FreePages = {} THEN "hopeless" ELSE "open"
  BY <1>5 DEF asked
<1>9. PoolStep
  BY <1>2, <1>3, <1>8 DEF PoolStep, Pool!Next, Pool!Ask, asked, at
<1> QED BY <1>7, <1>9

LEMMA TestStep ==
  ASSUME PageInv, NEW c \in Contexts, test(c)
  PROVE  PageInv' /\ PoolStep
<1> USE ContextAssumption, PageAllocAssumption
<1>1. c = init_task /\ at = "test"
  BY DEF test, PageInv, at
<1>2. idx \in 0 .. NR_PAGES /\ (in_map(idx) <=> idx \in MapIndex)
  BY DEF PageInv, TypeOK, in_map, MapIndex, idx
<1>3. /\ UNCHANGED <<mem_map, held, wasEmpty>>
      /\ ret' = IF in_map(idx) THEN ret ELSE 0
      /\ scan'[init_task] = IF ~in_map(idx) THEN Idle
                            ELSE IF mem_map[idx] = 0 THEN [at |-> "set", i |-> idx]
                            ELSE [at |-> "test", i |-> idx + 1]
      /\ \A d \in Contexts \ {init_task} : scan'[d] = scan[d]
  BY <1>1 DEF PageInv, TypeOK, test, idx
<1>4. FreePages' = FreePages /\ Owned' = Owned
  BY <1>3 DEF FreePages, Owned
<1>5. TypeOK'
  <2>1. scan'[init_task] \in [at : {"idle", "test", "set"}, i : 0 .. NR_PAGES]
    BY <1>2, <1>3 DEF Idle, in_map
  <2>2. scan' \in [Contexts -> [at : {"idle", "test", "set"}, i : 0 .. NR_PAGES]]
    BY <1>1, <2>1 DEF PageInv, TypeOK, test
  <2> QED BY <1>3, <2>2 DEF PageInv, TypeOK
<1>6. MapMatchesOwners'
  BY <1>3, <1>4 DEF PageInv, MapMatchesOwners
<1>7. ~in_map(idx) => init_task \in wasEmpty
  BY <1>1, <1>2 DEF PageInv, in_map, MapIndex
<1>8. in_map(idx) /\ mem_map[idx] # 0 =>
        init_task \in wasEmpty \/ \E j \in MapIndex : j >= idx + 1 /\ mem_map[j] = 0
  BY <1>1, <1>2 DEF PageInv, MapIndex
<1>9. at' = "set" => idx' \in MapIndex /\ mem_map'[idx'] = 0
  BY <1>2, <1>3 DEF Idle, at, idx
<1>10. at' = "test" => \/ init_task \in wasEmpty'
                       \/ \E j \in MapIndex : j >= idx' /\ mem_map'[j] = 0
  BY <1>3, <1>8 DEF Idle, at, idx
<1>11. PageInv'
  BY <1>3, <1>5, <1>6, <1>9, <1>10 DEF PageInv
<1>12. PoolStep
  <2>1. CASE in_map(idx)
    <3>1. at' # "idle"
      BY <1>3, <2>1 DEF at
    <3>2. asked' = asked
      BY <1>1, <1>3, <3>1 DEF asked
    <3> QED BY <1>3, <1>4, <2>1, <3>2 DEF PoolStep
  <2>2. CASE ~in_map(idx)
    <3>1. asked = "hopeless"
      BY <1>1, <1>7, <2>2 DEF asked
    <3>2. asked' = "none" /\ ret' = 0
      BY <1>3, <2>2 DEF asked, at, Idle
    <3> QED BY <1>4, <3>1, <3>2 DEF PoolStep, Pool!Next, Pool!Refuse, asked, at
  <2> QED BY <2>1, <2>2
<1> QED BY <1>11, <1>12

LEMMA SetStep ==
  ASSUME PageInv, NEW c \in Contexts, set(c)
  PROVE  PageInv' /\ PoolStep
<1> USE ContextAssumption, PageAllocAssumption
<1>1. c = init_task /\ at = "set"
  BY DEF set, PageInv, at
<1>2. PICK i \in MapIndex : i = idx /\ mem_map[i] = 0
  BY <1>1 DEF PageInv
<1>3. PICK p \in Page : p = LOW_MEMORY + i /\ p - LOW_MEMORY = i
  BY EntryPage
<1>4. p \in FreePages /\ p \notin Owned
  BY <1>2, <1>3 DEF FreePages, PageInv, MapMatchesOwners
<1>5. /\ mem_map' = [mem_map EXCEPT ![i] = 1]
      /\ held' = [held EXCEPT ![init_task] = @ \cup {p}]
      /\ scan' = [scan EXCEPT ![init_task] = Idle]
      /\ ret' = p /\ UNCHANGED wasEmpty
  BY <1>1, <1>2, <1>3 DEF set, idx
<1>6. mem_map' \in [MapIndex -> {0, 1}] /\ FreePages' = FreePages \ {p}
  <2>1. TypeOK /\ 1 \in {0, 1} /\ 1 # 0
    BY DEF PageInv
  <2> QED BY Zenon, <1>3, <1>5, <2>1, EntryStore
<1>7. TypeOK'
  BY <1>3, <1>5, <1>6 DEF PageInv, TypeOK, Idle
<1>8. \A d \in Contexts : held'[d] = IF d = init_task THEN held[d] \cup {p} ELSE held[d]
  BY Zenon, <1>5 DEF PageInv, TypeOK
<1>9. Owned' = Owned \cup {p}
  BY Zenon, <1>8 DEF Owned
<1>10. MapMatchesOwners'
  <2>1. \A d \in Contexts : p \notin held[d]
    BY <1>4 DEF Owned
  <2>2. \A d, e \in Contexts : d # e => held'[d] \cap held'[e] = {}
    BY Zenon, <1>8, <2>1 DEF PageInv, MapMatchesOwners
  <2> QED BY <1>6, <1>9, <2>2 DEF PageInv, MapMatchesOwners
<1>11. at' = "idle" /\ \A d \in Contexts \ {init_task} : scan'[d] = scan[d]
  BY <1>5 DEF PageInv, TypeOK, Idle, at
<1>12. PageInv'
  BY <1>7, <1>10, <1>11 DEF PageInv
<1>13. asked # "none" /\ asked' = "none"
  BY <1>1, <1>11 DEF asked
<1>14. PoolStep
  BY <1>4, <1>5, <1>6, <1>9, <1>13 DEF PoolStep, Pool!Next, Pool!Take, asked, at
<1> QED BY <1>12, <1>14

(* A free between the test and the store only adds free entries.           *)
LEMMA FreeStep ==
  ASSUME PageInv, NEW c \in Contexts, Free(c)
  PROVE  PageInv' /\ PoolStep
<1> USE ContextAssumption, PageAllocAssumption
<1>1. PICK p \in held[c] : /\ mem_map' = [mem_map EXCEPT ![p - LOW_MEMORY] = 0]
                           /\ held' = [held EXCEPT ![c] = @ \ {p}]
                           /\ UNCHANGED <<scan, ret, wasEmpty>>
  BY Zenon DEF Free, free_page
<1>2. p \in Page /\ p \in Owned
  BY DEF PageInv, TypeOK, Owned
<1>3. PICK i \in MapIndex : i = p - LOW_MEMORY /\ p = LOW_MEMORY + i
  BY <1>2, PageIndex
<1>4. mem_map' = [mem_map EXCEPT ![i] = 0] /\ TypeOK /\ 0 \in {0, 1}
  BY <1>1, <1>3 DEF PageInv
<1>5. mem_map' \in [MapIndex -> {0, 1}] /\ FreePages' = FreePages \cup {p}
  BY Zenon, <1>3, <1>4, EntryStore
<1>6. TypeOK'
  BY <1>1, <1>5 DEF PageInv, TypeOK
<1>7. \A j \in MapIndex : mem_map'[j] = IF j = i THEN 0 ELSE mem_map[j]
  BY <1>4 DEF TypeOK
<1>8. \A d \in Contexts : held'[d] = IF d = c THEN held[d] \ {p} ELSE held[d]
  BY Zenon, <1>1 DEF PageInv, TypeOK
<1>9. \A d \in Contexts : d # c => p \notin held[d]
  BY DEF PageInv, MapMatchesOwners
<1>10. Owned' = Owned \ {p}
  BY Zenon, <1>8, <1>9 DEF Owned
<1>11. MapMatchesOwners'
  <2>1. \A d, e \in Contexts : d # e => held'[d] \cap held'[e] = {}
    BY Zenon, <1>8 DEF PageInv, MapMatchesOwners
  <2> QED BY <1>2, <1>5, <1>10, <2>1 DEF PageInv, MapMatchesOwners
<1>12. UNCHANGED <<at, idx, asked>>
  BY <1>1 DEF at, idx, asked
<1>13. PageInv'
  BY <1>1, <1>6, <1>7, <1>11, <1>12 DEF PageInv
<1>14. PoolStep
  BY <1>1, <1>2, <1>5, <1>10, <1>12 DEF PoolStep, Pool!Next, Pool!Return, asked, at
<1> QED BY <1>13, <1>14

(* A page that changes hands concerns neither mem_map nor the pool.        *)
LEMMA GiveStep ==
  ASSUME PageInv, NEW c \in Contexts, NEW d \in Contexts, Give(c, d)
  PROVE  PageInv' /\ PoolStep
<1>1. PICK p \in held[c] : /\ c # d
                           /\ held' = [held EXCEPT ![c] = @ \ {p}, ![d] = @ \cup {p}]
                           /\ UNCHANGED <<mem_map, scan, ret, wasEmpty>>
  BY Zenon DEF Give
<1>2. held \in [Contexts -> SUBSET Page] /\ p \in Page
  BY DEF PageInv, TypeOK
<1>3. \A e \in Contexts : held'[e] = IF e = c THEN held[e] \ {p}
                                     ELSE IF e = d THEN held[e] \cup {p} ELSE held[e]
  BY <1>1, <1>2
<1>4. TypeOK'
  BY <1>1, <1>2 DEF PageInv, TypeOK
<1>5. \A e, f \in Contexts : \A q : e # f => ~(q \in held[e] /\ q \in held[f])
  BY DEF PageInv, MapMatchesOwners
<1>6. \A e \in Contexts : \A q : q \in held'[e] <=> IF q = p THEN e = d ELSE q \in held[e]
  <2> TAKE e \in Contexts
  <2> TAKE q
  <2>1. CASE e = c
    <3>1. held'[e] = held[e] \ {p} /\ e # d
      BY Zenon, <1>1, <1>3, <2>1
    <3> QED BY <3>1
  <2>2. CASE e # c
    BY Zenon, <1>3, <1>5, <2>2
  <2> QED BY <2>1, <2>2
<1>7. Owned' = Owned /\ FreePages' = FreePages
  <2>1. \A q : (\E e \in Contexts : q \in held'[e]) <=> (\E e \in Contexts : q \in held[e])
    BY <1>6
  <2>2. Owned' = Owned
    BY <2>1 DEF Owned
  <2> QED BY <1>1, <2>2 DEF FreePages
<1>8. MapMatchesOwners'
  <2>1. \A e, f \in Contexts : e # f => held'[e] \cap held'[f] = {}
    BY <1>5, <1>6
  <2> QED BY <1>7, <2>1 DEF PageInv, MapMatchesOwners
<1>9. UNCHANGED <<at, idx, asked>>
  BY <1>1 DEF at, idx, asked
<1>10. PageInv'
  BY <1>1, <1>4, <1>8, <1>9 DEF PageInv
<1> QED BY <1>1, <1>7, <1>9, <1>10 DEF PoolStep

LEMMA PageStep ==
  ASSUME PageInv, [Next]_vars
  PROVE  PageInv' /\ PoolStep
<1>1. CASE UNCHANGED vars
  <2>1. UNCHANGED <<mem_map, held, scan, ret, wasEmpty>>
    BY <1>1 DEF vars
  <2>2. UNCHANGED <<FreePages, Owned, at, idx, asked>>
    BY <2>1 DEF FreePages, Owned, at, idx, asked
  <2>3. PageInv'
    BY <2>1, <2>2 DEF PageInv, TypeOK, MapMatchesOwners
  <2> QED BY <2>1, <2>2, <2>3 DEF PoolStep
<1> QED BY <1>1, CallStep, TestStep, SetStep, FreeStep, GiveStep DEF Next

(* get_free_page / free_page with IRQs enabled: mem_map is set exactly for *)
(* the pages that contexts own and no page has two owners, however the     *)
(* calls interleave, as only init_task allocates.                          *)
THEOREM OwnersExact == Spec => []MapMatchesOwners
<1>1. PageInv /\ [Next]_vars => PageInv'
  BY PageStep
<1>2. PageInv => MapMatchesOwners
  BY DEF PageInv
<1> QED BY <1>1, <1>2, PageInvInit, PTL DEF Spec

(* mm/page_alloc.c implements the abstract page pool: every step of an     *)
(* interrupted get_free_page is a step of the pool or changes nothing.     *)
THEOREM AllocatorIsPool == Spec => ImplementsPool
<1>1. PageInv /\ [Next]_vars => PageInv' /\ PoolStep
  BY PageStep
<1>2. PoolStep => [Pool!Next]_<<FreePages, Owned, asked, ret>>
  BY DEF PoolStep
<1> QED BY <1>1, <1>2, PageInvInit, PTL DEF Spec, ImplementsPool, Pool!Spec, asked, at
==============================================================================
