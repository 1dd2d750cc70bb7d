-------------------------------- MODULE HeapUser --------------------------------
(***************************************************************************)
(* The heap beside the callers of alloc_pages and free_pages in src/task.c *)
(* that take no mm_spinlock: run_process, which builds a user task one at  *)
(* a time under its own lock, and the scheduler, which reaps user tasks.   *)
(* Both run with interrupts off.                                           *)
(***************************************************************************)
EXTENDS Heap

VARIABLE
  bare        \* runs of pages alloc_pages returned to src/task.c

userVars == <<vars, bare>>

UserInit == Init /\ bare = {}

\* alloc_pages reads the bitmap ...
alloc_pages(x, size) ==
  LET n == order_to_pages[size_to_order(size)] IN
  /\ x[2] = "off" /\ at[x] \in Out /\ size # 0 /\ Fits(n) # {}
  /\ \A y \in Contexts : at[y] # "bare"
  /\ rng' = [rng EXCEPT ![x] = Area(Min(Fits(n)), n)]
  /\ Go(x, "bare")
  /\ UNCHANGED <<mm_spinlock, heap, req, done, bare>>

\* ... and sets the bits of the run it found.
alloc_pagesMark(x) ==
  /\ At(x, "bare")
  /\ bits' = bits \cup AreaPages(rng[x]) /\ bare' = bare \cup {rng[x]}
  /\ Return(x, "idle")
  /\ UNCHANGED <<mm_spinlock, tables, mapped, areas, pool, owned>>

free_pages(x, a) ==
  /\ x[2] = "off" /\ at[x] \in Out /\ a \in bare
  /\ bits' = bits \ AreaPages(a) /\ bare' = bare \ {a}
  /\ UNCHANGED <<mm_spinlock, tables, mapped, areas, pool, owned, at, req, rng, done>>

\* map_page_range finds the page mapped: the pages mapped so far are unmapped
\* and -MAP_ERR_EXIST returned, which __kmem_map, comparing it unsigned, takes
\* for success.
MapExists(x) ==
  /\ At(x, "map") /\ Region(NextPage(x)) \in DOMAIN tables
  /\ NextPage(x) \in mapped
  /\ mapped' = mapped \ AreaPages(Area(rng[x].start, done[x]))
  /\ Go(x, "record")
  /\ UNCHANGED <<mm_spinlock, bits, tables, areas, pool, owned, req, rng, done, bare>>

UserNext ==
  \/ Next /\ UNCHANGED bare
  \/ \E x \in Contexts :
       \/ \E size \in Sizes : alloc_pages(x, size)
       \/ \E a \in bare : free_pages(x, a)
       \/ alloc_pagesMark(x) \/ MapExists(x)

UserSpec == UserInit /\ [][UserNext]_userVars

\* mm_spinlock is "the spinlock of memory allocation and release"
\* (src/mm/mm.c:15): no page is held by two of the kernel's callers, those of
\* alloc_pages included.
PagesOwnedOnce ==
  /\ OwnedOnce
  /\ \A a \in owned, b \in bare : AreaPages(a) \cap AreaPages(b) = {}

================================================================================
