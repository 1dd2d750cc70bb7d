---------------------------------- MODULE Heap ----------------------------------
(***************************************************************************)
(* The kernel heap: kmalloc and kfree (src/mm/mm.c) over the page          *)
(* allocator and the kernel's page tables (src/page.c), the pool of area   *)
(* descriptors (src/mm/mempool.c) and mm_spinlock.                         *)
(*                                                                         *)
(* Addresses are page numbers: an area is mapped at KMEM_BASE plus its     *)
(* physical address, so one number names both.  A context is the running   *)
(* task of a CPU or the code that interrupts it with interrupts off (the   *)
(* timer handler's scheduler, which frees what exited tasks leave, or a    *)
(* task it switched to that disabled them, like run_process); the          *)
(* interrupted context goes on only when that code is through.             *)
(***************************************************************************)
EXTENDS Integers, FiniteSets, FiniteSetsExt, Functions

CONSTANTS
  Cpus,
  IrqCpus,     \* those whose task is interrupted by code that uses the heap
  NPages,      \* pages of physical memory, page_alloc_bitmap.size
  Reserved,    \* pages page_init and mm_init took before the first kmalloc
  Span,        \* pages one last-level page table maps (512 in the code)
  PoolSize,    \* vmap_area descriptors in the pool
  PageBytes,   \* PAGE_SIZE
  Sizes        \* what callers ask kmalloc for, in bytes

ASSUME HeapAssumption ==
  /\ IrqCpus \subseteq Cpus
  /\ NPages \in Nat /\ Reserved \in 1 .. NPages /\ Span \in Nat \ {0}
  /\ PoolSize \in Nat /\ PageBytes \in Nat \ {0}
  /\ Sizes \subseteq Nat

Pages == 0 .. NPages - 1
Contexts == (Cpus \X {"task"}) \cup (IrqCpus \X {"off"})
NoOne == <<"none", "none">>

VARIABLES
  mm_spinlock,   \* the context that took it, or NoOne
  bits,          \* pages marked in page_alloc_bitmap
  tables,        \* last-level page tables: region -> the page that holds it
  mapped,        \* pages mapped at KMEM_BASE
  areas,         \* vmap_area_list
  pool,          \* descriptors left in vmap_area_pool
  owned,         \* areas kmalloc returned and nobody gave up
  at, req, rng, done   \* of each context: place in the code, locals

heap == <<bits, tables, mapped, areas, pool, owned>>
vars == <<mm_spinlock, heap, at, req, rng, done>>

Area(start, n) == [start |-> start, n |-> n]
AreaPages(a) == a.start .. a.start + a.n - 1
NoArea == Area(0, 0)
Region(p) == p \div Span

fls[x \in Nat] == IF x = 0 THEN 0 ELSE 1 + fls[x \div 2]

size_to_order(size) ==
  IF size = 0 THEN 0 ELSE fls[((size + PageBytes - 1) \div PageBytes) - 1]

order_to_pages[order \in Nat] == IF order = 0 THEN 1 ELSE 2 * order_to_pages[order - 1]

\* The lengths of areas.  None exceeds memory (the module Bitmap has requests that
\* do).
Lengths == {order_to_pages[size_to_order(s)] : s \in Sizes \ {0}}

ASSUME SizesFit == \A n \in Lengths : n <= NPages

Init ==
  /\ mm_spinlock = NoOne
  /\ bits = 0 .. Reserved - 1
  /\ tables = [r \in {Region(Reserved - 1)} |-> Reserved - 1]
  /\ mapped = {} /\ areas = {} /\ pool = PoolSize /\ owned = {}
  /\ at = [x \in Contexts |-> "idle"]
  /\ req = [x \in Contexts |-> 0]
  /\ rng = [x \in Contexts |-> NoArea]
  /\ done = [x \in Contexts |-> 0]

\* Not in kmalloc or kfree; "null" after a kmalloc that returned NULL.
Out == {"idle", "null"}

\* An interrupted task does not run.
Runs(x) == x[2] = "task" /\ x[1] \in IrqCpus => at[<<x[1], "off">>] \in Out

At(x, label) == Runs(x) /\ at[x] = label
Go(x, label) == at' = [at EXCEPT ![x] = label]

\* The call returns and its locals are gone.
Return(x, label) ==
  /\ Go(x, label)
  /\ req' = [req EXCEPT ![x] = 0]
  /\ rng' = [rng EXCEPT ![x] = NoArea]
  /\ done' = [done EXCEPT ![x] = 0]

\* Mutant: the lock is not released.
Unlock_forgotten(x) == UNCHANGED mm_spinlock

Unlock(x) == mm_spinlock' = NoOne

\* Mutant: only the first page of a run is tested.
Fits_first(n) == {i \in 0 .. NPages - n : i \notin bits}

\* alloc_pages takes the first of the runs of n clear bits.
Fits(n) == {i \in 0 .. NPages - n : AreaPages(Area(i, n)) \cap bits = {}}

--------------------------------------------------------------------------------
(***************************************************************************)
(* kmalloc.                                                                *)
(***************************************************************************)
kmalloc(x, size) ==
  /\ Runs(x) /\ at[x] \in Out
  /\ Go(x, "lock") /\ req' = [req EXCEPT ![x] = size]
  /\ UNCHANGED <<mm_spinlock, heap, rng, done>>

kmallocLock(x) ==
  /\ At(x, "lock") /\ mm_spinlock = NoOne
  /\ mm_spinlock' = x /\ Go(x, "scan")
  /\ UNCHANGED <<heap, req, rng, done>>

Wanted(x) == order_to_pages[size_to_order(req[x])]

\* size == 0, or alloc_pages finds no run: NULL is returned with the lock held.
kmallocFails(x) ==
  /\ At(x, "scan") /\ (req[x] = 0 \/ Fits(Wanted(x)) = {})
  /\ Return(x, "null")
  /\ UNCHANGED <<mm_spinlock, heap>>

\* __kmem_map: alloc_pages reads the bitmap ...
kmallocScan(x) ==
  /\ At(x, "scan") /\ req[x] # 0 /\ Fits(Wanted(x)) # {}
  /\ rng' = [rng EXCEPT ![x] = Area(Min(Fits(Wanted(x))), Wanted(x))]
  /\ Go(x, "mark")
  /\ UNCHANGED <<mm_spinlock, heap, req, done>>

\* ... and sets the bits of the run it found.
kmallocMark(x) ==
  /\ At(x, "mark")
  /\ bits' = bits \cup AreaPages(rng[x])
  /\ Go(x, "map")
  /\ UNCHANGED <<mm_spinlock, tables, mapped, areas, pool, owned, req, rng, done>>

\* Mutant: the address is not advanced with the page.
NextPage_first(x) == rng[x].start

\* map_page_range, one iteration: a missing page table takes a page first.
NextPage(x) == rng[x].start + done[x]

MapTable(x) ==
  /\ At(x, "map") /\ Region(NextPage(x)) \notin DOMAIN tables /\ Fits(1) # {}
  /\ tables' = [r \in DOMAIN tables \cup {Region(NextPage(x))} |->
                  IF r \in DOMAIN tables THEN tables[r] ELSE Min(Fits(1))]
  /\ bits' = bits \cup {Min(Fits(1))}
  /\ UNCHANGED <<mm_spinlock, mapped, areas, pool, owned, at, req, rng, done>>

\* alloc_page failed, unchecked: its -1 becomes the entry and the first access
\* through it faults.  The CPU stops here with the lock held.
MapTableFaults(x) ==
  /\ At(x, "map") /\ Region(NextPage(x)) \notin DOMAIN tables /\ Fits(1) = {}
  /\ Go(x, "fault")
  /\ UNCHANGED <<mm_spinlock, heap, req, rng, done>>

MapPage(x) ==
  /\ At(x, "map") /\ Region(NextPage(x)) \in DOMAIN tables
  /\ NextPage(x) \notin mapped
  /\ mapped' = mapped \cup {NextPage(x)}
  /\ done' = [done EXCEPT ![x] = @ + 1]
  /\ Go(x, IF done[x] + 1 = rng[x].n THEN "record" ELSE "map")
  /\ UNCHANGED <<mm_spinlock, bits, tables, areas, pool, owned, req, rng>>

\* __vmap_area_alloc: no descriptor left, NULL with the lock held.
RecordFails(x) ==
  /\ At(x, "record") /\ pool = 0
  /\ Return(x, "null")
  /\ UNCHANGED <<mm_spinlock, heap>>

Record(x) ==
  /\ At(x, "record") /\ pool > 0
  /\ pool' = pool - 1 /\ areas' = areas \cup {rng[x]} /\ owned' = owned \cup {rng[x]}
  /\ Unlock(x) /\ Return(x, "idle")
  /\ UNCHANGED <<bits, tables, mapped>>

--------------------------------------------------------------------------------
(***************************************************************************)
(* kfree of an area its owner gives up.                                    *)
(***************************************************************************)
kfree(x, a) ==
  /\ Runs(x) /\ at[x] \in Out /\ a \in owned
  /\ owned' = owned \ {a}
  /\ rng' = [rng EXCEPT ![x] = a]
  /\ Go(x, "flock")
  /\ UNCHANGED <<mm_spinlock, bits, tables, mapped, areas, pool, req, done>>

kfreeLock(x) ==
  /\ At(x, "flock") /\ mm_spinlock = NoOne
  /\ mm_spinlock' = x /\ Go(x, "find")
  /\ UNCHANGED <<heap, req, rng, done>>

\* list_del, then free_pages of the address the page tables give for it (the
\* error value of get_physaddr lies beyond the bitmap).
kfreePages(x) ==
  \E a \in areas :
    /\ At(x, "find") /\ a.start = rng[x].start
    /\ areas' = areas \ {a}
    /\ rng' = [rng EXCEPT ![x] = a]
    /\ bits' = IF a.start \in mapped
                 THEN bits \ AreaPages(Area(a.start,
                               order_to_pages[size_to_order(a.n * PageBytes)]))
                 ELSE bits
    /\ Go(x, "unmap")
    /\ UNCHANGED <<mm_spinlock, tables, mapped, pool, owned, req, done>>

\* Mutant: the last page is left mapped.
Unmapped_short(a) == {p \in AreaPages(a) : p + 1 \in AreaPages(a)}

\* unmap_page_range stops at the first page that is not mapped.
Unmapped(a) == {p \in AreaPages(a) : a.start .. p \subseteq mapped}

kfreeUnmap(x) ==
  /\ At(x, "unmap")
  /\ mapped' = mapped \ Unmapped(rng[x])
  /\ pool' = pool + 1
  /\ Unlock(x) /\ Return(x, "idle")
  /\ UNCHANGED <<bits, tables, areas, owned>>

--------------------------------------------------------------------------------
Step(x) ==
  \/ kmallocLock(x) \/ kmallocFails(x) \/ kmallocScan(x) \/ kmallocMark(x)
  \/ MapTable(x) \/ MapTableFaults(x) \/ MapPage(x) \/ RecordFails(x) \/ Record(x)
  \/ kfreeLock(x) \/ kfreePages(x) \/ kfreeUnmap(x)

Call(x) ==
  \/ \E size \in Sizes : kmalloc(x, size)
  \/ \E a \in owned : kfree(x, a)

Next == \E x \in Contexts : Step(x) \/ Call(x)

Spec == Init /\ [][Next]_vars

\* A CPU that is inside kmalloc or kfree keeps executing it.
FairSpec == Spec /\ \A x \in Contexts : WF_vars(Step(x))

--------------------------------------------------------------------------------
(***************************************************************************)
(* Properties.                                                             *)
(***************************************************************************)

TablePages == {tables[r] : r \in DOMAIN tables}

\* No page is handed out twice: areas that callers hold share no page with one
\* another, with a page table or with what the kernel reserved at boot, however
\* kmalloc and kfree interleave on the CPUs and in interrupts.
OwnedOnce ==
  /\ \A a, b \in owned : a # b => AreaPages(a) \cap AreaPages(b) = {}
  /\ \A a \in owned :
       AreaPages(a) \cap (TablePages \cup 0 .. Reserved - 1) = {}

\* Between calls nothing is lost and nothing is stale: the bitmap marks exactly
\* the reserved pages, the page tables and the areas on vmap_area_list, exactly
\* those areas are mapped, and every descriptor is on the list or in the pool.
\* The rounding kfree repeats (size_to_order of whole pages) frees what kmalloc
\* took.
Accounted ==
  mm_spinlock = NoOne =>
    LET live == UNION {AreaPages(a) : a \in areas} IN
    /\ bits = 0 .. Reserved - 1 \cup TablePages \cup live
    /\ mapped = live
    /\ Cardinality(areas) + pool = PoolSize

\* An area a caller holds, or is just giving up, is on vmap_area_list, and a
\* page about to be mapped is not mapped: kfree of a pointer from kmalloc finds
\* it (its -1 leaves mm_spinlock held), and map_page_range never answers
\* -MAP_ERR_EXIST, which __kmem_map would take for success.
NoErrorPath ==
  /\ owned \subseteq areas
  /\ \A x \in Contexts :
       /\ at[x] \in {"flock", "find"} => rng[x] \in areas
       /\ at[x] = "map" => NextPage(x) \notin mapped

\* mm_spinlock is kept for good only after a failed kmalloc, after a fault for
\* want of a page table, or when code with interrupts off spins for it on top
\* of the task that holds it.
Stuck ==
  \/ \E x \in Contexts : mm_spinlock = x /\ at[x] \in {"null", "lock", "flock", "fault"}
  \/ \E c \in IrqCpus : /\ mm_spinlock = <<c, "task">>
                        /\ at[<<c, "off">>] \in {"lock", "flock"}

\* Every critical section of mm_spinlock ends, unless one of the three happens.
LockReleased == mm_spinlock # NoOne ~> mm_spinlock = NoOne \/ Stuck

================================================================================
