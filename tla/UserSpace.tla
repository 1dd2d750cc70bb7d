-------------------------------- MODULE UserSpace -------------------------------
(***************************************************************************)
(* The page tables of a user task: calc_page_table_counts and the part of  *)
(* __usertask_create that allocates and fills the tables of the pages from *)
(* start up to end.                                                        *)
(*                                                                         *)
(* Level 1 is the page table, 2 the page directory, 3 the PDPT, 4 the      *)
(* PML4.  The tables of a level are consecutive pages and are written as   *)
(* one array; entry i of an array above level 1 names table i of the level *)
(* below.  A virtual page number stands for the physical page that         *)
(* make_elf64_task mapped there.                                           *)
(***************************************************************************)
EXTENDS Integers, FiniteSets, FiniteSetsExt

CONSTANTS
  E,         \* entries of a table (512 in the code), a power of two
  MaxPages   \* bound: pages of a user task

ASSUME SpaceAssumption == E \in Nat \ {0, 1} /\ MaxPages \in Nat

Level == 1 .. 4

\* The pages that a table of level l maps.
Reach[l \in 0 .. 4] == IF l = 0 THEN 1 ELSE E * Reach[l - 1]

\* The lower half of the address space; the upper half is the kernel's.
UserPages == 0 .. (Reach[4] \div 2) - 1

VARIABLES
  start, nr_pages,
  count,      \* of each level: entries needed, by calc_page_table_counts
  array,      \* of each level: the entries written, position -> value
  level       \* the level filled next, 0 when the tables are complete

spaceVars == <<start, nr_pages, count, array, level>>

Index(l, v) == (v \div Reach[l - 1]) % E

\* Entries one level up for n entries here.
Above(n) == (n + E - 1) \div E

calc_page_table_counts(n) ==
  [l \in Level |-> CASE l = 1 -> n
                     [] l = 2 -> Above(n)
                     [] l = 3 -> Above(Above(n))
                     [] l = 4 -> Above(Above(Above(n)))]

SpaceInit ==
  /\ start \in UserPages /\ nr_pages \in 1 .. MaxPages
  /\ start + nr_pages - 1 \in UserPages
  /\ count = calc_page_table_counts(nr_pages)
  /\ array = [l \in Level |-> << >>]
  /\ level = 4

\* Mutant: the index of the first page of a table is forgotten.
Position_zero(l, i) == i

Position(l, i) == Index(l, start) + i

\* The loop that fills the array of a level.  (The kernel's half of the PML4 is
\* copied from the running tables before and holds no user page.)
Fill ==
  /\ level > 0
  /\ array' = [array EXCEPT ![level] =
       [p \in {Position(level, i) : i \in 0 .. count[level] - 1} |->
          LET i == p - Position(level, 0)
          IN  IF level = 1 THEN start + i ELSE i]]
  /\ level' = level - 1
  /\ UNCHANGED <<start, nr_pages, count>>

SpaceNext == Fill

SpaceSpec == SpaceInit /\ [][SpaceNext]_spaceVars

--------------------------------------------------------------------------------
(***************************************************************************)
(* What the processor makes of the tables.                                 *)
(***************************************************************************)
\* The entry for page v in table t of level l; Absent when nothing was written.
Absent == -1
Entry(l, t, v) ==
  LET p == t * E + Index(l, v)
  IN  IF t # Absent /\ p \in DOMAIN array[l] THEN array[l][p] ELSE Absent

Walk(v) == Entry(1, Entry(2, Entry(3, Entry(4, 0, v), v), v), v)

TaskPages == start .. start + nr_pages - 1

\* The tables of a level that a range of pages really takes.
Taken(l) == {v \div Reach[l] : v \in TaskPages}

\* alloc_pages(size_to_order(..)): the power of two pages that the entries fill.
Orders == 0 .. MaxPages
PagesOf[k \in Orders] == IF k = 0 THEN 1 ELSE 2 * PagesOf[k - 1]
Allocated(l) == Min({PagesOf[k] : k \in {j \in Orders : PagesOf[j] >= Above(count[l])}})

--------------------------------------------------------------------------------
(***************************************************************************)
(* Properties.                                                             *)
(***************************************************************************)

\* Every page of the task is reached through the four levels exactly when
\* calc_page_table_counts gives as many tables as the range really takes, and
\* then no entry is written outside the pages allocated for the level.
Translates ==
  level = 0 =>
    LET enough == \A l \in 1 .. 3 : count[l + 1] = Cardinality(Taken(l))
    IN  /\ enough <=> \A v \in TaskPages : Walk(v) = v
        /\ enough => \A l \in Level : \A p \in DOMAIN array[l] : p < E * Allocated(l)

================================================================================
