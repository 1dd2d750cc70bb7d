----------------------------------- MODULE Vfs ----------------------------------
(***************************************************************************)
(* Open files: the system calls of src/syscalls.c over the dentry cache of *)
(* src/fs/vfs.c and the FatFs binding of src/fs/fatfs.c.                   *)
(*                                                                         *)
(* A system call runs with interrupts off (an interrupt gate, or           *)
(* run_process), so on one CPU calls do not interleave; no lock keeps two  *)
(* CPUs apart.  An object of the heap may be used again once it is freed;  *)
(* the heap itself is the module Heap, and allocations succeed here.  The  *)
(* two lists are the sets of what they hold: their order would matter only *)
(* for a path with two dentries or a number with two files.  There is one  *)
(* mount, the root, which every absolute path resolves to.                 *)
(***************************************************************************)
EXTENDS Integers, FiniteSets

CONSTANTS
  Cpus,
  Path,        \* absolute path names callers use
  Obj,         \* memory for struct files, and as much for dentries
  None,
  MaxOpens     \* bound: successful opens in all, far below the wrap of fd_count

ASSUME VfsAssumption ==
  IsFiniteSet(Obj) /\ MaxOpens \in Nat /\ None \notin Obj \cup Path

VARIABLES
  onDisk,        \* paths that exist in the FAT volume
  dentry_list,   \* dentries on the list
  pathname, d_ref,     \* of each dentry
  fil,           \* dentries whose FatFs object (private_data->data) is open
  dlive, flive,  \* allocated dentries, allocated struct files
  file_list,     \* struct files on the list
  fd, dentry,    \* of each struct file
  fd_count,
  pc, lf, ld, lp, lfd   \* of each CPU: place in the call, locals

cache == <<dentry_list, pathname, d_ref, fil, dlive>>
table == <<file_list, fd, fd_count>>
files == <<flive, dentry>>
local == <<lf, ld, lp, lfd>>
vars == <<onDisk, cache, table, files, pc, local>>

Calls == {"out", "incref", "create", "link", "fd", "add", "io",
          "decref", "check", "release", "remove"}

TypeOK ==
  /\ onDisk \subseteq Path
  /\ dentry_list \subseteq Obj /\ pathname \in [Obj -> Path \cup {None}]
  /\ d_ref \in [Obj -> Int]
  /\ fil \subseteq Obj /\ dlive \subseteq Obj /\ flive \subseteq Obj
  /\ file_list \subseteq Obj /\ fd \in [Obj -> 0 .. MaxOpens]
  /\ dentry \in [Obj -> Obj \cup {None}] /\ fd_count \in 0 .. MaxOpens
  /\ pc \in [Cpus -> Calls] /\ lf \in [Cpus -> Obj \cup {None}]
  /\ ld \in [Cpus -> Obj \cup {None}] /\ lp \in [Cpus -> Path \cup {None}]
  /\ lfd \in [Cpus -> 0 .. MaxOpens]

Init ==
  /\ onDisk \in SUBSET Path /\ dentry_list = {} /\ pathname = [d \in Obj |-> None]
  /\ d_ref = [d \in Obj |-> 0] /\ fil = {} /\ dlive = {} /\ flive = {}
  /\ file_list = {} /\ fd = [f \in Obj |-> 0] /\ dentry = [f \in Obj |-> None]
  /\ fd_count = 0
  /\ pc = [c \in Cpus |-> "out"] /\ lf = [c \in Cpus |-> None]
  /\ ld = [c \in Cpus |-> None] /\ lp = [c \in Cpus |-> None]
  /\ lfd = [c \in Cpus |-> 0]

At(c, label) == pc[c] = label
Goto(c, label) == pc' = [pc EXCEPT ![c] = label]
Set(v, c, x) == [v EXCEPT ![c] = x]

\* The call returns and its locals are gone.
Return(c) ==
  /\ Goto(c, "out")
  /\ lf' = Set(lf, c, None) /\ ld' = Set(ld, c, None)
  /\ lp' = Set(lp, c, None) /\ lfd' = Set(lfd, c, 0)

\* Mutant: strcmp is not negated.
Cached_other(p) == {d \in dentry_list : pathname[d] # p}

\* list_for_each_entry(..) strcmp: the listed dentries of a path.
Cached(p) == {d \in dentry_list : pathname[d] = p}

\* list_for_each_entry(..): the open files with a number.
Opened(n) == {f \in file_list : fd[f] = n}

--------------------------------------------------------------------------------
(***************************************************************************)
(* sys_open and vfs_open.                                                  *)
(***************************************************************************)
\* filp = kzalloc; the dentry list is searched for the path.
sys_open(c, p) ==
  /\ At(c, "out") /\ fd_count < MaxOpens
  /\ \E filp \in Obj \ flive : flive' = flive \cup {filp} /\ lf' = Set(lf, c, filp)
  /\ lp' = Set(lp, c, p)
  /\ \/ \E d \in Cached(p) : ld' = Set(ld, c, d) /\ Goto(c, "incref")
     \/ Cached(p) = {} /\ UNCHANGED ld /\ Goto(c, "create")
  /\ UNCHANGED <<onDisk, cache, table, dentry, lfd>>

\* The path is cached: one more reference.
\* Mutant: the reference is not counted.
TakeRef_not(d) == UNCHANGED d_ref

TakeRef(d) == d_ref' = [d_ref EXCEPT ![d] = @ + 1]

IncRef(c) ==
  /\ At(c, "incref")
  /\ dentry' = Set(dentry, lf[c], ld[c])
  /\ TakeRef(ld[c])
  /\ Goto(c, "fd")
  /\ UNCHANGED <<onDisk, dentry_list, pathname, fil, dlive, table, flive, local>>

\* fatfs_lookup finds no such file, or fatfs_open fails for any reason: the
\* new dentry is freed again, and sys_open frees filp.
OpenFails(c) ==
  /\ At(c, "create")
  /\ flive' = flive \ {lf[c]}
  /\ Return(c)
  /\ UNCHANGED <<onDisk, cache, table, dentry>>

\* The file exists and fatfs_open opened it.
OpenNew(c, d) ==
  /\ At(c, "create") /\ lp[c] \in onDisk /\ d \notin dlive
  /\ dlive' = dlive \cup {d} /\ fil' = fil \cup {d}
  /\ pathname' = Set(pathname, d, lp[c])
  /\ dentry' = Set(dentry, lf[c], d) /\ ld' = Set(ld, c, d)
  /\ Goto(c, "link")
  /\ UNCHANGED <<onDisk, dentry_list, d_ref, table, flive, lf, lp, lfd>>

Link(c) ==
  /\ At(c, "link")
  /\ d_ref' = Set(d_ref, ld[c], 1)
  /\ dentry_list' = dentry_list \cup {ld[c]}
  /\ Goto(c, "fd")
  /\ UNCHANGED <<onDisk, pathname, fil, dlive, table, files, local>>

\* filp->fd = fd_count++, an unlocked read and write; list_add_tail.
ReadFdCount(c) ==
  /\ At(c, "fd")
  /\ lfd' = Set(lfd, c, fd_count)
  /\ Goto(c, "add")
  /\ UNCHANGED <<onDisk, cache, table, files, lf, ld, lp>>

AddFile(c) ==
  /\ At(c, "add")
  /\ fd' = Set(fd, lf[c], lfd[c]) /\ fd_count' = lfd[c] + 1
  /\ file_list' = file_list \cup {lf[c]}
  /\ Return(c)
  /\ UNCHANGED <<onDisk, cache, files>>

--------------------------------------------------------------------------------
(***************************************************************************)
(* sys_read, sys_write and sys_sync use the FatFs object of the dentry.    *)
(***************************************************************************)
BeginIO(c, n) ==
  /\ At(c, "out")
  /\ \E f \in Opened(n) : lf' = Set(lf, c, f) /\ ld' = Set(ld, c, dentry[f])
  /\ Goto(c, "io")
  /\ UNCHANGED <<onDisk, cache, table, files, lp, lfd>>

EndIO(c) == At(c, "io") /\ Return(c) /\ UNCHANGED <<onDisk, cache, table, files>>

\* fatfs_creat: FA_CREATE_NEW, then f_close.
sys_creat(c, p) ==
  /\ At(c, "out") /\ p \notin onDisk
  /\ onDisk' = onDisk \cup {p}
  /\ UNCHANGED <<cache, table, files, pc, local>>

--------------------------------------------------------------------------------
(***************************************************************************)
(* sys_close and vfs_close.                                                *)
(***************************************************************************)
\* filp is found by its fd and its dentry's path on the dentry list.
sys_close(c, n) ==
  /\ At(c, "out")
  /\ \E f \in Opened(n) :
       /\ Cached(pathname[dentry[f]]) # {}
       /\ lf' = Set(lf, c, f) /\ ld' = Set(ld, c, dentry[f])
  /\ Goto(c, "decref")
  /\ UNCHANGED <<onDisk, cache, table, files, lp, lfd>>

DropRef(d) == d_ref' = [d_ref EXCEPT ![d] = @ - 1]

DecRef(c) ==
  /\ At(c, "decref")
  /\ DropRef(ld[c])
  /\ Goto(c, "check")
  /\ UNCHANGED <<onDisk, dentry_list, pathname, fil, dlive, table, files, local>>

\* The count is read a second time.
\* Mutant: released while one reference is left.
Unreferenced_early(d) == d_ref[d] <= 1

Unreferenced(d) == d_ref[d] = 0

CheckRef(c) ==
  /\ At(c, "check")
  /\ Goto(c, IF Unreferenced(ld[c]) THEN "release" ELSE "remove")
  /\ UNCHANGED <<onDisk, cache, table, files, local>>

\* fatfs_release, list_del, kfree of the path and of the dentry.
Release(c) ==
  LET d == ld[c] IN
  /\ At(c, "release")
  /\ fil' = fil \ {d} /\ dlive' = dlive \ {d}
  /\ dentry_list' = dentry_list \ {d} /\ pathname' = Set(pathname, d, None)
  /\ Goto(c, "remove")
  /\ UNCHANGED <<onDisk, d_ref, table, files, local>>

RemoveFile(c) ==
  /\ At(c, "remove")
  /\ file_list' = file_list \ {lf[c]}
  /\ flive' = flive \ {lf[c]} /\ dentry' = Set(dentry, lf[c], None)
  /\ Return(c)
  /\ UNCHANGED <<onDisk, cache, fd, fd_count>>

Next ==
  \E c \in Cpus :
    \/ \E p \in Path : sys_open(c, p) \/ sys_creat(c, p)
    \/ \E n \in 0 .. MaxOpens : sys_close(c, n) \/ BeginIO(c, n)
    \/ \E d \in Obj : OpenNew(c, d)
    \/ IncRef(c) \/ OpenFails(c) \/ Link(c) \/ ReadFdCount(c)
    \/ AddFile(c) \/ EndIO(c) \/ DecRef(c) \/ CheckRef(c) \/ Release(c) \/ RemoveFile(c)

Spec == Init /\ [][Next]_vars

--------------------------------------------------------------------------------
(***************************************************************************)
(* Properties.                                                             *)
(***************************************************************************)
Holders(d) == {f \in file_list : dentry[f] = d}

\* Between calls the reference count of every cached dentry is the number of
\* open files that share it and never zero, and a dentry that no open file
\* uses has been released: its FatFs object closed, its memory given back.  No
\* number stands for two open files.
RefsExact ==
  (\A c \in Cpus : pc[c] = "out") =>
    /\ \A d \in dentry_list : d_ref[d] = Cardinality(Holders(d)) /\ d_ref[d] > 0
    /\ dentry_list = dlive /\ fil = dlive /\ file_list = flive
    /\ \A f, g \in file_list : fd[f] = fd[g] => f = g

\* No open file and no call in progress refers to a dentry that was freed, or
\* to a closed FatFs object.
NoDangling ==
  /\ \A f \in file_list :
       dentry[f] \in fil \cap dlive
         \/ \E c \in Cpus : pc[c] = "remove" /\ lf[c] = f
  /\ \A c \in Cpus :
       pc[c] \in {"incref", "io", "decref", "check", "release"} =>
         ld[c] \in fil \cap dlive

\* "Search the dentry list for an existing dentry; if there is one, use it"
\* (src/fs/vfs.c:75): no path has two dentries, as long as calls of vfs_open do not
\* overlap.
OneDentryPerPath ==
  \A d, e \in dentry_list : pathname[d] = pathname[e] => d = e

================================================================================
