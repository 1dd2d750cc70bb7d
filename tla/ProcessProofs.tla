------------------------------- MODULE ProcessProofs ----------------------------
(***************************************************************************)
(* What a process has: its open files and its address space.  The file     *)
(* table and the dentry cache of src/syscalls.c and src/fs/vfs.c stay      *)
(* consistent as long as system calls come from one CPU, for any number of *)
(* paths and of open files; and the page tables of a user task translate   *)
(* its pages for any number of entries in a table.                         *)
(*                                                                         *)
(* The files' inductive invariant says what the lists, counts, names and   *)
(* numbers are at every place of a system call; the tables' that every     *)
(* level above the one filled next holds what its loop writes, and the     *)
(* rest is what quotients do: a page is in table v \div Reach[l] of level  *)
(* l.                                                                      *)
(***************************************************************************)
EXTENDS Vfs, UserSpace, FiniteSetTheorems, WellFoundedInduction, TLAPS

\* filp is allocated and not yet on file_list.
Opening(c) == pc[c] \in {"incref", "create", "link", "fd", "add"}

\* The files that d_ref counts: an open counts before its file is listed, and a
\* close stops counting before its file is taken out.
Counted(c) ==
  (file_list \cup (IF pc[c] \in {"fd", "add"} THEN {lf[c]} ELSE {}))
    \ (IF pc[c] \in {"check", "release", "remove"} THEN {lf[c]} ELSE {})

Users(c, d) == {f \in Counted(c) : dentry[f] = d}

Lists(c) ==
  /\ fil = dlive
  /\ dlive = dentry_list \cup (IF pc[c] = "link" THEN {ld[c]} ELSE {})
  /\ flive = file_list \cup (IF Opening(c) THEN {lf[c]} ELSE {})
  /\ \A f \in Counted(c) : dentry[f] \in dentry_list

Counts(c) ==
  \A d \in dentry_list :
    /\ d_ref[d] = Cardinality(Users(c, d))
    /\ Users(c, d) # {} \/ (pc[c] \in {"check", "release"} /\ ld[c] = d)

Names(c) ==
  /\ OneDentryPerPath
  /\ pc[c] = "create" => lp[c] \in Path /\ \A d \in dentry_list : pathname[d] # lp[c]
  /\ pc[c] = "link" => \A d \in dentry_list : pathname[d] # pathname[ld[c]]

Numbers(c) ==
  /\ \A f, g \in file_list : fd[f] = fd[g] => f = g
  /\ \A f \in file_list : fd[f] < fd_count
  /\ pc[c] = "add" => lfd[c] = fd_count
  /\ Opening(c) => fd_count < MaxOpens

Locals(c) ==
  /\ Opening(c) => lf[c] \in Obj \ file_list
  /\ pc[c] \in {"io", "decref", "check", "release", "remove"} => lf[c] \in file_list
  /\ pc[c] \in {"incref", "fd", "add", "io", "decref", "check", "release"} =>
       ld[c] \in dentry_list
  /\ pc[c] = "link" => ld[c] \in Obj \ dentry_list
  /\ pc[c] \in {"link", "fd", "add", "io", "decref", "check", "release"} =>
       dentry[lf[c]] = ld[c]
  /\ pc[c] = "release" => Users(c, ld[c]) = {}

\* The state of the lists, counts, names and numbers at every place of a call.
VfsInv(c) == TypeOK /\ Lists(c) /\ Counts(c) /\ Names(c) /\ Numbers(c) /\ Locals(c)

--------------------------------------------------------------------------------
(***************************************************************************)
(* Counting.                                                               *)
(***************************************************************************)
\* The files counted for a dentry are finitely many.
LEMMA UsersFinite ==
  ASSUME NEW c, Cpus = {c}, VfsInv(c), NEW d
  PROVE  IsFiniteSet(Users(c, d)) /\ Cardinality(Users(c, d)) \in Nat
         /\ (Cardinality(Users(c, d)) = 0 <=> Users(c, d) = {})
<1>1. Users(c, d) \subseteq Obj
  BY DEF VfsInv, TypeOK, Locals, Opening, Users, Counted
<1>2. IsFiniteSet(Users(c, d))
  BY <1>1, FS_Subset, VfsAssumption
<1> QED BY <1>2, FS_CardinalityType, FS_EmptySet

\* A step that counts the same files, with the same dentries, keeps the counts.
LEMMA UsersKept ==
  ASSUME NEW c, Counted(c)' = Counted(c), \A f \in Counted(c) : dentry'[f] = dentry[f]
  PROVE  \A d : Users(c, d)' = Users(c, d)
BY DEF Users

--------------------------------------------------------------------------------
(***************************************************************************)
(* One lemma per step of a call.                                           *)
(***************************************************************************)
\* sys_open allocates a file and looks the path up.
LEMMA sys_open_step ==
  ASSUME NEW c, Cpus = {c}, VfsInv(c), NEW p \in Path, sys_open(c, p)
  PROVE  VfsInv(c)'
<1>1. /\ pc[c] = "out" /\ UNCHANGED <<dentry_list, pathname, d_ref, fil, dlive>>
      /\ UNCHANGED <<file_list, fd, fd_count>> /\ dentry' = dentry
      /\ fd_count < MaxOpens /\ lf'[c] \in Obj \ flive /\ flive' = flive \cup {lf'[c]}
      /\ lp'[c] = p
      /\ \/ pc'[c] = "incref" /\ ld'[c] \in dentry_list
         \/ pc'[c] = "create" /\ \A d \in dentry_list : pathname[d] # p
  BY DEF VfsInv, TypeOK, sys_open, Cached, At, Goto, Set, cache, table
<1>2. TypeOK'
  BY <1>1 DEF VfsInv, TypeOK, Calls, sys_open, Cached, At, Goto, Set, cache, table
<1>3. Counted(c)' = Counted(c) /\ \A f \in Counted(c) : dentry'[f] = dentry[f]
  BY <1>1 DEF VfsInv, TypeOK, Locals, Lists, Opening, Counted
<1>4. \A d : Users(c, d)' = Users(c, d)
  BY <1>3, UsersKept
<1>5. Counts(c)'
  BY <1>1, <1>4 DEF VfsInv, Counts, Locals
<1>6. Lists(c)'
  BY <1>1, <1>3 DEF VfsInv, Lists, Opening
<1>7. Names(c)'
  BY <1>1 DEF VfsInv, Names, OneDentryPerPath
<1>8. Numbers(c)'
  BY <1>1 DEF VfsInv, Numbers, Opening
<1>9. Locals(c)'
  BY <1>1, <1>4 DEF VfsInv, Locals, Lists, Opening
<1> QED BY <1>2, <1>5, <1>6, <1>7, <1>8, <1>9 DEF VfsInv

\* A cached dentry gets one more user and one more reference.
LEMMA IncRef_step ==
  ASSUME NEW c, Cpus = {c}, VfsInv(c), IncRef(c)
  PROVE  VfsInv(c)'
<1>1. /\ pc[c] = "incref" /\ pc'[c] = "fd"
      /\ UNCHANGED <<dentry_list, pathname, fil, dlive, flive>>
      /\ UNCHANGED <<file_list, fd, fd_count>> /\ UNCHANGED <<lf, ld, lp, lfd>>
      /\ lf[c] \in Obj \ file_list /\ ld[c] \in dentry_list /\ ld[c] \in Obj
      /\ dentry' = [dentry EXCEPT ![lf[c]] = ld[c]]
      /\ d_ref' = [d_ref EXCEPT ![ld[c]] = d_ref[ld[c]] + 1]
  BY DEF VfsInv, TypeOK, Locals, Opening, IncRef, TakeRef, At, Goto, Set, cache, table,
     files, local
<1>2. TypeOK'
  BY <1>1 DEF VfsInv, TypeOK, Calls, IncRef, TakeRef, At, Goto, Set, cache, table, files, local
<1>3. Counted(c)' = Counted(c) \cup {lf[c]} /\ lf[c] \notin Counted(c)
      /\ dentry'[lf[c]] = ld[c] /\ \A f \in Counted(c) : dentry'[f] = dentry[f]
  BY <1>1 DEF VfsInv, TypeOK, Counted
<1>4. /\ Users(c, ld[c])' = Users(c, ld[c]) \cup {lf[c]} /\ lf[c] \notin Users(c, ld[c])
      /\ \A d \in dentry_list \ {ld[c]} : Users(c, d)' = Users(c, d)
  BY <1>1, <1>3, Zenon DEF Users
<1>5. Counts(c)'
  <2>1. Cardinality(Users(c, ld[c]) \cup {lf[c]}) = Cardinality(Users(c, ld[c])) + 1
    BY <1>4, UsersFinite, FS_AddElement, Zenon
  <2>2. ASSUME NEW d \in dentry_list
        PROVE  /\ d_ref'[d] = Cardinality(Users(c, d)')
               /\ Users(c, d)' # {}
    <3>1. CASE d = ld[c]
      BY <1>1, <1>4, <2>1, <3>1, Zenon DEF VfsInv, TypeOK, Counts
    <3>2. CASE d # ld[c]
      BY <1>1, <1>4, <3>2 DEF VfsInv, TypeOK, Counts
    <3> QED BY <3>1, <3>2
  <2> QED BY <1>1, <2>2 DEF Counts
<1>6. Lists(c)'
  BY <1>1, <1>3 DEF VfsInv, Lists, Opening
<1>7. Names(c)'
  BY <1>1 DEF VfsInv, Names, OneDentryPerPath
<1>8. Numbers(c)'
  BY <1>1 DEF VfsInv, Numbers, Opening
<1>9. Locals(c)'
  BY <1>1, <1>3 DEF VfsInv, Locals, Lists, Opening
<1> QED BY <1>2, <1>5, <1>6, <1>7, <1>8, <1>9 DEF VfsInv

\* An open that fails gives its file back.
LEMMA OpenFails_step ==
  ASSUME NEW c, Cpus = {c}, VfsInv(c), OpenFails(c)
  PROVE  VfsInv(c)'
<1>1. /\ pc[c] = "create" /\ pc'[c] = "out"
      /\ UNCHANGED <<dentry_list, pathname, d_ref, fil, dlive>>
      /\ UNCHANGED <<file_list, fd, fd_count>>
      /\ dentry' = dentry /\ lf[c] \in Obj \ file_list /\ flive' = flive \ {lf[c]}
  BY DEF VfsInv, TypeOK, Locals, Opening, OpenFails, At, Goto, Set, Return, cache, table,
     files, local
<1>2. TypeOK'
  BY <1>1, VfsAssumption DEF VfsInv, TypeOK, Calls, OpenFails, At, Goto, Set, Return, cache,
     table, files, local
<1>3. Counted(c)' = Counted(c) /\ \A f \in Counted(c) : dentry'[f] = dentry[f]
  BY <1>1, Zenon DEF VfsInv, TypeOK, Locals, Lists, Opening, Counted
<1>4. \A d : Users(c, d)' = Users(c, d)
  BY <1>3, UsersKept
<1>5. Counts(c)'
  BY <1>1, <1>4 DEF VfsInv, Counts, Locals
<1>6. Lists(c)'
  BY <1>1, <1>3 DEF VfsInv, Lists, Opening
<1>7. Names(c)'
  BY <1>1, Zenon DEF VfsInv, Names, OneDentryPerPath
<1>8. Numbers(c)'
  BY <1>1, Zenon DEF VfsInv, Numbers, Opening
<1>9. Locals(c)'
  BY <1>1, <1>4 DEF VfsInv, Locals, Lists, Opening
<1> QED BY <1>2, <1>5, <1>6, <1>7, <1>8, <1>9 DEF VfsInv

\* A path that is not cached gets a dentry of its own.
LEMMA OpenNew_step ==
  ASSUME NEW c, Cpus = {c}, VfsInv(c), NEW d \in Obj, OpenNew(c, d)
  PROVE  VfsInv(c)'
<1>1. /\ pc[c] = "create" /\ pc'[c] = "link" /\ UNCHANGED <<dentry_list, d_ref, flive>>
      /\ UNCHANGED <<file_list, fd, fd_count>>
      /\ UNCHANGED <<lf, lp, lfd>> /\ d \in Obj \ dlive /\ dlive' = dlive \cup {d}
      /\ fil' = fil \cup {d} /\ pathname' = [pathname EXCEPT ![d] = lp[c]] /\ ld'[c] = d
      /\ lf[c] \in Obj \ file_list /\ dentry' = [dentry EXCEPT ![lf[c]] = d]
  BY DEF VfsInv, TypeOK, Locals, Opening, OpenNew, At, Goto, Set, Return, cache, table,
     files, local
<1>2. TypeOK'
  BY <1>1 DEF VfsInv, TypeOK, Names, Calls, OpenNew, At, Goto, Set
<1>3. Counted(c)' = Counted(c) /\ \A f \in Counted(c) : dentry'[f] = dentry[f]
  BY <1>1, Zenon DEF VfsInv, TypeOK, Locals, Lists, Opening, Counted
<1>4. \A e : Users(c, e)' = Users(c, e)
  BY <1>3, UsersKept
<1>5. Counts(c)'
  BY <1>1, <1>4, Zenon DEF VfsInv, Counts, Locals
<1>6. Lists(c)'
  BY <1>1, <1>3 DEF VfsInv, Lists, Opening
<1>7. Names(c)'
  BY <1>1, ZenonT(40) DEF VfsInv, TypeOK, Lists, Names, OneDentryPerPath
<1>8. Numbers(c)'
  BY <1>1, Zenon DEF VfsInv, Numbers, Opening
<1>9. Locals(c)'
  BY <1>1, <1>4, Zenon DEF VfsInv, TypeOK, Locals, Lists, Opening
<1> QED BY <1>2, <1>5, <1>6, <1>7, <1>8, <1>9 DEF VfsInv

\* The new dentry is counted once and listed.
LEMMA Link_step ==
  ASSUME NEW c, Cpus = {c}, VfsInv(c), Link(c)
  PROVE  VfsInv(c)'
<1>1. /\ pc[c] = "link" /\ pc'[c] = "fd"
      /\ UNCHANGED <<pathname, fil, dlive, flive, dentry>>
      /\ UNCHANGED <<file_list, fd, fd_count>>
      /\ UNCHANGED <<lf, ld, lp, lfd>> /\ lf[c] \in Obj \ file_list
      /\ ld[c] \in Obj \ dentry_list
      /\ dentry[lf[c]] = ld[c] /\ dentry_list' = dentry_list \cup {ld[c]}
      /\ d_ref' = [d_ref EXCEPT ![ld[c]] = 1]
  BY DEF VfsInv, TypeOK, Locals, Opening, Link, At, Goto, Set, Return, cache, table, files,
     local
<1>2. TypeOK'
  BY <1>1 DEF VfsInv, TypeOK, Calls, Link, At, Goto, Set, cache, table, files, local
<1>3. Counted(c)' = Counted(c) \cup {lf[c]} /\ \A f \in Counted(c) : dentry[f] # ld[c]
  BY <1>1, Zenon DEF VfsInv, Lists, Counted
<1>4. /\ Users(c, ld[c])' = {lf[c]}
      /\ \A d \in dentry_list : Users(c, d)' = Users(c, d)
  BY <1>1, <1>3 DEF Users
<1>5. Counts(c)'
  <2>1. Cardinality({lf[c]}) = 1
    BY FS_Singleton
  <2>2. ASSUME NEW d \in dentry_list'
        PROVE  /\ d_ref'[d] = Cardinality(Users(c, d)')
               /\ Users(c, d)' # {}
    <3>1. CASE d = ld[c]
      BY <1>1, <1>4, <2>1, <3>1, Zenon DEF VfsInv, TypeOK
    <3>2. CASE d # ld[c]
      BY <1>1, <1>4, <3>2 DEF VfsInv, TypeOK, Counts
    <3> QED BY <3>1, <3>2
  <2> QED BY <1>1, <2>2 DEF Counts
<1>6. Lists(c)'
  BY <1>1, <1>3 DEF VfsInv, Lists, Opening
<1>7. Names(c)'
  BY <1>1, ZenonT(40) DEF VfsInv, Names, OneDentryPerPath
<1>8. Numbers(c)'
  BY <1>1, Zenon DEF VfsInv, Numbers, Opening
<1>9. Locals(c)'
  BY <1>1, <1>4, Zenon DEF VfsInv, Locals, Lists, Opening
<1> QED BY <1>2, <1>5, <1>6, <1>7, <1>8, <1>9 DEF VfsInv

\* The number of the file is read.
LEMMA ReadFdCount_step ==
  ASSUME NEW c, Cpus = {c}, VfsInv(c), ReadFdCount(c)
  PROVE  VfsInv(c)'
<1>1. /\ pc[c] = "fd" /\ pc'[c] = "add"
      /\ UNCHANGED <<dentry_list, pathname, d_ref, fil, dlive>>
      /\ UNCHANGED <<file_list, fd, fd_count>>
      /\ UNCHANGED <<flive, dentry>> /\ UNCHANGED <<lf, ld, lp>> /\ lfd'[c] = fd_count
  BY DEF VfsInv, TypeOK, Locals, Opening, ReadFdCount, At, Goto, Set, Return, cache, table,
     files, local
<1>2. TypeOK'
  BY <1>1, VfsAssumption DEF VfsInv, TypeOK, Calls, ReadFdCount, At, Goto, Set, Return,
     cache, table, files, local
<1>3. Counted(c)' = Counted(c) /\ \A f \in Counted(c) : dentry'[f] = dentry[f]
  BY <1>1, Zenon DEF VfsInv, TypeOK, Locals, Lists, Opening, Counted
<1>4. \A d : Users(c, d)' = Users(c, d)
  BY <1>3, UsersKept
<1>5. Counts(c)'
  BY <1>1, <1>4, Zenon DEF VfsInv, Counts, Locals
<1>6. Lists(c)'
  BY <1>1, <1>3, Zenon DEF VfsInv, Lists, Opening
<1>7. Names(c)'
  BY <1>1, Zenon DEF VfsInv, Names, OneDentryPerPath
<1>8. Numbers(c)'
  BY <1>1, Zenon DEF VfsInv, Numbers, Opening
<1>9. Locals(c)'
  BY <1>1, <1>4, Zenon DEF VfsInv, Locals, Lists, Opening
<1> QED BY <1>2, <1>5, <1>6, <1>7, <1>8, <1>9 DEF VfsInv

\* The file gets the number and is listed.
LEMMA AddFile_step ==
  ASSUME NEW c, Cpus = {c}, VfsInv(c), AddFile(c)
  PROVE  VfsInv(c)'
<1>1. /\ pc[c] = "add" /\ pc'[c] = "out"
      /\ UNCHANGED <<dentry_list, pathname, d_ref, fil, dlive>> /\ UNCHANGED <<flive, dentry>>
      /\ lf[c] \in Obj \ file_list /\ file_list' = file_list \cup {lf[c]}
      /\ fd' = [fd EXCEPT ![lf[c]] = fd_count] /\ fd_count' = fd_count + 1
      /\ fd_count \in 0 .. MaxOpens /\ fd_count < MaxOpens
  BY Zenon DEF VfsInv, TypeOK, Locals, Numbers, Opening, AddFile, At, Goto, Set, Return, cache,
     table, files, local
<1>2. TypeOK'
  BY <1>1, VfsAssumption DEF VfsInv, TypeOK, Calls, AddFile, At, Goto, Set, Return, cache, files
<1>3. Counted(c)' = Counted(c) /\ \A f \in Counted(c) : dentry'[f] = dentry[f]
  BY <1>1, Zenon DEF VfsInv, TypeOK, Locals, Lists, Opening, Counted
<1>4. \A d : Users(c, d)' = Users(c, d)
  BY <1>3, UsersKept
<1>5. Counts(c)'
  BY <1>1, <1>4, Zenon DEF VfsInv, Counts, Locals
<1>6. Lists(c)'
  BY <1>1, <1>3, Zenon DEF VfsInv, Lists, Opening
<1>7. Names(c)'
  BY <1>1, Zenon DEF VfsInv, Names, OneDentryPerPath
<1>8. Numbers(c)'
  BY <1>1, VfsAssumption DEF VfsInv, TypeOK, Numbers, Opening
<1>9. Locals(c)'
  BY <1>1, <1>4, Zenon DEF VfsInv, Locals, Lists, Opening
<1> QED BY <1>2, <1>5, <1>6, <1>7, <1>8, <1>9 DEF VfsInv

\* A call on an open file starts.
LEMMA BeginIO_step ==
  ASSUME NEW c, Cpus = {c}, VfsInv(c), NEW n, BeginIO(c, n)
  PROVE  VfsInv(c)'
<1>1. /\ pc[c] = "out" /\ pc'[c] = "io"
      /\ UNCHANGED <<dentry_list, pathname, d_ref, fil, dlive>>
      /\ UNCHANGED <<file_list, fd, fd_count>>
      /\ UNCHANGED <<flive, dentry>> /\ lf'[c] \in file_list /\ ld'[c] = dentry[lf'[c]]
  BY DEF VfsInv, TypeOK, BeginIO, Opened, At, Goto, Set, cache, table, files
<1>2. TypeOK'
  BY DEF VfsInv, TypeOK, Calls, BeginIO, Opened, At, Goto, Set, cache, table, files
<1>3. Counted(c)' = Counted(c) /\ \A f \in Counted(c) : dentry'[f] = dentry[f]
  BY <1>1, Zenon DEF VfsInv, TypeOK, Locals, Lists, Opening, Counted
<1>4. \A d : Users(c, d)' = Users(c, d)
  BY <1>3, UsersKept, Zenon
<1>5. Counts(c)'
  BY <1>1, <1>4, Zenon DEF VfsInv, Counts, Locals
<1>6. Lists(c)'
  BY <1>1, <1>3, Zenon DEF VfsInv, Lists, Opening
<1>7. Names(c)'
  BY <1>1, Zenon DEF VfsInv, Names, OneDentryPerPath
<1>8. Numbers(c)'
  BY <1>1, Zenon DEF VfsInv, Numbers, Opening
<1>9. Locals(c)'
  BY <1>1, <1>4, Zenon DEF VfsInv, Locals, Lists, Counted, Opening
<1> QED BY <1>2, <1>5, <1>6, <1>7, <1>8, <1>9 DEF VfsInv

\* It ends.
LEMMA EndIO_step ==
  ASSUME NEW c, Cpus = {c}, VfsInv(c), EndIO(c)
  PROVE  VfsInv(c)'
<1>1. /\ pc[c] = "io" /\ pc'[c] = "out"
      /\ UNCHANGED <<dentry_list, pathname, d_ref, fil, dlive>>
      /\ UNCHANGED <<file_list, fd, fd_count>> /\ UNCHANGED <<flive, dentry>>
  BY Zenon DEF VfsInv, TypeOK, Locals, Opening, EndIO, At, Goto, Set, Return, cache, table,
     files, local
<1>2. TypeOK'
  BY <1>1, VfsAssumption DEF VfsInv, TypeOK, Calls, EndIO, At, Goto, Set, Return, cache,
     table, files, local
<1>3. Counted(c)' = Counted(c) /\ \A f \in Counted(c) : dentry'[f] = dentry[f]
  BY <1>1, Zenon DEF VfsInv, TypeOK, Locals, Lists, Opening, Counted
<1>4. \A d : Users(c, d)' = Users(c, d)
  BY <1>3, UsersKept
<1>5. Counts(c)'
  BY <1>1, <1>4, Zenon DEF VfsInv, Counts, Locals
<1>6. Lists(c)'
  BY <1>1, <1>3, Zenon DEF VfsInv, Lists, Opening
<1>7. Names(c)'
  BY <1>1, Zenon DEF VfsInv, Names, OneDentryPerPath
<1>8. Numbers(c)'
  BY <1>1, Zenon DEF VfsInv, Numbers, Opening
<1>9. Locals(c)'
  BY <1>1, <1>4, Zenon DEF VfsInv, Locals, Lists, Opening
<1> QED BY <1>2, <1>5, <1>6, <1>7, <1>8, <1>9 DEF VfsInv

\* A file is created on the volume.
LEMMA sys_creat_step ==
  ASSUME NEW c, Cpus = {c}, VfsInv(c), NEW p \in Path, sys_creat(c, p)
  PROVE  VfsInv(c)'
<1>1. /\ pc[c] = "out" /\ UNCHANGED <<pc, lf, ld, lp, lfd>>
      /\ UNCHANGED <<dentry_list, pathname, d_ref, fil, dlive>>
      /\ UNCHANGED <<file_list, fd, fd_count>> /\ UNCHANGED <<flive, dentry>>
  BY DEF VfsInv, TypeOK, Locals, Opening, sys_creat, At, Goto, Set, Return, cache, table,
     files, local
<1>2. TypeOK'
  BY <1>1, VfsAssumption DEF VfsInv, TypeOK, Calls, sys_creat, At, Goto, Set, Return, cache,
     table, files, local
<1>3. Counted(c)' = Counted(c) /\ \A f \in Counted(c) : dentry'[f] = dentry[f]
  BY <1>1, Zenon DEF VfsInv, TypeOK, Locals, Lists, Opening, Counted
<1>4. \A d : Users(c, d)' = Users(c, d)
  BY <1>3, UsersKept
<1>5. Counts(c)'
  BY <1>1, <1>4, Zenon DEF VfsInv, Counts, Locals
<1>6. Lists(c)'
  BY <1>1, <1>3, Zenon DEF VfsInv, Lists, Opening
<1>7. Names(c)'
  BY <1>1, Zenon DEF VfsInv, Names, OneDentryPerPath
<1>8. Numbers(c)'
  BY <1>1, Zenon DEF VfsInv, Numbers, Opening
<1>9. Locals(c)'
  BY <1>1, <1>4, Zenon DEF VfsInv, Locals, Lists, Opening
<1> QED BY <1>2, <1>5, <1>6, <1>7, <1>8, <1>9 DEF VfsInv

\* A close finds its file.
LEMMA sys_close_step ==
  ASSUME NEW c, Cpus = {c}, VfsInv(c), NEW n, sys_close(c, n)
  PROVE  VfsInv(c)'
<1>1. /\ pc[c] = "out" /\ pc'[c] = "decref"
      /\ UNCHANGED <<dentry_list, pathname, d_ref, fil, dlive>>
      /\ UNCHANGED <<file_list, fd, fd_count>>
      /\ UNCHANGED <<flive, dentry>> /\ lf'[c] \in file_list /\ ld'[c] = dentry[lf'[c]]
  BY DEF VfsInv, TypeOK, sys_close, Opened, At, Goto, Set, cache, table, files
<1>2. TypeOK'
  BY DEF VfsInv, TypeOK, Calls, sys_close, Opened, At, Goto, Set, cache, table, files
<1>3. Counted(c)' = Counted(c) /\ \A f \in Counted(c) : dentry'[f] = dentry[f]
  BY <1>1, Zenon DEF VfsInv, TypeOK, Locals, Lists, Opening, Counted
<1>4. \A d : Users(c, d)' = Users(c, d)
  BY <1>3, UsersKept, Zenon
<1>5. Counts(c)'
  BY <1>1, <1>4, Zenon DEF VfsInv, Counts, Locals
<1>6. Lists(c)'
  BY <1>1, <1>3, Zenon DEF VfsInv, Lists, Opening
<1>7. Names(c)'
  BY <1>1, Zenon DEF VfsInv, Names, OneDentryPerPath
<1>8. Numbers(c)'
  BY <1>1, Zenon DEF VfsInv, Numbers, Opening
<1>9. Locals(c)'
  BY <1>1, <1>4, Zenon DEF VfsInv, Locals, Lists, Counted, Opening
<1> QED BY <1>2, <1>5, <1>6, <1>7, <1>8, <1>9 DEF VfsInv

\* A close takes its reference back, and its file is not counted any more.
LEMMA DecRef_step ==
  ASSUME NEW c, Cpus = {c}, VfsInv(c), DecRef(c)
  PROVE  VfsInv(c)'
<1>1. /\ pc[c] = "decref" /\ pc'[c] = "check"
      /\ UNCHANGED <<dentry_list, pathname, fil, dlive>>
      /\ UNCHANGED <<file_list, fd, fd_count>>
      /\ UNCHANGED <<flive, dentry>> /\ UNCHANGED <<lf, ld, lp, lfd>>
      /\ lf[c] \in file_list /\ ld[c] \in dentry_list /\ dentry[lf[c]] = ld[c]
      /\ d_ref' = [d_ref EXCEPT ![ld[c]] = d_ref[ld[c]] - 1]
  BY Zenon DEF VfsInv, TypeOK, Locals, DecRef, DropRef, At, Goto, cache, table, files, local
<1>2. TypeOK'
  BY <1>1 DEF VfsInv, TypeOK, Calls, DecRef, DropRef, At, Goto, cache, table, files, local
<1>3. Counted(c)' = Counted(c) \ {lf[c]} /\ lf[c] \in Counted(c)
  BY <1>1, Zenon DEF VfsInv, Counted
<1>4. /\ Users(c, ld[c])' = Users(c, ld[c]) \ {lf[c]} /\ lf[c] \in Users(c, ld[c])
      /\ \A d \in dentry_list \ {ld[c]} : Users(c, d)' = Users(c, d)
  BY <1>1, <1>3, Zenon DEF Users
<1>5. Counts(c)'
  <2>1. Cardinality(Users(c, ld[c]) \ {lf[c]}) = Cardinality(Users(c, ld[c])) - 1
    BY <1>4, UsersFinite, FS_RemoveElement, Zenon
  <2>2. ASSUME NEW d \in dentry_list
        PROVE  /\ d_ref'[d] = Cardinality(Users(c, d)')
               /\ Users(c, d)' # {} \/ ld[c] = d
    <3>1. CASE d = ld[c]
      BY <1>1, <1>4, <2>1, <3>1, Zenon DEF VfsInv, TypeOK, Counts
    <3>2. CASE d # ld[c]
      BY <1>1, <1>4, <3>2, Zenon DEF VfsInv, TypeOK, Counts
    <3> QED BY <3>1, <3>2
  <2> QED BY <1>1, <2>2, Zenon DEF Counts
<1>6. Lists(c)'
  BY <1>1, <1>3, Zenon DEF VfsInv, Lists, Opening
<1>7. Names(c)'
  BY <1>1, Zenon DEF VfsInv, Names, OneDentryPerPath
<1>8. Numbers(c)'
  BY <1>1, Zenon DEF VfsInv, Numbers, Opening
<1>9. Locals(c)'
  BY <1>1, Zenon DEF VfsInv, Locals, Opening
<1> QED BY <1>2, <1>5, <1>6, <1>7, <1>8, <1>9 DEF VfsInv

\* A close decides by the count whether it was the last.
LEMMA CheckRef_step ==
  ASSUME NEW c, Cpus = {c}, VfsInv(c), CheckRef(c)
  PROVE  VfsInv(c)'
<1>1. /\ pc[c] = "check" /\ UNCHANGED <<dentry_list, pathname, d_ref, fil, dlive>>
      /\ UNCHANGED <<file_list, fd, fd_count>>
      /\ UNCHANGED <<flive, dentry>> /\ UNCHANGED <<lf, ld, lp, lfd>>
      /\ lf[c] \in file_list /\ ld[c] \in dentry_list
      /\ \/ pc'[c] = "release" /\ d_ref[ld[c]] = 0
         \/ pc'[c] = "remove" /\ d_ref[ld[c]] # 0
  BY Zenon DEF VfsInv, TypeOK, Locals, CheckRef, Unreferenced, At, Goto, cache, table, files,
     local
<1>2. TypeOK'
  BY DEF VfsInv, TypeOK, Calls, CheckRef, At, Goto, cache, table, files, local
<1>2a. d_ref[ld[c]] = 0 <=> Users(c, ld[c]) = {}
  BY <1>1, UsersFinite, ZenonT(60) DEF VfsInv, Counts
<1>3. Counted(c)' = Counted(c) /\ \A f \in Counted(c) : dentry'[f] = dentry[f]
  BY <1>1, Zenon DEF VfsInv, TypeOK, Locals, Lists, Opening, Counted
<1>4. \A d : Users(c, d)' = Users(c, d)
  BY <1>3, UsersKept
<1>5. Counts(c)'
  BY <1>1, <1>2a, <1>4, ZenonT(40) DEF VfsInv, Counts
<1>6. Lists(c)'
  BY <1>1, <1>3, Zenon DEF VfsInv, Lists, Opening
<1>7. Names(c)'
  BY <1>1, Zenon DEF VfsInv, Names, OneDentryPerPath
<1>8. Numbers(c)'
  BY <1>1, Zenon DEF VfsInv, Numbers, Opening
<1>9. Locals(c)'
  BY <1>1, <1>2a, <1>4, Zenon DEF VfsInv, Locals, Opening
<1> QED BY <1>2, <1>5, <1>6, <1>7, <1>8, <1>9 DEF VfsInv

\* The last close releases the dentry, which nobody else uses.
LEMMA Release_step ==
  ASSUME NEW c, Cpus = {c}, VfsInv(c), Release(c)
  PROVE  VfsInv(c)'
<1>1. /\ pc[c] = "release" /\ pc'[c] = "remove" /\ UNCHANGED d_ref
      /\ UNCHANGED <<file_list, fd, fd_count>>
      /\ UNCHANGED <<flive, dentry>> /\ UNCHANGED <<lf, ld, lp, lfd>>
      /\ lf[c] \in file_list /\ ld[c] \in dentry_list /\ Users(c, ld[c]) = {}
      /\ fil' = fil \ {ld[c]} /\ dlive' = dlive \ {ld[c]} /\ dentry_list' = dentry_list \ {ld[c]}
      /\ pathname' = [pathname EXCEPT ![ld[c]] = None]
  BY Zenon DEF VfsInv, TypeOK, Locals, Opening, Release, At, Goto, Set, Return, cache, table,
     files, local
<1>2. TypeOK'
  BY <1>1, VfsAssumption, Zenon DEF VfsInv, TypeOK, Calls, Release, At, Goto, Set, Return,
     cache, table, files, local
<1>3. Counted(c)' = Counted(c) /\ \A f \in Counted(c) : dentry'[f] = dentry[f]
  BY <1>1, Zenon DEF VfsInv, TypeOK, Locals, Lists, Opening, Counted
<1>4. \A d : Users(c, d)' = Users(c, d)
  BY <1>3, UsersKept
<1>5. Counts(c)'
  BY <1>1, <1>4, Zenon DEF VfsInv, Counts, Locals
<1>6. Lists(c)'
  BY <1>1, <1>3, Zenon DEF VfsInv, Lists, Opening, Users
<1>7. Names(c)'
  BY <1>1, ZenonT(60) DEF VfsInv, TypeOK, Names, OneDentryPerPath
<1>8. Numbers(c)'
  BY <1>1, Zenon DEF VfsInv, Numbers, Opening
<1>9. Locals(c)'
  BY <1>1, <1>4, Zenon DEF VfsInv, Locals, Lists, Opening
<1> QED BY <1>2, <1>5, <1>6, <1>7, <1>8, <1>9 DEF VfsInv

\* The closed file is taken out and freed.
LEMMA RemoveFile_step ==
  ASSUME NEW c, Cpus = {c}, VfsInv(c), RemoveFile(c)
  PROVE  VfsInv(c)'
<1>1. /\ pc[c] = "remove" /\ pc'[c] = "out"
      /\ UNCHANGED <<dentry_list, pathname, d_ref, fil, dlive>>
      /\ UNCHANGED <<fd, fd_count>> /\ lf[c] \in file_list
      /\ file_list' = file_list \ {lf[c]} /\ flive' = flive \ {lf[c]}
      /\ dentry' = [dentry EXCEPT ![lf[c]] = None]
  BY Zenon DEF VfsInv, TypeOK, Locals, Opening, RemoveFile, At, Goto, Set, Return, cache, table,
     files, local
<1>2. TypeOK'
  BY <1>1, VfsAssumption DEF VfsInv, TypeOK, Calls, RemoveFile, At, Goto, Set, Return, cache,
     table, files, local
<1>3. Counted(c)' = Counted(c) /\ \A f \in Counted(c) : dentry'[f] = dentry[f]
  BY <1>1, Zenon DEF VfsInv, TypeOK, Locals, Lists, Opening, Counted
<1>4. \A d : Users(c, d)' = Users(c, d)
  BY <1>3, UsersKept
<1>5. Counts(c)'
  BY <1>1, <1>4, Zenon DEF VfsInv, Counts, Locals
<1>6. Lists(c)'
  <2>1. \A f \in Counted(c)' : dentry'[f] \in dentry_list'
    <3>1. \A f \in Counted(c) : dentry[f] \in dentry_list
      BY Zenon DEF VfsInv, Lists
    <3>2. dentry_list' = dentry_list
      BY <1>1
    <3> QED BY <1>3, <3>1, <3>2
  <2>2. flive' = file_list'
    BY <1>1, Zenon DEF VfsInv, Lists, Opening
  <2> QED BY <1>1, <2>1, <2>2, Zenon DEF VfsInv, Lists, Opening
<1>7. Names(c)'
  BY <1>1, Zenon DEF VfsInv, Names, OneDentryPerPath
<1>8. Numbers(c)'
  BY <1>1, Zenon DEF VfsInv, Numbers, Opening
<1>9. Locals(c)'
  BY <1>1, <1>4, Zenon DEF VfsInv, Locals, Lists, Opening
<1> QED BY <1>2, <1>5, <1>6, <1>7, <1>8, <1>9 DEF VfsInv

--------------------------------------------------------------------------------
(***************************************************************************)
(* The invariant and what follows from it.                                 *)
(***************************************************************************)
\* The lists, counts, names and numbers fit together at every place of every call,
\* if one CPU makes the calls.
THEOREM VfsInvariant ==
  ASSUME NEW CONSTANT c, Cpus = {c}
  PROVE  Spec => []VfsInv(c)
<1>1. Init => VfsInv(c)
  <2> SUFFICES ASSUME Init PROVE VfsInv(c)
    OBVIOUS
  <2>1. TypeOK
    BY VfsAssumption DEF Init, TypeOK, Calls
  <2>2. pc[c] = "out"
    BY DEF Init
  <2> QED BY <2>1, <2>2, Zenon DEF Init, VfsInv, Lists, Counts, Names, Numbers, Locals, Counted,
             Opening, OneDentryPerPath
<1>2. VfsInv(c) /\ [Next]_vars => VfsInv(c)'
  <2> SUFFICES ASSUME VfsInv(c), [Next]_vars PROVE VfsInv(c)'
    OBVIOUS
  <2>1. ASSUME NEW p \in Path, sys_open(c, p) PROVE VfsInv(c)'
    BY <2>1, sys_open_step
  <2>2. ASSUME NEW p \in Path, sys_creat(c, p) PROVE VfsInv(c)'
    BY <2>2, sys_creat_step
  <2>3. ASSUME NEW n \in 0 .. MaxOpens, sys_close(c, n) PROVE VfsInv(c)'
    BY <2>3, sys_close_step
  <2>4. ASSUME NEW n \in 0 .. MaxOpens, BeginIO(c, n) PROVE VfsInv(c)'
    BY <2>4, BeginIO_step
  <2>5. ASSUME NEW d \in Obj, OpenNew(c, d) PROVE VfsInv(c)'
    BY <2>5, OpenNew_step
  <2>6. CASE IncRef(c)
    BY <2>6, IncRef_step
  <2>7. CASE OpenFails(c)
    BY <2>7, OpenFails_step
  <2>8. CASE Link(c)
    BY <2>8, Link_step
  <2>9. CASE ReadFdCount(c)
    BY <2>9, ReadFdCount_step
  <2>10. CASE AddFile(c)
    BY <2>10, AddFile_step
  <2>11. CASE EndIO(c)
    BY <2>11, EndIO_step
  <2>12. CASE DecRef(c)
    BY <2>12, DecRef_step
  <2>13. CASE CheckRef(c)
    BY <2>13, CheckRef_step
  <2>14. CASE Release(c)
    BY <2>14, Release_step
  <2>15. CASE RemoveFile(c)
    BY <2>15, RemoveFile_step
  <2>16. CASE UNCHANGED vars
    <3>1. UNCHANGED <<onDisk, dentry_list, pathname, d_ref, fil, dlive, file_list, fd, fd_count,
                      flive, dentry, pc, lf, ld, lp, lfd>>
      BY <2>16 DEF vars, cache, table, files, local
    <3>2. Counted(c)' = Counted(c) /\ \A d : Users(c, d)' = Users(c, d)
      BY <3>1, Zenon DEF Counted, Users
    <3> QED BY <3>1, <3>2, ZenonT(60) DEF VfsInv, TypeOK, Lists, Counts, Names, Numbers, Locals,
               Opening, OneDentryPerPath
  <2> QED BY <2>1, <2>2, <2>3, <2>4, <2>5, <2>6, <2>7, <2>8, <2>9, <2>10, <2>11, <2>12, <2>13,
             <2>14, <2>15, <2>16, Zenon DEF Next
<1> QED BY <1>1, <1>2, PTL DEF Spec

\* Between calls reference counts are exact, what nobody uses has been released,
\* and no number stands for two files, however many there are.
THEOREM CountsExact ==
  ASSUME NEW CONSTANT c, Cpus = {c}
  PROVE  Spec => []RefsExact
<1>1. VfsInv(c) => RefsExact
  <2> SUFFICES ASSUME VfsInv(c), pc[c] = "out" PROVE RefsExact
    BY DEF RefsExact
  <2>1. \A d \in dentry_list : Users(c, d) = Holders(d)
    BY Zenon DEF Users, Counted, Holders
  <2>2. ASSUME NEW d \in dentry_list
        PROVE  d_ref[d] = Cardinality(Holders(d)) /\ d_ref[d] > 0
    <3>1. d_ref[d] = Cardinality(Users(c, d)) /\ Users(c, d) # {}
      BY Zenon DEF VfsInv, Counts
    <3>2. Cardinality(Users(c, d)) \in Nat /\ Cardinality(Users(c, d)) # 0
      BY <3>1, UsersFinite
    <3> QED BY <2>1, <3>1, <3>2
  <2> QED BY <2>2, Zenon DEF RefsExact, VfsInv, Lists, Numbers, Opening
<1> QED BY <1>1, VfsInvariant, PTL

\* No open file and no call in progress refers to freed memory.
THEOREM NothingDangles ==
  ASSUME NEW CONSTANT c, Cpus = {c}
  PROVE  Spec => []NoDangling
<1>1. VfsInv(c) => NoDangling
  BY Zenon DEF VfsInv, TypeOK, Calls, Lists, Locals, Counted, NoDangling
<1> QED BY <1>1, VfsInvariant, PTL

\* vfs_open finds the dentry of a path if there is one: no path has two.
THEOREM PathsShared ==
  ASSUME NEW CONSTANT c, Cpus = {c}
  PROVE  Spec => []OneDentryPerPath
<1>1. VfsInv(c) => OneDentryPerPath
  BY DEF VfsInv, Names
<1> QED BY <1>1, VfsInvariant, PTL

--------------------------------------------------------------------------------
(***************************************************************************)
(* Quotient and remainder.                                                 *)
(***************************************************************************)
\* Every set of numbers that is not empty has a least one.
LEMMA LeastNat ==
  ASSUME NEW T, T \subseteq Nat, T # {}
  PROVE  \E x \in T : \A y \in T : x <= y
<1> DEFINE R == OpToRel(<, Nat)
<1>1. IsWellFoundedOn(R, Nat)
  BY NatLessThanWellFounded, Zenon
<1>2. \A x, y \in Nat : x < y => <<x, y>> \in R
  BY DEF OpToRel
<1> HIDE DEF R
<1>3. PICK x \in T : \A y \in T : <<y, x>> \notin R
  BY <1>1, WFMin, Zenon
<1>4. \A y \in T : ~(y < x)
  BY <1>2, <1>3, Zenon
<1> QED BY <1>4

\* A word starts where the one before it ends.
LEMMA WordStep ==
  ASSUME NEW w \in Nat, w > 0, NEW i \in Nat, NEW j \in Nat, i < j
  PROVE  i * w + w <= j * w
OBVIOUS

\* Quotient and remainder make up the number.
LEMMA Parts ==
  ASSUME NEW w \in Nat, w > 0, NEW b \in Nat
  PROVE  b = w * (b \div w) + (b % w)
OBVIOUS

\* Quotient and remainder.
LEMMA Divided ==
  ASSUME NEW w \in Nat, w > 0, NEW b \in Nat
  PROVE  b \div w \in Nat /\ b % w \in 0 .. w - 1 /\ b = (b \div w) * w + (b % w)
<1>1. b % w \in 0 .. w - 1
  OBVIOUS
<1>2. b \div w \in Int /\ b \div w >= 0
  OBVIOUS
<1>3. b = w * (b \div w) + (b % w)
  BY Parts
<1>4. w * (b \div w) = (b \div w) * w
  BY <1>2
<1> QED BY <1>1, <1>2, <1>3, <1>4

\* They are the only ones.
LEMMA OneQuotient ==
  ASSUME NEW w \in Nat, w > 0, NEW i \in Nat, NEW j \in Nat,
         NEW r \in 0 .. w - 1, NEW s \in 0 .. w - 1, i * w + r = j * w + s
  PROVE  i = j /\ r = s
<1>1. CASE i < j
  BY WordStep, <1>1
<1>2. CASE j < i
  BY WordStep, <1>2
<1> QED BY <1>1, <1>2

--------------------------------------------------------------------------------
(***************************************************************************)
(* The page tables of a user task.                                         *)
(***************************************************************************)
\* Each level reaches E times as far as the one below it.
LEMMA ReachIs ==
  /\ Reach[0] = 1
  /\ \A l \in Level : Reach[l] = E * Reach[l - 1]
<1> DEFINE F(f, l) == IF l = 0 THEN 1 ELSE E * f[l - 1]
           e == [l \in 0 .. 4 |-> IF l = 0 THEN 1 ELSE IF l = 1 THEN E * 1 ELSE IF l = 2 THEN E * (E * 1)
                                  ELSE IF l = 3 THEN E * (E * (E * 1)) ELSE E * (E * (E * (E * 1)))]
<1>1. ASSUME NEW l \in 0 .. 4
      PROVE  e[l] = F(e, l)
  <2>1. l = 0 \/ l = 1 \/ l = 2 \/ l = 3 \/ l = 4
    OBVIOUS
  <2> QED BY <2>1
<1>2. e = [l \in 0 .. 4 |-> F(e, l)]
  BY <1>1, Zenon
<1> HIDE DEF e
<1>3. \E f : f = [l \in 0 .. 4 |-> F(f, l)]
  BY <1>2, Zenon
<1>4. Reach = [l \in 0 .. 4 |-> F(Reach, l)]
  BY <1>3, Zenon DEF Reach
<1>5. \A l \in 0 .. 4 : Reach[l] = F(Reach, l)
  BY <1>4, Zenon
<1>6. 0 \in 0 .. 4 /\ \A l \in Level : l \in 0 .. 4 /\ l # 0
  BY DEF Level
<1> QED BY <1>5, <1>6, Zenon

\* A product of positive numbers.
LEMMA Product ==
  ASSUME NEW a \in Nat, a > 0, NEW b \in Nat, b > 0
  PROVE  a * b \in Nat /\ a * b > 0
OBVIOUS

\* The reach of a level is a number.
LEMMA ReachNat == \A l \in 0 .. 4 : Reach[l] \in Nat /\ Reach[l] > 0
<1>1. E \in Nat /\ E > 0
  BY SpaceAssumption
<1>2. Reach[0] \in Nat /\ Reach[0] > 0
  BY ReachIs
<1>3. ASSUME NEW l \in Level, Reach[l - 1] \in Nat, Reach[l - 1] > 0
      PROVE  Reach[l] \in Nat /\ Reach[l] > 0
  <2>1. E * Reach[l - 1] \in Nat /\ E * Reach[l - 1] > 0
    BY <1>1, <1>3, Product, Zenon
  <2> QED BY <2>1, ReachIs, Zenon
<1>4. Reach[1] \in Nat /\ Reach[1] > 0
  BY <1>2, <1>3 DEF Level
<1>5. Reach[2] \in Nat /\ Reach[2] > 0
  BY <1>4, <1>3 DEF Level
<1>6. Reach[3] \in Nat /\ Reach[3] > 0
  BY <1>5, <1>3 DEF Level
<1>7. Reach[4] \in Nat /\ Reach[4] > 0
  BY <1>6, <1>3 DEF Level
<1>8. \A l \in 0 .. 4 : l = 0 \/ l = 1 \/ l = 2 \/ l = 3 \/ l = 4
  OBVIOUS
<1> QED BY <1>2, <1>4, <1>5, <1>6, <1>7, <1>8, Zenon

\* A product grows with its factor.
LEMMA TimesOrder ==
  ASSUME NEW a \in Nat, NEW b \in Nat, a <= b, NEW c \in Nat
  PROVE  a * c <= b * c
OBVIOUS

\* The quotient of a number with its parts given.
LEMMA QuotientIs ==
  ASSUME NEW w \in Nat, w > 0, NEW b \in Nat, NEW q \in Nat, NEW r \in 0 .. w - 1, b = q * w + r
  PROVE  b \div w = q /\ b % w = r
<1>1. b \div w \in Nat /\ b % w \in 0 .. w - 1 /\ b = (b \div w) * w + (b % w)
  BY Divided, Zenon
<1>2. PICK i, t : i = b \div w /\ t = b % w
  BY Zenon
<1>3. i \in Nat /\ t \in 0 .. w - 1 /\ i * w + t = q * w + r
  BY <1>1, <1>2, Zenon
<1>4. i = q /\ t = r
  BY <1>3, OneQuotient
<1> QED BY <1>2, <1>4, Zenon

\* What is left of a division below the product.
LEMMA InnerRest ==
  ASSUME NEW c \in Nat, c > 0, NEW e \in Nat, NEW q \in 0 .. e - 1, NEW r \in 0 .. c - 1
  PROVE  q * c + r \in 0 .. (e * c) - 1
<1>1. q * c + c <= e * c
  BY WordStep
<1>2. q * c \in Nat /\ e * c \in Nat
  OBVIOUS
<1> QED BY <1>1, <1>2

\* Dividing twice is dividing by the product.
LEMMA DivideTwice ==
  ASSUME NEW c \in Nat, c > 0, NEW e \in Nat, e > 0, NEW v \in Nat
  PROVE  v \div (e * c) = (v \div c) \div e
<1>1. PICK a, r : a = v \div c /\ r = v % c
  BY Zenon
<1>2. a \in Nat /\ r \in 0 .. c - 1 /\ v = a * c + r
  BY <1>1, Divided, Zenon
<1>3. PICK b, q : b = a \div e /\ q = a % e
  BY Zenon
<1>4. b \in Nat /\ q \in 0 .. e - 1 /\ a = b * e + q
  BY <1>2, <1>3, Divided, Zenon
<1>5. q * c + r \in 0 .. (e * c) - 1
  BY <1>2, <1>4, InnerRest, Zenon
<1>6. v = b * (e * c) + (q * c + r)
  <2>1. a * c = (b * e + q) * c
    BY <1>4, Zenon
  <2>2. (b * e + q) * c = b * (e * c) + q * c
    BY <1>4
  <2>3. b * (e * c) \in Int /\ q * c \in Int /\ r \in Int
    BY <1>2, <1>4
  <2>4. v = (b * (e * c) + q * c) + r
    BY <1>2, <2>1, <2>2, Zenon
  <2> QED BY <2>3, <2>4
<1>7. e * c \in Nat /\ e * c > 0
  BY Product, Zenon
<1>8. v \div (e * c) = b
  <2>1. PICK w, t : w = e * c /\ t = q * c + r
    BY Zenon
  <2>2. w \in Nat /\ w > 0 /\ t \in 0 .. w - 1 /\ v = b * w + t
    BY <1>5, <1>6, <1>7, <2>1, Zenon
  <2>3. v \div w = b
    BY <1>4, <2>2, QuotientIs, Zenon
  <2> QED BY <2>1, <2>3, Zenon
<1> QED BY <1>1, <1>3, <1>8, Zenon

\* Division keeps the order.
LEMMA DivideOrder ==
  ASSUME NEW c \in Nat, c > 0, NEW v \in Nat, NEW w \in Nat, v <= w
  PROVE  v \div c <= w \div c
<1>1. PICK a, r, b, s : a = v \div c /\ r = v % c /\ b = w \div c /\ s = w % c
  BY Zenon
<1>2. /\ a \in Nat /\ r \in 0 .. c - 1 /\ v = a * c + r
      /\ b \in Nat /\ s \in 0 .. c - 1 /\ w = b * c + s
  BY <1>1, Divided, Zenon
<1>3. CASE b < a
  <2>1. b * c + c <= a * c
    BY <1>2, <1>3, WordStep, Zenon
  <2>2. b * c \in Nat /\ a * c \in Nat
    BY <1>2
  <2> QED BY <1>2, <2>1, <2>2
<1>4. CASE ~(b < a)
  <2>1. a <= b
    BY <1>2, <1>4
  <2> QED BY <1>1, <2>1, Zenon
<1> QED BY <1>3, <1>4

\* The quotients of an interval are an interval.
LEMMA DivideRange ==
  ASSUME NEW c \in Nat, c > 0, NEW a \in Nat, NEW b \in Nat, a <= b
  PROVE  {v \div c : v \in a .. b} = (a \div c) .. (b \div c)
<1>1. PICK x, r, y, s : x = a \div c /\ r = a % c /\ y = b \div c /\ s = b % c
  BY Zenon
<1>2. /\ x \in Nat /\ r \in 0 .. c - 1 /\ a = x * c + r
      /\ y \in Nat /\ s \in 0 .. c - 1 /\ b = y * c + s
  BY <1>1, Divided, Zenon
<1>3. ASSUME NEW v \in a .. b
      PROVE  v \div c \in x .. y
  <2>1. v \in Nat /\ a <= v /\ v <= b
    OBVIOUS
  <2>2. v \div c \in Nat /\ x <= v \div c /\ v \div c <= y
    BY <1>1, <2>1, DivideOrder, Divided, Zenon
  <2>3. PICK q : q = v \div c
    BY Zenon
  <2>4. q \in x .. y
    BY <1>2, <2>2, <2>3
  <2> QED BY <2>3, <2>4, Zenon
<1>4. ASSUME NEW q \in x .. y
      PROVE  \E v \in a .. b : v \div c = q
  <2>0. q \in Nat /\ q * c \in Nat /\ x * c \in Nat /\ y * c \in Nat
    BY <1>2
  <2>1. CASE q = x
    <3>1. a \in a .. b
      OBVIOUS
    <3> QED BY <1>1, <2>1, <3>1, Zenon
  <2>2. CASE q # x
    <3>1. x * c + c <= q * c
      <4>1. x < q
        BY <1>2, <2>2
      <4> QED BY <1>2, <2>0, <4>1, WordStep, Zenon
    <3>2. q * c <= y * c
      <4>1. CASE q = y
        BY <2>0, <4>1
      <4>2. CASE q # y
        <5>1. q < y
          BY <1>2, <4>2
        <5>2. q * c + c <= y * c
          BY <1>2, <2>0, <5>1, WordStep, Zenon
        <5> QED BY <2>0, <5>2
      <4> QED BY <4>1, <4>2
    <3>3. q * c \in a .. b
      BY <1>2, <2>0, <3>1, <3>2
    <3>4. 0 \in 0 .. c - 1 /\ q * c = q * c + 0
      BY <2>0
    <3>5. (q * c) \div c = q
      BY <2>0, <3>4, QuotientIs, Zenon
    <3> QED BY <3>3, <3>5, Zenon
  <2> QED BY <2>1, <2>2
<1>5. {v \div c : v \in a .. b} = x .. y
  BY <1>3, <1>4, Zenon
<1> QED BY <1>1, <1>5, Zenon

\* The number of the table of level l that maps page v.
Up(l, v) == v \div Reach[l]

\* From one level to the next.
LEMMA UpIs ==
  ASSUME NEW v \in Nat
  PROVE  /\ Up(0, v) = v
         /\ \A l \in 0 .. 4 : Up(l, v) \in Nat
         /\ \A l \in Level : /\ Up(l, v) = Up(l - 1, v) \div E
                             /\ Index(l, v) \in 0 .. E - 1
                             /\ Up(l - 1, v) = Up(l, v) * E + Index(l, v)
<1>0. E \in Nat /\ E > 0
  BY SpaceAssumption
<1>1. Up(0, v) = v
  <2>1. v \div 1 = v
    OBVIOUS
  <2> QED BY <2>1, ReachIs, Zenon DEF Up
<1>2. ASSUME NEW l \in 0 .. 4 PROVE Up(l, v) \in Nat
  BY ReachNat, Divided, Zenon DEF Up
<1>3. ASSUME NEW l \in Level
      PROVE  /\ Up(l, v) = Up(l - 1, v) \div E
             /\ Index(l, v) \in 0 .. E - 1
             /\ Up(l - 1, v) = Up(l, v) * E + Index(l, v)
  <2>1. l - 1 \in 0 .. 4
    BY DEF Level
  <2>2. PICK c : c = Reach[l - 1]
    BY Zenon
  <2>3. c \in Nat /\ c > 0 /\ Reach[l] = E * c
    BY <2>1, <2>2, ReachIs, ReachNat, Zenon
  <2>4. v \div (E * c) = (v \div c) \div E
    BY <1>0, <2>3, DivideTwice, Zenon
  <2>5. Up(l, v) = Up(l - 1, v) \div E /\ Index(l, v) = Up(l - 1, v) % E
    BY <2>2, <2>3, <2>4, Zenon DEF Up, Index
  <2> QED BY <1>0, <1>2, <2>1, <2>5, Divided, Zenon
<1> QED BY <1>1, <1>2, <1>3

\* Half of a number.
LEMMA Half ==
  ASSUME NEW n \in Nat, NEW v \in 0 .. (n \div 2) - 1
  PROVE  v \in 0 .. n - 1
OBVIOUS

\* One table of the highest level maps all pages.
LEMMA TopIs ==
  ASSUME NEW v \in UserPages
  PROVE  v \in Nat /\ Up(4, v) = 0
<1>1. Reach[4] \in Nat /\ Reach[4] > 0
  BY ReachNat
<1>2. PICK c : c = Reach[4]
  BY Zenon
<1>3. c \in Nat /\ c > 0 /\ v \in 0 .. (c \div 2) - 1
  BY <1>1, <1>2, Zenon DEF UserPages
<1>4. v \in 0 .. c - 1
  BY <1>3, Half, Zenon
<1>5. v \in Nat /\ 0 \in Nat /\ v = 0 * c + v
  BY <1>3, <1>4
<1>6. v \div c = 0
  BY <1>3, <1>4, <1>5, QuotientIs, Zenon
<1> QED BY <1>2, <1>5, <1>6, Zenon DEF Up

\* calc_page_table_counts rounds up.
LEMMA AboveIs ==
  ASSUME NEW n \in Nat
  PROVE  /\ Above(n) \in Nat /\ n <= Above(n) * E
         /\ \A k \in Nat : n <= k * E => Above(n) <= k
<1>0. E \in Nat /\ E > 0
  BY SpaceAssumption
<1>1. PICK a, r : a = (n + E - 1) \div E /\ r = (n + E - 1) % E
  BY Zenon
<1>2. n + E - 1 \in Nat
  BY <1>0
<1>3. a \in Nat /\ r \in 0 .. E - 1 /\ n + E - 1 = a * E + r
  BY <1>0, <1>1, <1>2, Divided, Zenon
<1>4. a * E \in Nat
  BY <1>0, <1>3
<1>5. n <= a * E
  BY <1>0, <1>3, <1>4
<1>6. ASSUME NEW k \in Nat, n <= k * E
      PROVE  a <= k
  <2>1. CASE k < a
    <3>1. k * E + E <= a * E
      BY <1>0, <1>3, <2>1, WordStep, Zenon
    <3>2. k * E \in Nat
      BY <1>0
    <3> QED BY <1>0, <1>3, <1>4, <1>6, <3>1, <3>2
  <2> QED BY <1>3, <2>1
<1>7. Above(n) = a
  BY <1>1, Zenon DEF Above
<1> QED BY <1>3, <1>5, <1>6, <1>7, Zenon

\* Tables for an interval of entries take one level up at least what is counted.
LEMMA AboveFits ==
  ASSUME NEW x \in Nat, NEW y \in Nat, x <= y, NEW n \in Nat, n <= y - x + 1
  PROVE  Above(n) <= (y \div E) - (x \div E) + 1
<1>0. E \in Nat /\ E > 0
  BY SpaceAssumption
<1>1. PICK a, r, b, s : a = x \div E /\ r = x % E /\ b = y \div E /\ s = y % E
  BY Zenon
<1>2. /\ a \in Nat /\ r \in 0 .. E - 1 /\ x = a * E + r
      /\ b \in Nat /\ s \in 0 .. E - 1 /\ y = b * E + s
  BY <1>0, <1>1, Divided, Zenon
<1>3. a <= b
  BY <1>0, <1>1, DivideOrder, Zenon
<1>4. b - a + 1 \in Nat /\ (b - a + 1) * E = b * E - a * E + E
  BY <1>0, <1>2, <1>3
<1>5. n <= (b - a + 1) * E
  <2>1. a * E \in Nat /\ b * E \in Nat
    BY <1>0, <1>2
  <2> QED BY <1>0, <1>2, <1>4, <2>1
<1>6. Above(n) <= b - a + 1
  BY <1>4, <1>5, AboveIs, Zenon
<1> QED BY <1>1, <1>6, Zenon

\* w holds the pages of the orders up to n.
Doubling(w, n) == w = [k \in 0 .. n |-> IF k = 0 THEN 1 ELSE 2 * w[k - 1]]

\* One order more ...
LEMMA DoublingNext ==
  ASSUME NEW n \in Nat, NEW w, Doubling(w, n)
  PROVE  \E e : Doubling(e, n + 1)
<1> DEFINE F(f, k) == IF k = 0 THEN 1 ELSE 2 * f[k - 1]
<1> DEFINE e == [k \in 0 .. n + 1 |-> IF k = n + 1 THEN 2 * w[n] ELSE w[k]]
<1>1. \A k \in 0 .. n : w[k] = F(w, k)
  BY Zenon DEF Doubling
<1>2. ASSUME NEW k \in 0 .. n + 1
      PROVE  e[k] = F(e, k)
  <2>1. CASE k = 0
    BY <1>1, <2>1
  <2>2. CASE k \in 1 .. n
    <3>1. k \in 0 .. n /\ k # n + 1 /\ k - 1 \in 0 .. n /\ k - 1 # n + 1 /\ k - 1 \in 0 .. n + 1 /\ k # 0
      BY <2>2
    <3>2. e[k] = w[k] /\ e[k - 1] = w[k - 1]
      BY <3>1, Zenon
    <3> HIDE DEF e
    <3> QED BY <1>1, <3>1, <3>2, Zenon
  <2>3. CASE k = n + 1
    <3>1. n \in 0 .. n + 1 /\ n # n + 1 /\ k - 1 = n /\ k # 0
      BY <2>3
    <3>2. e[k] = 2 * w[n] /\ e[n] = w[n]
      BY <2>3, <3>1, Zenon
    <3> HIDE DEF e
    <3> QED BY <3>1, <3>2
  <2> QED BY <2>1, <2>2, <2>3
<1>3. e = [k \in 0 .. n + 1 |-> F(e, k)]
  BY <1>2, Zenon
<1> QED BY <1>3, Zenon DEF Doubling

\* ... so there is a size for every order.
LEMMA DoublingExists ==
  ASSUME NEW n \in Nat
  PROVE  \E w : Doubling(w, n)
<1> DEFINE T == {k \in Nat : ~\E w : Doubling(w, k)}
<1>1. SUFFICES ASSUME T # {} PROVE FALSE
  OBVIOUS
<1>2. PICK k \in T : \A j \in T : k <= j
  <2>1. T \subseteq Nat
    OBVIOUS
  <2> QED BY <1>1, <2>1, LeastNat, Zenon
<1>3. CASE k = 0
  <2>1. Doubling([j \in 0 .. 0 |-> 1], 0)
    BY DEF Doubling
  <2> QED BY <1>2, <1>3, <2>1
<1>4. CASE k # 0
  <2>1. k - 1 \in Nat /\ k - 1 \notin T /\ k - 1 + 1 = k
    BY <1>2, <1>4
  <2>2. PICK w : Doubling(w, k - 1)
    BY <2>1
  <2> QED BY <1>2, <2>1, <2>2, DoublingNext, Zenon
<1> QED BY <1>3, <1>4

\* An order is enough for as many pages as its number.
LEMMA OrderIs == \A k \in Orders : PagesOf[k] \in Nat /\ PagesOf[k] > k
<1>0. MaxPages \in Nat
  BY SpaceAssumption
<1>1. Doubling(PagesOf, MaxPages)
  <2>1. \E w : Doubling(w, MaxPages)
    BY <1>0, DoublingExists, Zenon
  <2> QED BY <2>1, Zenon DEF PagesOf, Doubling, Orders
<1>2. /\ PagesOf[0] = 1
      /\ \A k \in 1 .. MaxPages : PagesOf[k] = 2 * PagesOf[k - 1]
  <2>1. \A k \in 0 .. MaxPages : PagesOf[k] = IF k = 0 THEN 1 ELSE 2 * PagesOf[k - 1]
    BY <1>1, Zenon DEF Doubling
  <2>2. 0 \in 0 .. MaxPages /\ \A k \in 1 .. MaxPages : k \in 0 .. MaxPages /\ k # 0
    BY <1>0
  <2> QED BY <2>1, <2>2, Zenon
<1> DEFINE T == {k \in 0 .. MaxPages : ~(PagesOf[k] \in Nat /\ PagesOf[k] > k)}
<1>3. SUFFICES ASSUME T # {} PROVE FALSE
  BY Zenon DEF Orders
<1>4. PICK k \in T : \A j \in T : k <= j
  <2>1. T \subseteq Nat
    OBVIOUS
  <2> QED BY <1>3, <2>1, LeastNat, Zenon
<1>5. CASE k = 0
  BY <1>2, <1>4, <1>5
<1>6. CASE k # 0
  <2>1. k - 1 \in 0 .. MaxPages /\ k \in 1 .. MaxPages /\ ~(k <= k - 1)
    BY <1>0, <1>4, <1>6
  <2>2. PagesOf[k - 1] \in Nat /\ PagesOf[k - 1] > k - 1
    BY <1>4, <2>1, Zenon
  <2>3. PagesOf[k] = 2 * PagesOf[k - 1]
    BY <1>2, <2>1, Zenon
  <2>4. PagesOf[k] \in Nat /\ PagesOf[k] > k
    BY <2>1, <2>2, <2>3
  <2> QED BY <1>4, <2>4, Zenon
<1> QED BY <1>5, <1>6

\* What a level is filled with.
Filled(l) ==
  [p \in {Position(l, i) : i \in 0 .. count[l] - 1} |->
     IF l = 1 THEN start + (p - Position(l, 0)) ELSE p - Position(l, 0)]

\* The tables above the level filled next are filled.
SpaceInv ==
  /\ start \in UserPages /\ nr_pages \in 1 .. MaxPages
  /\ start + nr_pages - 1 \in UserPages
  /\ count = calc_page_table_counts(nr_pages)
  /\ array \in [Level -> {array[l] : l \in Level}]
  /\ level \in 0 .. 4
  /\ \A l \in Level : l > level => array[l] = Filled(l)

\* It holds at first ...
LEMMA SpaceStart == SpaceInit => SpaceInv
<1> SUFFICES ASSUME SpaceInit PROVE SpaceInv
  OBVIOUS
<1>1. array = [l \in Level |-> << >>] /\ level = 4
  BY DEF SpaceInit
<1>2. array \in [Level -> {array[l] : l \in Level}]
  BY <1>1, Zenon
<1>3. level \in 0 .. 4 /\ \A l \in Level : ~(l > level)
  BY <1>1 DEF Level
<1> QED BY <1>2, <1>3, Zenon DEF SpaceInit, SpaceInv

\* ... and after every step.
LEMMA SpaceStep == SpaceInv /\ [SpaceNext]_spaceVars => SpaceInv'
<1> SUFFICES ASSUME SpaceInv, [SpaceNext]_spaceVars PROVE SpaceInv'
  OBVIOUS
<1>1. CASE Fill
  <2>1. /\ level > 0 /\ level' = level - 1
        /\ start' = start /\ nr_pages' = nr_pages /\ count' = count
        /\ array' = [array EXCEPT ![level] = Filled(level)]
    BY <1>1, Zenon DEF Fill, Filled
  <2>2. level \in Level /\ level' \in 0 .. 4 /\ \A l \in Level : l > level' => l = level \/ l > level
    BY <2>1 DEF SpaceInv, Level
  <2>3. \A l \in Level : Filled(l)' = Filled(l)
    BY <2>1, Zenon DEF Filled, Position
  <2>4. \A l \in Level : array'[l] = IF l = level THEN Filled(level) ELSE array[l]
    BY <2>1, Zenon DEF SpaceInv
  <2>5. array' \in [Level -> {array'[l] : l \in Level}]
    BY <2>1, Zenon DEF SpaceInv
  <2>6. \A l \in Level : l > level' => array'[l] = Filled(l)'
    BY <2>2, <2>3, <2>4, Zenon DEF SpaceInv
  <2>7. /\ start' \in UserPages /\ nr_pages' \in 1 .. MaxPages
        /\ start' + nr_pages' - 1 \in UserPages
        /\ count' = calc_page_table_counts(nr_pages')
    BY <2>1, Zenon DEF SpaceInv
  <2> QED BY <2>2, <2>5, <2>6, <2>7, Zenon DEF SpaceInv
<1>2. CASE UNCHANGED spaceVars
  <2>1. \A l \in Level : Filled(l)' = Filled(l)
    BY <1>2, Zenon DEF Filled, Position, spaceVars
  <2> QED BY <1>2, <2>1, Zenon DEF SpaceInv, spaceVars
<1> QED BY <1>1, <1>2 DEF SpaceNext

\* The first and the last page of a task.
LEMMA TaskIs ==
  ASSUME SpaceInv
  PROVE  /\ start \in Nat /\ nr_pages \in Nat /\ nr_pages > 0 /\ nr_pages <= MaxPages
         /\ start + nr_pages - 1 \in Nat
         /\ Up(4, start) = 0 /\ Up(4, start + nr_pages - 1) = 0
         /\ TaskPages \subseteq Nat
         /\ \A v \in TaskPages : start <= v /\ v <= start + nr_pages - 1
         /\ start \in TaskPages /\ start + nr_pages - 1 \in TaskPages
         /\ TaskPages = start .. start + nr_pages - 1
<1>1. /\ start \in Nat /\ start + nr_pages - 1 \in Nat
      /\ Up(4, start) = 0 /\ Up(4, start + nr_pages - 1) = 0
  BY TopIs, Zenon DEF SpaceInv
<1>2. nr_pages \in Nat /\ nr_pages > 0 /\ nr_pages <= MaxPages
  BY SpaceAssumption DEF SpaceInv
<1>3. /\ TaskPages \subseteq Nat
      /\ \A v \in TaskPages : start <= v /\ v <= start + nr_pages - 1
      /\ start \in TaskPages /\ start + nr_pages - 1 \in TaskPages
  BY <1>1, <1>2 DEF TaskPages
<1> QED BY <1>1, <1>2, <1>3, Zenon DEF TaskPages

\* The tables of each level lie in order.
LEMMA UpOrder ==
  ASSUME NEW v \in Nat, NEW w \in Nat, v <= w, NEW l \in 0 .. 4
  PROVE  Up(l, v) <= Up(l, w)
BY ReachNat, DivideOrder, Zenon DEF Up

\* The counts of the levels.
LEMMA CountsAre ==
  ASSUME SpaceInv
  PROVE  /\ count[1] = nr_pages
         /\ \A l \in 1 .. 3 : count[l + 1] = Above(count[l])
<1>1. count = calc_page_table_counts(nr_pages)
  BY DEF SpaceInv
<1>2. /\ count[1] = nr_pages /\ count[2] = Above(nr_pages)
      /\ count[3] = Above(Above(nr_pages)) /\ count[4] = Above(Above(Above(nr_pages)))
  BY <1>1 DEF calc_page_table_counts, Level
<1>3. 1 + 1 = 2 /\ 2 + 1 = 3 /\ 3 + 1 = 4 /\ \A l \in 1 .. 3 : l = 1 \/ l = 2 \/ l = 3
  OBVIOUS
<1> QED BY <1>2, <1>3, Zenon

\* The tables of level l that the pages of the task take.
Width(l) == Up(l, start + nr_pages - 1) - Up(l, start) + 1

\* The count is never more than what the range takes, and never nothing.
LEMMA CountsFit ==
  ASSUME SpaceInv
  PROVE  \A l \in Level : /\ count[l] \in Nat /\ count[l] > 0 /\ count[l] <= MaxPages
                          /\ count[l] <= Width(l - 1)
<1> DEFINE e == start + nr_pages - 1
           Good(l) == /\ count[l] \in Nat /\ count[l] > 0 /\ count[l] <= MaxPages
                      /\ count[l] <= Width(l - 1)
<1>0. E \in Nat /\ E > 0 /\ MaxPages \in Nat
  BY SpaceAssumption
<1>1. start \in Nat /\ e \in Nat /\ start <= e /\ e = start + nr_pages - 1
  BY TaskIs
<1> HIDE DEF e
<1>2. \A l \in 0 .. 4 : /\ Up(l, start) \in Nat /\ Up(l, e) \in Nat /\ Up(l, start) <= Up(l, e)
                        /\ Width(l) = Up(l, e) - Up(l, start) + 1
  BY <1>1, UpIs, UpOrder, Zenon DEF Width, e
<1>3. Good(1)
  <2>1. count[1] = nr_pages /\ nr_pages \in Nat /\ nr_pages > 0 /\ nr_pages <= MaxPages
    BY TaskIs, CountsAre, Zenon
  <2>2. Up(0, start) = start /\ Up(0, e) = e
    BY <1>1, UpIs, Zenon
  <2>3. 1 - 1 \in 0 .. 4 /\ 1 - 1 = 0
    OBVIOUS
  <2>4. Width(0) = nr_pages
    <3>1. Width(0) = e - start + 1
      BY <1>2, <2>2, <2>3, Zenon
    <3> QED BY <1>1, <2>1, <3>1
  <2>5. count[1] <= Width(1 - 1)
    BY <2>1, <2>3, <2>4
  <2> QED BY <2>1, <2>5, Zenon
<1>4. ASSUME NEW l \in 1 .. 3, Good(l)
      PROVE  Good(l + 1)
  <2>1. l \in Level /\ l - 1 \in 0 .. 4 /\ l \in 0 .. 4 /\ l + 1 - 1 = l
    BY DEF Level
  <2>2. PICK x, y : x = Up(l - 1, start) /\ y = Up(l - 1, e)
    BY Zenon
  <2>3. x \in Nat /\ y \in Nat /\ x <= y /\ count[l] <= y - x + 1
    BY <1>2, <1>4, <2>1, <2>2, Zenon
  <2>4. Above(count[l]) <= (y \div E) - (x \div E) + 1
    BY <1>4, <2>3, AboveFits, Zenon
  <2>5. Up(l, start) = x \div E /\ Up(l, e) = y \div E
    BY <1>1, <2>1, <2>2, UpIs, Zenon
  <2>6. count[l + 1] = Above(count[l])
    BY CountsAre, Zenon
  <2>7. count[l + 1] <= Width(l + 1 - 1)
    BY <1>2, <2>1, <2>4, <2>5, <2>6, Zenon
  <2>8. PICK n, m : n = count[l] /\ m = count[l + 1]
    BY Zenon
  <2>9. n \in Nat /\ n > 0 /\ n <= MaxPages /\ m \in Nat /\ n <= m * E /\ (n <= n * E => m <= n)
    BY <1>4, <2>6, <2>8, AboveIs, Zenon
  <2>10. n <= n * E
    BY <1>0, <2>9
  <2>11. m # 0
    BY <1>0, <2>9
  <2>12. m \in Nat /\ m > 0 /\ m <= MaxPages
    BY <1>0, <2>9, <2>10, <2>11
  <2>13. count[l + 1] \in Nat /\ count[l + 1] > 0 /\ count[l + 1] <= MaxPages
    BY <2>8, <2>12, Zenon
  <2> QED BY <2>7, <2>13
<1> HIDE DEF Good
<1>5. Good(1) /\ Good(2) /\ Good(3) /\ Good(4)
  <2>1. Good(1 + 1)
    BY <1>3, <1>4
  <2>2. Good(2 + 1)
    BY <1>4, <2>1
  <2>3. Good(3 + 1)
    BY <1>4, <2>2
  <2> QED BY <1>3, <2>1, <2>2, <2>3
<1>6. \A l \in Level : l = 1 \/ l = 2 \/ l = 3 \/ l = 4
  BY DEF Level
<1> QED BY <1>5, <1>6, Zenon DEF Good

\* How far table l of page v is from the first one.
Off(l, v) == Up(l, v) - Up(l, start)

\* A walk that came to the right table of level l goes on to the right one below,
\* unless the entry was not counted.
LEMMA EntryIs ==
  ASSUME SpaceInv, level = 0, NEW v \in TaskPages, NEW l \in Level
  PROVE  Entry(l, Off(l, v), v)
           = IF Off(l - 1, v) < count[l] THEN (IF l = 1 THEN v ELSE Off(l - 1, v)) ELSE Absent
<1>0. E \in Nat /\ E > 0
  BY SpaceAssumption
<1>1. start \in Nat /\ v \in Nat /\ start <= v
  BY TaskIs, Zenon
<1>2. l \in 0 .. 4 /\ l - 1 \in 0 .. 4 /\ l > level
  BY DEF Level
<1>3. PICK a, b, c, d, i, j : /\ a = Up(l, start) /\ b = Up(l, v) /\ c = Up(l - 1, start) /\ d = Up(l - 1, v)
                              /\ i = Index(l, start) /\ j = Index(l, v)
  BY Zenon
<1>4. /\ a \in Nat /\ b \in Nat /\ a <= b /\ c \in Nat /\ d \in Nat /\ c <= d
      /\ i \in 0 .. E - 1 /\ j \in 0 .. E - 1 /\ c = a * E + i /\ d = b * E + j
  BY <1>1, <1>2, <1>3, UpIs, UpOrder, Zenon
<1>5. PICK n : n = count[l]
  BY Zenon
<1>6. n \in Nat
  BY <1>5, CountsFit, Zenon
<1>7. Position(l, 0) = i /\ \A k \in 0 .. n - 1 : Position(l, k) = i + k
  BY <1>3, <1>4 DEF Position
<1>8. (b - a) * E + j = i + (d - c)
  <2>1. (b - a) * E = b * E - a * E /\ a * E \in Nat /\ b * E \in Nat
    BY <1>0, <1>4
  <2> QED BY <1>0, <1>4, <2>1
<1>9. PICK p : p = (b - a) * E + j
  BY Zenon
<1>10. p = i + (d - c) /\ p - i = d - c /\ (p \in {i + k : k \in 0 .. n - 1} <=> d - c < n)
  <2>1. p = i + (d - c)
    BY <1>8, <1>9, Zenon
  <2>2. p - i = d - c
    BY <1>4, <2>1
  <2>3. p \in {i + k : k \in 0 .. n - 1} <=> d - c < n
    <3>1. ASSUME NEW k \in 0 .. n - 1, p = i + k PROVE d - c < n
      BY <1>4, <1>6, <2>1, <3>1
    <3>2. ASSUME d - c < n PROVE d - c \in 0 .. n - 1
      BY <1>4, <1>6, <3>2
    <3> QED BY <2>1, <3>1, <3>2
  <2> QED BY <2>1, <2>2, <2>3
<1>11. {Position(l, k) : k \in 0 .. n - 1} = {i + k : k \in 0 .. n - 1}
  BY <1>7
<1>12. array[l] = [q \in {i + k : k \in 0 .. n - 1} |-> IF l = 1 THEN start + (q - i) ELSE q - i]
  BY <1>2, <1>5, <1>7, <1>11, Zenon DEF SpaceInv, Filled
<1>13. Off(l, v) = b - a /\ Off(l - 1, v) = d - c
  BY <1>3, Zenon DEF Off
<1>14. b - a # Absent
  BY <1>4 DEF Absent
<1>15. Entry(l, Off(l, v), v) = IF p \in DOMAIN array[l] THEN array[l][p] ELSE Absent
  BY <1>3, <1>9, <1>13, <1>14, Zenon DEF Entry
<1>16. CASE d - c < n
  <2>1. Entry(l, Off(l, v), v) = IF l = 1 THEN start + (d - c) ELSE d - c
    BY <1>10, <1>12, <1>15, <1>16, Zenon
  <2>2. l = 1 => start + (d - c) = v
    <3> SUFFICES ASSUME l = 1 PROVE start + (d - c) = v
      OBVIOUS
    <3>1. l - 1 = 0
      OBVIOUS
    <3>2. c = start /\ d = v
      BY <1>1, <1>3, <3>1, UpIs, Zenon
    <3> QED BY <1>1, <3>2
  <2> QED BY <1>5, <1>13, <1>16, <2>1, <2>2, Zenon
<1>17. CASE ~(d - c < n)
  <2>1. Entry(l, Off(l, v), v) = Absent
    BY <1>10, <1>12, <1>15, <1>17, Zenon
  <2> QED BY <1>5, <1>13, <1>17, <2>1, Zenon
<1> QED BY <1>16, <1>17

\* No table: no entry.
LEMMA NoEntry == \A l, v : Entry(l, Absent, v) = Absent
BY Zenon DEF Entry

\* A page is reached when each level counts the table it needs.
LEMMA WalkIs ==
  ASSUME SpaceInv, level = 0, NEW v \in TaskPages
  PROVE  Walk(v) = v <=> \A l \in 1 .. 3 : Off(l, v) < count[l + 1]
<1> DEFINE Hit(l) == Off(l - 1, v) < count[l]
<1>0. v \in Nat /\ v # Absent
  BY TaskIs DEF Absent
<1>1. Off(4, v) = 0
  <2>1. Up(4, v) = 0 /\ Up(4, start) = 0
    <3>1. v \in UserPages
      <4>1. start \in Nat /\ start + nr_pages - 1 \in UserPages /\ start <= v /\ v <= start + nr_pages - 1
        BY TaskIs, Zenon DEF SpaceInv
      <4>2. Reach[4] \in Nat
        BY ReachNat
      <4> QED BY <1>0, <4>1, <4>2 DEF UserPages
    <3> QED BY <3>1, TaskIs, TopIs, Zenon
  <2> QED BY <2>1 DEF Off
<1>2. Hit(1)
  <2>1. Up(0, v) = v /\ Up(0, start) = start /\ count[1] = nr_pages
    BY <1>0, TaskIs, UpIs, CountsAre, Zenon
  <2>2. Off(0, v) = v - start
    BY <2>1, Zenon DEF Off
  <2>3. v - start < nr_pages
    BY <1>0, TaskIs
  <2>4. 1 - 1 = 0
    OBVIOUS
  <2> QED BY <2>1, <2>2, <2>3, <2>4, Zenon
<1>3. /\ Entry(4, Off(4, v), v) = IF Hit(4) THEN Off(3, v) ELSE Absent
      /\ Entry(3, Off(3, v), v) = IF Hit(3) THEN Off(2, v) ELSE Absent
      /\ Entry(2, Off(2, v), v) = IF Hit(2) THEN Off(1, v) ELSE Absent
      /\ Entry(1, Off(1, v), v) = IF Hit(1) THEN v ELSE Absent
  <2>1. 1 \in Level /\ 2 \in Level /\ 3 \in Level /\ 4 \in Level
    BY DEF Level
  <2>2. 2 # 1 /\ 3 # 1 /\ 4 # 1 /\ 4 - 1 = 3 /\ 3 - 1 = 2 /\ 2 - 1 = 1
    OBVIOUS
  <2>3. Entry(4, Off(4, v), v) = IF Hit(4) THEN Off(3, v) ELSE Absent
    BY <2>1, <2>2, EntryIs, Zenon
  <2>4. Entry(3, Off(3, v), v) = IF Hit(3) THEN Off(2, v) ELSE Absent
    BY <2>1, <2>2, EntryIs, Zenon
  <2>5. Entry(2, Off(2, v), v) = IF Hit(2) THEN Off(1, v) ELSE Absent
    BY <2>1, <2>2, EntryIs, Zenon
  <2>6. Entry(1, Off(1, v), v) = IF Hit(1) THEN v ELSE Absent
    BY <2>1, EntryIs, Zenon
  <2> QED BY <2>3, <2>4, <2>5, <2>6, Zenon
<1> HIDE DEF Hit
<1>4. Walk(v) = v <=> Hit(4) /\ Hit(3) /\ Hit(2)
  BY <1>0, <1>1, <1>2, <1>3, NoEntry, Zenon DEF Walk
<1>5. (\A l \in 1 .. 3 : Off(l, v) < count[l + 1]) <=> Hit(4) /\ Hit(3) /\ Hit(2)
  <2>1. /\ 4 - 1 = 3 /\ 3 - 1 = 2 /\ 2 - 1 = 1 /\ 1 + 1 = 2 /\ 2 + 1 = 3 /\ 3 + 1 = 4
        /\ 1 \in 1 .. 3 /\ 2 \in 1 .. 3 /\ 3 \in 1 .. 3
        /\ \A l \in 1 .. 3 : l = 1 \/ l = 2 \/ l = 3
    OBVIOUS
  <2> QED BY <2>1, Zenon DEF Hit
<1> QED BY <1>4, <1>5, Zenon

\* The tables a range takes.
LEMMA TakenIs ==
  ASSUME SpaceInv, NEW l \in 1 .. 3
  PROVE  Cardinality(Taken(l)) = Width(l)
<1> DEFINE e == start + nr_pages - 1
<1>1. start \in Nat /\ e \in Nat /\ start <= e /\ TaskPages = start .. e /\ e = start + nr_pages - 1
  BY TaskIs
<1> HIDE DEF e
<1>2. l \in 0 .. 4
  OBVIOUS
<1>3. PICK c : c = Reach[l]
  BY Zenon
<1>4. c \in Nat /\ c > 0
  BY <1>2, <1>3, ReachNat, Zenon
<1>5. Taken(l) = Up(l, start) .. Up(l, e)
  <2>1. {v \div c : v \in start .. e} = (start \div c) .. (e \div c)
    BY <1>1, <1>4, DivideRange, Zenon
  <2> QED BY <1>1, <1>3, <2>1, Zenon DEF Taken, Up
<1>6. Up(l, start) \in Nat /\ Up(l, e) \in Nat /\ Up(l, start) <= Up(l, e)
  BY <1>1, <1>2, UpIs, UpOrder, Zenon
<1>7. PICK a, b : a = Up(l, start) /\ b = Up(l, e)
  BY Zenon
<1>8. a \in Int /\ b \in Int /\ ~(a > b)
  BY <1>6, <1>7
<1>9. Cardinality(a .. b) = b - a + 1
  BY <1>8, FS_Interval, Zenon
<1> QED BY <1>5, <1>7, <1>9, Zenon DEF Width, e

\* The pages allocated for a level hold the tables its entries fill.
LEMMA AllocatedIs ==
  ASSUME SpaceInv, NEW l \in Level
  PROVE  Allocated(l) \in Nat /\ Above(count[l]) <= Allocated(l)
<1> DEFINE n == Above(count[l])
           S == {PagesOf[k] : k \in {j \in Orders : PagesOf[j] >= n}}
<1>0. MaxPages \in Nat /\ MaxPages \in Orders /\ E \in Nat /\ E > 0
  BY SpaceAssumption DEF Orders
<1>1. n \in Nat /\ n <= MaxPages
  <2>1. PICK c : c = count[l]
    BY Zenon
  <2>2. c \in Nat /\ c <= MaxPages /\ n \in Nat /\ (c <= c * E => n <= c)
    BY <2>1, CountsFit, AboveIs, Zenon
  <2>3. c <= c * E
    BY <1>0, <2>2
  <2> QED BY <1>0, <2>2, <2>3
<1>2. PagesOf[MaxPages] \in Nat /\ PagesOf[MaxPages] > MaxPages
  BY <1>0, OrderIs, Zenon
<1> HIDE DEF n
<1>3. S # {} /\ S \subseteq Nat /\ \A x \in S : n <= x
  <2>1. PagesOf[MaxPages] >= n
    BY <1>0, <1>1, <1>2
  <2>2. PagesOf[MaxPages] \in S
    BY <1>0, <2>1, Zenon
  <2>3. \A x \in S : x \in Nat /\ n <= x
    BY <1>1, OrderIs
  <2> QED BY <2>2, <2>3
<1>4. \E x \in S : \A y \in S : x <= y
  <2> HIDE DEF S
  <2> QED BY <1>3, LeastNat, Zenon
<1>5. Min(S) \in S
  <2> HIDE DEF S
  <2> QED BY <1>4, Zenon DEF Min
<1>6. Allocated(l) = Min(S)
  BY Zenon DEF Allocated, n
<1> HIDE DEF S
<1> QED BY <1>3, <1>5, <1>6, Zenon DEF n

\* Each level counts the tables the range takes.
Enough == \A l \in 1 .. 3 : count[l + 1] = Cardinality(Taken(l))

\* Then the entries of a level end in the last page allocated for it.
LEMMA InsideIs ==
  ASSUME SpaceInv, level = 0, Enough, NEW l \in Level, NEW p \in DOMAIN array[l]
  PROVE  p < E * Allocated(l)
<1> DEFINE e == start + nr_pages - 1
<1>0. E \in Nat /\ E > 0
  BY SpaceAssumption
<1>1. start \in Nat /\ e \in Nat /\ start <= e /\ e = start + nr_pages - 1
  BY TaskIs
<1> HIDE DEF e
<1>2. l \in 0 .. 4 /\ l - 1 \in 0 .. 4 /\ l > level
  BY DEF Level
<1>3. PICK a, b, c, d, i, j : /\ a = Up(l, start) /\ b = Up(l, e) /\ c = Up(l - 1, start) /\ d = Up(l - 1, e)
                              /\ i = Index(l, start) /\ j = Index(l, e)
  BY Zenon
<1>4. /\ a \in Nat /\ b \in Nat /\ a <= b /\ c \in Nat /\ d \in Nat /\ c <= d
      /\ i \in 0 .. E - 1 /\ j \in 0 .. E - 1 /\ c = a * E + i /\ d = b * E + j
  BY <1>1, <1>2, <1>3, UpIs, UpOrder, Zenon
<1>5. PICK n, m, q : n = count[l] /\ m = Above(count[l]) /\ q = Allocated(l)
  BY Zenon
<1>6. n \in Nat /\ n > 0 /\ n <= d - c + 1
  BY <1>3, <1>5, CountsFit, Zenon DEF Width, e
<1>7. m \in Nat /\ n <= m * E /\ q \in Nat /\ m <= q
  BY <1>5, <1>6, AboveIs, AllocatedIs, Zenon
<1>8. PICK k \in 0 .. n - 1 : p = i + k
  <2>1. DOMAIN array[l] = {Position(l, k) : k \in 0 .. n - 1}
    BY <1>2, <1>5, Zenon DEF SpaceInv, Filled
  <2>2. PICK k \in 0 .. n - 1 : p = Position(l, k)
    BY <2>1, Zenon
  <2> QED BY <1>3, <2>2, Zenon DEF Position
<1>9. b - a + 1 <= m
  <2>1. CASE l \in 1 .. 3
    <3>1. count[l + 1] = Width(l) /\ count[l + 1] = m
      BY <1>5, <2>1, TakenIs, CountsAre, Zenon DEF Enough
    <3>2. m = b - a + 1
      BY <1>3, <3>1, Zenon DEF Width, e
    <3> QED BY <1>4, <1>7, <3>2
  <2>2. CASE l \notin 1 .. 3
    <3>1. l = 4
      BY <2>2 DEF Level
    <3>2. a = 0 /\ b = 0
      BY <1>3, <3>1, TaskIs, Zenon DEF e
    <3>3. m # 0
      BY <1>0, <1>6, <1>7
    <3> QED BY <1>7, <3>2, <3>3
  <2> QED BY <2>1, <2>2
<1>10. p < (b - a + 1) * E
  <2>1. (b - a + 1) * E = b * E - a * E + E /\ a * E \in Nat /\ b * E \in Nat
    BY <1>0, <1>4
  <2> QED BY <1>0, <1>4, <1>6, <1>8, <2>1
<1>11. (b - a + 1) * E <= m * E
  <2>1. PICK w : w = b - a + 1
    BY Zenon
  <2>2. w \in Nat /\ w <= m
    BY <1>4, <1>9, <2>1
  <2>3. w * E <= m * E
    BY <1>0, <1>7, <2>2, TimesOrder, Zenon
  <2> QED BY <2>1, <2>3, Zenon
<1>12. m * E <= q * E /\ q * E = E * q
  <2>1. m * E <= q * E
    BY <1>0, <1>7, TimesOrder, Zenon
  <2>2. q * E = E * q
    BY <1>0, <1>7
  <2> QED BY <2>1, <2>2
<1>13. p \in Nat /\ (b - a + 1) * E \in Int /\ m * E \in Int /\ E * q \in Int
  BY <1>0, <1>4, <1>7, <1>8
<1>14. p < E * q
  BY <1>10, <1>11, <1>12, <1>13
<1> QED BY <1>5, <1>14, Zenon

\* What the walk finds, and where the entries are, once the tables are filled.
LEMMA FilledTranslates == SpaceInv => Translates
<1> SUFFICES ASSUME SpaceInv, level = 0
             PROVE  /\ Enough <=> \A v \in TaskPages : Walk(v) = v
                    /\ Enough => \A l \in Level : \A p \in DOMAIN array[l] : p < E * Allocated(l)
  BY Zenon DEF Translates, Enough
<1> DEFINE e == start + nr_pages - 1
<1>1. start \in Nat /\ e \in Nat /\ e \in TaskPages /\ e = start + nr_pages - 1
  BY TaskIs, Zenon
<1> HIDE DEF e
<1>2. ASSUME NEW l \in 1 .. 3
      PROVE  /\ l \in 0 .. 4 /\ l + 1 \in Level /\ l + 1 - 1 = l
             /\ count[l + 1] \in Nat /\ count[l + 1] <= Width(l)
             /\ Off(l, e) \in Nat /\ Width(l) = Off(l, e) + 1 /\ Cardinality(Taken(l)) = Width(l)
  <2>1. l \in 0 .. 4 /\ l + 1 \in Level /\ l + 1 - 1 = l
    BY DEF Level
  <2>2. Up(l, start) \in Nat /\ Up(l, e) \in Nat /\ Up(l, start) <= Up(l, e)
    BY <1>1, <2>1, TaskIs, UpIs, UpOrder, Zenon
  <2>3. Off(l, e) \in Nat
    BY <2>2 DEF Off
  <2>4. Width(l) = Off(l, e) + 1
    BY Zenon DEF Width, Off, e
  <2>5. count[l + 1] \in Nat /\ count[l + 1] <= Width(l + 1 - 1)
    BY <2>1, CountsFit
  <2>6. count[l + 1] <= Width(l)
    BY <2>1, <2>5, Zenon
  <2> QED BY <2>1, <2>3, <2>4, <2>5, <2>6, TakenIs, Zenon
<1>3. ASSUME Enough, NEW v \in TaskPages
      PROVE  Walk(v) = v
  <2>1. ASSUME NEW l \in 1 .. 3
        PROVE  Off(l, v) < count[l + 1]
    <3>1. v \in Nat /\ v <= e
      BY TaskIs, Zenon DEF e
    <3>2. Up(l, v) \in Nat /\ Up(l, e) \in Nat /\ Up(l, v) <= Up(l, e) /\ Up(l, start) \in Nat
      BY <1>1, <1>2, <3>1, UpIs, UpOrder, Zenon
    <3>3. Off(l, v) \in Int /\ Off(l, v) <= Off(l, e)
      BY <3>2 DEF Off
    <3>4. count[l + 1] = Off(l, e) + 1 /\ Off(l, e) \in Nat
      BY <1>2, <1>3, Zenon DEF Enough
    <3> QED BY <3>3, <3>4
  <2> QED BY <2>1, WalkIs, Zenon
<1>4. ASSUME \A v \in TaskPages : Walk(v) = v
      PROVE  Enough
  <2>1. ASSUME NEW l \in 1 .. 3
        PROVE  count[l + 1] = Cardinality(Taken(l))
    <3>1. Off(l, e) < count[l + 1]
      BY <1>1, <1>4, WalkIs, Zenon
    <3>2. count[l + 1] = Width(l)
      BY <1>2, <3>1
    <3> QED BY <1>2, <3>2, Zenon
  <2> QED BY <2>1, Zenon DEF Enough
<1> QED BY <1>3, <1>4, InsideIs, Zenon

\* However many entries a table has and wherever the pages of a task lie, the
\* tables __usertask_create fills translate every one of them exactly when
\* calc_page_table_counts gives the tables that the range takes, and then no
\* entry lies behind the pages allocated for it.
THEOREM TablesTranslate == SpaceSpec => []Translates
<1>1. SpaceInit => SpaceInv
  BY SpaceStart
<1>2. SpaceInv /\ [SpaceNext]_spaceVars => SpaceInv'
  BY SpaceStep
<1>3. SpaceInv => Translates
  BY FilledTranslates
<1> QED BY <1>1, <1>2, <1>3, PTL DEF SpaceSpec

================================================================================
