-------------------------------- MODULE FatTree ---------------------------------
(***************************************************************************)
(* The calls of FatFs (src/fs/ff.c) that work on names: directories, the   *)
(* current directory, and the number of free clusters.  A call is an       *)
(* operator from fs to a record with fs, the answer res, and what it       *)
(* returns.                                                                *)
(***************************************************************************)
EXTENDS FatFile

Done(fs, res) == [fs |-> fs, res |-> res]

\* mount_volume and follow_path, with which every call begins.
WalkOn(m, path) ==
  IF m.res = "FR_OK" THEN follow_path(m.fs, path) ELSE Ret(m.fs, NewDir(0), m.res)

Walk(fs, path) == WalkOn(mount_volume(fs), path)

\* "." and "..", and a path without a name, cannot be created or removed.
Unnamed(dp) == dp.fn.dot \/ dp.fn.noname

StatFound(d) ==
  [fs |-> d.fs, res |-> d.res,
   fno |-> IF d.res = "FR_OK" THEN get_fileinfo(d.fs, d.dp) ELSE [fname |-> <<>>]]

f_stat(fs, path) == StatFound(Nameless(Walk(fs, path)))

--------------------------------------------------------------------------------
(***************************************************************************)
(* f_unlink, f_mkdir, f_rename.  They write everything back with sync_fs,  *)
(* whose answer is theirs.                                                 *)
(***************************************************************************)
\* FR_OK if the directory at clst has no file and no directory.
NothingRead(d) ==
  Done(d.fs, IF d.res = "FR_OK" THEN "FR_DENIED"
             ELSE IF d.res = "FR_NO_FILE" THEN "FR_OK" ELSE d.res)

NothingIn(d) == IF d.res # "FR_OK" THEN Done(d.fs, d.res) ELSE NothingRead(dir_read(d.fs, d.dp))

Vacant(fs, clst) ==
  IF clst = fs.cdir THEN Done(fs, "FR_DENIED") ELSE NothingIn(dir_sdi(fs, NewDir(clst), 0))

\* A call that writes everything back at its end.
SyncAll(r) == IF r.res = "FR_OK" THEN sync_fs(r.fs) ELSE Done(r.fs, r.res)

GiveBack(r, clst) ==
  IF r.res = "FR_OK" /\ clst # 0 THEN remove_chain(r.fs, clst, 0) ELSE r

\* Mutant: the clusters go before the entry.
Unlinked_chainFirst(v, dp, clst) ==
  IF v.res # "FR_OK" THEN v
  ELSE SyncAll(dir_remove(GiveBack(v, clst).fs, dp))

\* The entry goes before the clusters.
Unlinked(v, dp, clst) ==
  IF v.res # "FR_OK" THEN v ELSE SyncAll(GiveBack(dir_remove(v.fs, dp), clst))

UnlinkEntry(fs, dp, clst) ==
  Unlinked(IF dp.attr = "dir" THEN Vacant(fs, clst) ELSE Done(fs, "FR_OK"), dp, clst)

UnlinkFound(d) ==
  IF d.res # "FR_OK" THEN Done(d.fs, d.res)
  ELSE IF Unnamed(d.dp) THEN Done(d.fs, "FR_INVALID_NAME")
  ELSE IF d.dp.attr = "rdo" THEN Done(d.fs, "FR_DENIED")
  ELSE UnlinkEntry(d.fs, d.dp, Entry(d.fs, d.dp).clust)

f_unlink(fs, path) == UnlinkFound(Walk(fs, path))

DirEntry(name, clst) ==
  [kind |-> "sfn", name |-> <<name, 0>>, attr |-> "dir", clust |-> clst, size |-> 0]

\* Mutant: the cluster is not given back when there is no room for the entry.
Unmake_not(fs, clst) == fs

Unmake(fs, clst) == remove_chain(fs, clst, 0).fs

\* A cluster with "." and "..", and then the entry that refers to it.
MakeEntry(d, clst) ==
  IF d.res # "FR_OK" THEN Done(Unmake(d.fs, clst), d.res)
  ELSE sync_fs(Put(d.fs, d.dp, [Entry(d.fs, d.dp) EXCEPT !.clust = clst, !.attr = "dir"]))

MakeDots(fs, dp, clst) ==
  dir_register([fs EXCEPT !.win[1] = DirEntry(Dot, clst), !.win[2] = DirEntry(DotDot, dp.sclust),
                          !.wflag = TRUE], dp)

MakeIn(c, dp) ==
  IF c.val < 2 THEN Done(Unmake(c.fs, c.val), IF c.val = 0 THEN "FR_DENIED" ELSE "FR_INT_ERR")
  ELSE MakeEntry(MakeDots(dir_clear(c.fs, c.val), dp, c.val), c.val)

MakeAt(d) ==
  IF d.res = "FR_OK" THEN Done(d.fs, IF Unnamed(d.dp) THEN "FR_INVALID_NAME" ELSE "FR_EXIST")
  ELSE IF d.res # "FR_NO_FILE" THEN Done(d.fs, d.res)
  ELSE MakeIn(create_chain(d.fs, 0), d.dp)

f_mkdir(fs, path) == MakeAt(Walk(fs, path))

\* A directory that changes its parent gets a new "..".
SetParent(fs, to) ==
  IF fs.win[2].name[1] = DotDot THEN [fs EXCEPT !.win[2].clust = to, !.wflag = TRUE] ELSE fs

Reparented(fs, clst, from, to) ==
  IF from = to THEN Done(fs, "FR_OK")
  ELSE IF clst2sect(fs, clst) = 0 THEN Done(fs, "FR_INT_ERR")
  ELSE Done(SetParent(move_window(fs, clst2sect(fs, clst)), to), "FR_OK")

\* The new entry is made before the old one, at dp, is removed.  buf is the old
\* entry, n where the new name leads to.
RemoveOld(r, dp) == IF r.res # "FR_OK" THEN r ELSE SyncAll(dir_remove(r.fs, dp))

MoveEntry(fs, at, buf) ==
  Put(fs, at, [Entry(fs, at) EXCEPT !.attr = buf.attr, !.clust = buf.clust, !.size = buf.size])

Moved(r, dp, buf) ==
  IF r.res # "FR_OK" THEN Done(r.fs, r.res)
  ELSE IF buf.attr # "dir" THEN RemoveOld(Done(MoveEntry(r.fs, r.dp, buf), "FR_OK"), dp)
  ELSE RemoveOld(Reparented(MoveEntry(r.fs, r.dp, buf), buf.clust, dp.sclust, r.dp.sclust), dp)

RenameTo(n, dp, buf) ==
  IF n.res = "FR_OK" /\ ~(n.dp.sclust = dp.sclust /\ n.dp.dptr = dp.dptr)
    THEN Done(n.fs, "FR_EXIST")
  ELSE IF n.res \notin {"FR_OK", "FR_NO_FILE"} THEN Done(n.fs, n.res)
  ELSE Moved(dir_register(n.fs, n.dp), dp, buf)

RenameFound(d, new) ==
  IF d.res # "FR_OK" THEN Done(d.fs, d.res)
  ELSE IF Unnamed(d.dp) THEN Done(d.fs, "FR_INVALID_NAME")
  ELSE RenameTo(follow_path(d.fs, new), d.dp, Entry(d.fs, d.dp))

f_rename(fs, old, new) == RenameFound(Walk(fs, old), new)

--------------------------------------------------------------------------------
(***************************************************************************)
(* Reading directories, and the current directory.                         *)
(***************************************************************************)
\* The start cluster of the directory a path names, for f_opendir and f_chdir.
DirectoryAt(d) ==
  IF d.res = "FR_NO_FILE" THEN [d EXCEPT !.res = "FR_NO_PATH"]
  ELSE IF d.res # "FR_OK" \/ d.dp.fn.noname THEN d
  ELSE IF d.dp.attr # "dir" THEN [d EXCEPT !.res = "FR_NO_PATH"]
  ELSE [d EXCEPT !.dp.sclust = Entry(d.fs, d.dp).clust]

Directory(fs, path) == DirectoryAt(Walk(fs, path))

Rewind(d) == IF d.res = "FR_OK" THEN dir_sdi(d.fs, d.dp, 0) ELSE d

f_opendir(fs, path) == Rewind(Directory(fs, path))

\* The next item and a step behind it; an empty name at the end.
EndIsFine(res) == IF res = "FR_NO_FILE" THEN "FR_OK" ELSE res

StepBehind(d, fno) == [fs |-> d.fs, dp |-> d.dp, res |-> EndIsFine(d.res), fno |-> fno]

ReadItem(d) ==
  IF EndIsFine(d.res) # "FR_OK"
    THEN [fs |-> d.fs, dp |-> d.dp, res |-> d.res, fno |-> [fname |-> <<>>]]
    ELSE StepBehind(dir_next(d.fs, d.dp, FALSE), get_fileinfo(d.fs, d.dp))

f_readdir(fs, dp) == ReadItem(dir_read(fs, dp))

ChangeTo(d) == Done(IF d.res = "FR_OK" THEN [d.fs EXCEPT !.cdir = d.dp.sclust] ELSE d.fs, d.res)

f_chdir(fs, path) == ChangeTo(Directory(fs, path))

\* The entry whose start cluster is ccl, from d.dp on.
RECURSIVE EntryFor(_, _)
EntryRead(d, ccl) ==
  IF d.res # "FR_OK" \/ Entry(d.fs, d.dp).clust = ccl THEN d
  ELSE EntryFor(dir_next(d.fs, d.dp, FALSE), ccl)

EntryFor(d, ccl) == IF d.res = "FR_OK" THEN EntryRead(dir_read(d.fs, d.dp), ccl) ELSE d

\* Names from the directory ccl up to the root, as long as i cells are left;
\* a name takes one cell for each of its parts and one for the separator.
Ascended(fs, res, i, path) == [fs |-> fs, res |-> res, i |-> i, path |-> path]

RECURSIVE Ascend(_, _, _, _)
AscendPast(fs, up, name, i, path) ==
  IF i < Len(name) + 1 THEN Ascended(fs, "FR_NOT_ENOUGH_CORE", i, path)
  ELSE Ascend(fs, up, i - Len(name) - 1, <<name>> \o path)

AscendFound(e, up, i, path) ==
  IF e.res # "FR_OK"
    THEN Ascended(e.fs, IF e.res = "FR_NO_FILE" THEN "FR_INT_ERR" ELSE e.res, i, path)
    ELSE AscendPast(e.fs, up, get_fileinfo(e.fs, e.dp).fname, i, path)

AscendTo(t, ccl, up, i, path) ==
  IF t.res # "FR_OK" THEN Ascended(t.fs, t.res, i, path)
  ELSE AscendFound(EntryFor(t, ccl), up, i, path)

AscendUp(fs, ccl, up, i, path) == AscendTo(dir_sdi(fs, NewDir(up), 0), ccl, up, i, path)

AscendAt(fs, dp, ccl, i, path) == AscendUp(fs, ccl, Entry(fs, dp).clust, i, path)

AscendFrom(s, ccl, i, path) ==
  IF s.res # "FR_OK" THEN Ascended(s.fs, s.res, i, path)
  ELSE AscendAt(move_window(s.fs, s.dp.sect), s.dp, ccl, i, path)

Ascend(fs, ccl, i, path) ==
  IF ccl = 0 THEN Ascended(fs, "FR_OK", i, path)
  ELSE AscendFrom(dir_sdi(fs, NewDir(ccl), 1), ccl, i, path)

\* last is the cell that gets the terminating NUL.
NoPath(r) == [fs |-> r.fs, res |-> r.res, path |-> <<>>, last |-> 0]

Written(a, len) ==
  IF a.res # "FR_OK" THEN NoPath(a)
  ELSE [fs |-> a.fs, res |-> "FR_OK", path |-> a.path,
        last |-> len - IF a.i = len THEN len - 1 ELSE a.i]

CwdOn(m, len) ==
  IF m.res # "FR_OK" THEN NoPath(m) ELSE Written(Ascend(m.fs, m.fs.cdir, len, <<>>), len)

f_getcwd(fs, len) == CwdOn(mount_volume(fs), len)

--------------------------------------------------------------------------------
(***************************************************************************)
(* f_getfree.                                                              *)
(***************************************************************************)
\* Every entry from clst on, read from the window, or with get_fat on FAT12.
Wide(fs, i) == [fs |-> fs, val |-> IF fs.fs_type = FAT16 THEN ld_16(fs.win, i) ELSE ld_28(fs.win, i)]

RECURSIVE CountFrom(_, _, _)
CountEntry(g, clst, nfree) ==
  IF g.fs.fs_type = FAT12 /\ g.val = 1 THEN [fs |-> g.fs, res |-> "FR_INT_ERR", nclst |-> 0]
  ELSE CountFrom(g.fs, clst + 1, IF g.val = 0 THEN nfree + 1 ELSE nfree)

CountFrom(fs, clst, nfree) ==
  IF clst = fs.n_fatent THEN [fs |-> fs, res |-> "FR_OK", nclst |-> nfree]
  ELSE CountEntry(IF fs.fs_type = FAT12 THEN get_fat(fs, clst)
                  ELSE Wide(AtByte(fs, Byte(fs, clst)), Byte(fs, clst) % SS), clst, nfree)

Counted(c) ==
  IF c.res # "FR_OK" THEN c ELSE [c EXCEPT !.fs = Mark([c.fs EXCEPT !.free_clst = c.nclst])]

FreeOf(m) ==
  IF m.res # "FR_OK" THEN [fs |-> m.fs, res |-> m.res, nclst |-> 0]
  ELSE IF m.fs.free_clst <= m.fs.n_fatent - 2
    THEN [fs |-> m.fs, res |-> "FR_OK", nclst |-> m.fs.free_clst]
  ELSE Counted(CountFrom(m.fs, IF m.fs.fs_type = FAT12 THEN 2 ELSE 0, 0))

f_getfree(fs) == FreeOf(mount_volume(fs))

--------------------------------------------------------------------------------
(***************************************************************************)
(* src/fs/fatfs.c: the binding to the VFS.                                 *)
(***************************************************************************)
RECURSIVE ListFrom(_, _, _)
ListItem(r, list) ==
  IF r.res # "FR_OK" \/ r.fno.fname = <<>> THEN [fs |-> r.fs, res |-> r.res, list |-> list]
  ELSE ListFrom(r.fs, r.dp, Append(list, r.fno))

ListFrom(fs, dp, list) == ListItem(f_readdir(fs, dp), list)

ListIn(d) ==
  IF d.res # "FR_OK" THEN [fs |-> d.fs, res |-> d.res, list |-> <<>>]
  ELSE ListFrom(d.fs, d.dp, <<>>)

\* What fatfs_readdir prints.
Listing(fs, path) == ListIn(f_opendir(fs, path))

\* One level of the path after the other, as long as it is made or exists.
RECURSIVE MakeLevels(_, _, _)
MakeOn(r, path, n) ==
  IF r.res \notin {"FR_OK", "FR_EXIST"} THEN r
  ELSE IF n >= Len(path.comps) THEN Done(r.fs, "FR_OK")
  ELSE MakeLevels(r.fs, path, n + 1)

MakeLevels(fs, path, n) ==
  MakeOn(f_mkdir(fs, [path EXCEPT !.comps = SubSeq(@, 1, Least(n, Len(@)))]), path, n)

\* FA_CREATE_NEW and f_close, whose answer is an error although all is done.
Closed(s) == IF s.res = "FR_OK" THEN f_close(s) ELSE s

Creation(s) == Done(s.fs, s.res)

Created(fs, path) == Creation(Closed(f_open(fs, path, {"CREATE_NEW"})))

================================================================================
