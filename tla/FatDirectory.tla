------------------------------ MODULE FatDirectory ------------------------------
(***************************************************************************)
(* Directories of FatFs (src/fs/ff.c): positions in a directory, search,   *)
(* registration and removal of entries with long file names, and paths.    *)
(*                                                                         *)
(* A name is a record: chunks, the pieces of 13 characters of the long     *)
(* name; lfn, whether it needs long-name entries; loss, whether its 8.3    *)
(* form base loses information and gets a number.  A short name is a pair  *)
(* <<base, number>>.  dp is the DIR structure, with positions counted in   *)
(* entries; dp->dir is entry Slot(dp) of the window.                       *)
(***************************************************************************)
EXTENDS FatVolume

CONSTANTS
  MaxNumber,      \* numbers tried for a short name (99 in the code)
  Checksum(_)     \* 8-bit checksum of a short name; computed in FatNaming

ASSUME NumberAssumption == MaxNumber \in Nat \ {0}

NoOfs == -1      \* 0xFFFFFFFF in blk_ofs
NoOrd == -1      \* 0xFF in ord and sum

Dot == "."
DotDot == ".."
IsDot(e) == e.kind = "sfn" /\ e.name[1] \in {Dot, DotDot}

Slot(dp) == (dp.dptr % DPS) + 1
Entry(fs, dp) == fs.win[Slot(dp)]
Put(fs, dp, e) == [fs EXCEPT !.win = [@ EXCEPT ![Slot(dp)] = e], !.wflag = TRUE]

Ret(fs, dp, res) == [fs |-> fs, dp |-> dp, res |-> res]

sum_sfn(sfn) == Checksum(sfn)

--------------------------------------------------------------------------------
(***************************************************************************)
(* Positions.                                                              *)
(***************************************************************************)
\* The sectors of the cluster in order; the window is the last one's content.
RECURSIVE ClearFrom(_, _, _)
ClearFrom(fs, sect, n) ==
  IF n = fs.csize THEN fs ELSE ClearFrom(disk_write(fs, sect + n, EmptyDir), sect, n + 1)

dir_clear(fs, clst) ==
  LET sect == clst2sect(fs, clst)
  IN  ClearFrom([sync_window(fs) EXCEPT !.winsect = sect, !.win = EmptyDir], sect, 0)

\* n links on from clst; 0 when the chain ends before.
RECURSIVE Follow(_, _, _)
FollowLink(g, n) ==
  IF InFat(g.fs, g.val) THEN Follow(g.fs, g.val, n - 1) ELSE [g EXCEPT !.val = 0]

Follow(fs, clst, n) ==
  IF n = 0 THEN [fs |-> fs, val |-> clst] ELSE FollowLink(get_fat(fs, clst), n)

\* base is the first sector of cluster w.val, or of the root directory.
SetPosition(w, dp, ofs, base, rest) ==
  IF base = 0 THEN Ret(w.fs, dp, "FR_INT_ERR")
  ELSE Ret(w.fs, [dp EXCEPT !.dptr = ofs, !.clust = w.val, !.sect = base + rest \div DPS],
           "FR_OK")

SetInCluster(w, dp, ofs) ==
  SetPosition(w, dp, ofs, clst2sect(w.fs, w.val), ofs % (w.fs.csize * DPS))

StartCluster(fs, dp) ==
  IF dp.sclust = 0 /\ fs.fs_type = FAT32 THEN fs.dirbase ELSE dp.sclust

dir_sdi(fs, dp, ofs) ==
  IF ofs >= MAX_DIR \/ (StartCluster(fs, dp) = 0 /\ ofs >= fs.n_rootdir)
    THEN Ret(fs, dp, "FR_INT_ERR")
  ELSE IF StartCluster(fs, dp) = 0
    THEN SetPosition([fs |-> fs, val |-> 0], dp, ofs, fs.dirbase, ofs)
  ELSE SetInCluster(Follow(fs, StartCluster(fs, dp), ofs \div (fs.csize * DPS)), dp, ofs)

\* The first sector of the next cluster of a directory; stretch adds one.
Enter(fs, dp, clst) ==
  Ret(fs, [dp EXCEPT !.dptr = @ + 1, !.clust = clst, !.sect = clst2sect(fs, clst)], "FR_OK")

EnterNew(c, dp) ==
  IF c.val = 0 THEN Ret(c.fs, dp, "FR_DENIED")
  ELSE IF c.val = 1 THEN Ret(c.fs, dp, "FR_INT_ERR")
  ELSE Enter(dir_clear(c.fs, c.val), dp, c.val)

EnterNext(g, dp, stretch) ==
  IF g.val < 2 THEN Ret(g.fs, dp, "FR_INT_ERR")
  ELSE IF InFat(g.fs, g.val) THEN Enter(g.fs, dp, g.val)
  ELSE IF ~stretch THEN Ret(g.fs, [dp EXCEPT !.sect = 0], "FR_NO_FILE")
  ELSE EnterNew(create_chain(g.fs, dp.clust), dp)

dir_next(fs, dp, stretch) ==
  LET ofs == dp.dptr + 1
      at(sect) == Ret(fs, [dp EXCEPT !.dptr = ofs, !.sect = sect], "FR_OK")
      end == Ret(fs, [dp EXCEPT !.sect = 0], "FR_NO_FILE")
  IN  IF dp.sect = 0 \/ ofs >= MAX_DIR THEN end
      ELSE IF ofs % DPS # 0 THEN at(dp.sect)
      ELSE IF dp.clust = 0 THEN IF ofs >= fs.n_rootdir THEN end ELSE at(dp.sect + 1)
      ELSE IF (ofs \div DPS) % fs.csize # 0 THEN at(dp.sect + 1)
      ELSE EnterNext(get_fat(fs, dp.clust), dp, stretch)

--------------------------------------------------------------------------------
(***************************************************************************)
(* Entries.                                                                *)
(***************************************************************************)
\* Room for n_ent entries in a row, n of which have been found; d is the result
\* of the step to the next entry.
RECURSIVE AllocOn(_, _, _)
AllocAt(fs, dp, n_ent, n) ==
  LET m == IF Entry(fs, dp).kind \in {"end", "del"} THEN n + 1 ELSE 0
  IN  IF m = n_ent THEN Ret(fs, dp, "FR_OK") ELSE AllocOn(dir_next(fs, dp, TRUE), n_ent, m)

AllocOn(d, n_ent, n) ==
  IF d.res = "FR_OK" THEN AllocAt(move_window(d.fs, d.dp.sect), d.dp, n_ent, n) ELSE d

NoRoom(d) == IF d.res = "FR_NO_FILE" THEN [d EXCEPT !.res = "FR_DENIED"] ELSE d

dir_alloc(fs, dp, n_ent) == NoRoom(AllocOn(dir_sdi(fs, dp, 0), n_ent, 0))

cmp_lfn(name, e) ==
  /\ e.ord <= Len(name.chunks) /\ name.chunks[e.ord] = e.chunk
  /\ e.last => e.ord = Len(name.chunks)

put_lfn(name, ord, sum) ==
  [kind |-> "lfn", ord |-> ord, last |-> ord = Len(name.chunks), sum |-> sum,
   chunk |-> name.chunks[ord]]

\* A long-name entry in a scan that expects ord next: st has ord, sum and the
\* offset blk_ofs of the first entry of the name.
LfnStep(st, e, ofs, fits) ==
  LET s == IF e.last THEN [ord |-> e.ord, sum |-> e.sum, blk_ofs |-> ofs] ELSE st
  IN  [s EXCEPT !.ord = IF e.ord = @ /\ e.sum = s.sum /\ fits THEN @ - 1 ELSE NoOrd]

Scan0 == [ord |-> NoOrd, sum |-> NoOrd, blk_ofs |-> NoOfs]

\* Mutant: the search compares short names only.
Matches_short(st, fn, e) == ~fn.loss /\ e.name = fn.sfn

\* The entry a search ends at.
Matches(st, fn, e) ==
  \/ st.ord = 0 /\ st.sum = sum_sfn(e.name)
  \/ ~fn.loss /\ e.name = fn.sfn

NextScan(st, dp, e) ==
  IF e.kind # "lfn" THEN Scan0
  ELSE IF dp.fn.nolfn THEN st
  ELSE LfnStep(st, e, dp.dptr, cmp_lfn(dp.fn.name, e))

RECURSIVE FindOn(_, _)
FindAt(fs, dp, st, e) ==
  IF e.kind = "end" THEN Ret(fs, dp, "FR_NO_FILE")
  ELSE IF e.kind = "sfn" /\ Matches(st, dp.fn, e)
    THEN Ret(fs, [dp EXCEPT !.blk_ofs = st.blk_ofs, !.attr = e.attr], "FR_OK")
  ELSE FindOn(dir_next(fs, dp, FALSE), NextScan(st, dp, e))

FindIn(fs, dp, st) == FindAt(fs, dp, st, Entry(fs, dp))

FindOn(d, st) == IF d.res = "FR_OK" THEN FindIn(move_window(d.fs, d.dp.sect), d.dp, st) ELSE d

dir_find(fs, dp) == FindOn(dir_sdi(fs, dp, 0), Scan0)

\* The next file or directory, with its long name if it has a complete one:
\* lfnbuf collects the pieces from the last to the first.
Collect(dp, e, st) ==
  IF e.kind # "lfn" \/ st.ord = NoOrd THEN dp
  ELSE [dp EXCEPT !.lfnbuf = <<e.chunk>> \o IF e.last THEN <<>> ELSE @]

NextRead(st, dp, e) ==
  IF e.kind = "lfn" THEN LfnStep(st, e, dp.dptr, TRUE) ELSE [st EXCEPT !.ord = NoOrd]

ReadFile(fs, dp, st, e) ==
  LET whole == st.ord = 0 /\ st.sum = sum_sfn(e.name)
  IN  Ret(fs, [dp EXCEPT !.attr = e.attr, !.blk_ofs = IF whole THEN st.blk_ofs ELSE NoOfs],
          "FR_OK")

RECURSIVE ReadOn(_, _)
ReadPast(fs, dp, st, e) == ReadOn(dir_next(fs, Collect(dp, e, st), FALSE), st)

ReadAt(fs, dp, st, e) ==
  IF e.kind = "end" THEN Ret(fs, [dp EXCEPT !.sect = 0], "FR_NO_FILE")
  ELSE IF e.kind = "sfn" /\ ~IsDot(e) THEN ReadFile(fs, dp, st, e)
  ELSE ReadPast(fs, dp, NextRead(st, dp, e), e)

ReadIn(fs, dp, st) == ReadAt(fs, dp, st, Entry(fs, dp))

ReadOn(d, st) ==
  IF d.res = "FR_OK" THEN ReadIn(move_window(d.fs, d.dp.sect), d.dp, st)
                     ELSE [d EXCEPT !.dp.sect = 0]

dir_read(fs, dp) == ReadOn(Ret(fs, dp, IF dp.sect = 0 THEN "FR_NO_FILE" ELSE "FR_OK"), Scan0)

\* What dir_read found, or nothing at the end of the directory.
get_fileinfo(fs, dp) ==
  IF dp.sect = 0 THEN [fname |-> <<>>]
  ELSE LET e == Entry(fs, dp)
       IN  [fname |-> IF dp.blk_ofs # NoOfs THEN dp.lfnbuf ELSE e.name,
            attr |-> e.attr, size |-> e.size]

\* The first number from n on whose short name is not taken.
RECURSIVE Numbered(_, _, _)
NumberAfter(d, n) == IF d.res = "FR_OK" THEN Numbered(d.fs, d.dp, n + 1) ELSE d

Numbered(fs, dp, n) ==
  IF n > MaxNumber THEN Ret(fs, dp, "FR_DENIED")
  ELSE NumberAfter(dir_find(fs, [dp EXCEPT !.fn.sfn = <<dp.fn.name.base, n>>]), n)

\* Mutant: the number is not looked up first.
gen_numname_first(fs, dp) ==
  Ret(fs, [dp EXCEPT !.fn.sfn = <<dp.fn.name.base, 1>>], "FR_NO_FILE")

gen_numname(fs, dp) ==
  [Numbered(fs, [dp EXCEPT !.fn.nolfn = TRUE, !.fn.loss = FALSE], 1)
     EXCEPT !.dp.fn.nolfn = dp.fn.nolfn, !.dp.fn.loss = dp.fn.loss]

\* The long-name entries, the last piece first, from entry d.dp on.
RECURSIVE PutLfns(_, _)
PutLfn(fs, dp, n) ==
  dir_next(Put(fs, dp, put_lfn(dp.fn.name, n, sum_sfn(dp.fn.sfn))), dp, FALSE)

PutLfns(d, n) ==
  IF n = 0 \/ d.res # "FR_OK" THEN d
  ELSE PutLfns(PutLfn(move_window(d.fs, d.dp.sect), d.dp, n), n - 1)

NewEntry(sfn) == [kind |-> "sfn", name |-> sfn, attr |-> "file", clust |-> 0, size |-> 0]

PutSfn(d) ==
  IF d.res = "FR_OK"
    THEN [d EXCEPT !.fs = Put(move_window(d.fs, d.dp.sect), d.dp, NewEntry(d.dp.fn.sfn))]
    ELSE d

\* n is the number of long-name entries, and a the last entry of the room for all.
RegisterIn(a, n) ==
  IF a.res # "FR_OK" \/ n = 0 THEN PutSfn(a)
  ELSE PutSfn(PutLfns(dir_sdi(a.fs, a.dp, a.dp.dptr - n), n))

RegisterAs(g, n) ==
  IF g.res = "FR_NO_FILE" THEN RegisterIn(dir_alloc(g.fs, g.dp, n + 1), n) ELSE g

dir_register(fs, dp) ==
  IF dp.fn.dot \/ dp.fn.noname THEN Ret(fs, dp, "FR_INVALID_NAME")
  ELSE RegisterAs(IF dp.fn.name.loss THEN gen_numname(fs, dp) ELSE Ret(fs, dp, "FR_NO_FILE"),
                  IF dp.fn.name.lfn THEN Len(dp.fn.name.chunks) ELSE 0)

\* The entries up to last are marked as deleted, from d.dp on.
RECURSIVE RemoveTo(_, _)
RemoveAt(fs, dp, last) ==
  IF dp.dptr >= last THEN Ret(fs, dp, "FR_OK") ELSE RemoveTo(dir_next(fs, dp, FALSE), last)

RemoveTo(d, last) ==
  IF d.res = "FR_OK"
    THEN RemoveAt(Put(move_window(d.fs, d.dp.sect), d.dp, [kind |-> "del"]), d.dp, last)
  ELSE IF d.res = "FR_NO_FILE" THEN [d EXCEPT !.res = "FR_INT_ERR"] ELSE d

dir_remove(fs, dp) ==
  RemoveTo(IF dp.blk_ofs = NoOfs THEN Ret(fs, dp, "FR_OK") ELSE dir_sdi(fs, dp, dp.blk_ofs),
           dp.dptr)

--------------------------------------------------------------------------------
(***************************************************************************)
(* Paths: abs, whether it starts with a separator, and the components.     *)
(***************************************************************************)
NoName == [chunks |-> <<"">>, lfn |-> FALSE, loss |-> FALSE, base |-> ""]

Fn(name, sfn, dot, noname) ==
  [name |-> name, sfn |-> sfn, loss |-> name.loss, nolfn |-> FALSE, dot |-> dot,
   noname |-> noname]

create_name(c) ==
  IF c.base \in {Dot, DotDot} THEN Fn(NoName, <<c.base, 0>>, TRUE, FALSE)
                              ELSE Fn(c, <<c.base, 0>>, FALSE, FALSE)

\* A DIR on the stack: what is not set yet is not read.
NewDir(sclust) ==
  [sclust |-> sclust, dptr |-> 0, clust |-> 0, sect |-> 0, blk_ofs |-> NoOfs,
   fn |-> Fn(NoName, <<"", 0>>, FALSE, TRUE), attr |-> "file", lfnbuf |-> <<>>]

RECURSIVE FollowFrom(_, _, _)
\* "." and ".." that are not found: they are in the root directory, and stay there.
FollowDot(d, dp, rest) ==
  IF rest # <<>> THEN FollowFrom(d.fs, dp, rest)
  ELSE Ret(d.fs, [d.dp EXCEPT !.fn.noname = TRUE, !.fn.dot = FALSE], "FR_OK")

FollowFound(d, dp, rest) ==
  IF d.res = "FR_NO_FILE" /\ dp.fn.dot THEN FollowDot(d, dp, rest)
  ELSE IF d.res = "FR_NO_FILE" /\ rest # <<>> THEN [d EXCEPT !.res = "FR_NO_PATH"]
  ELSE IF d.res # "FR_OK" \/ rest = <<>> THEN d
  ELSE IF d.dp.attr # "dir" THEN [d EXCEPT !.res = "FR_NO_PATH"]
  ELSE FollowFrom(d.fs, [d.dp EXCEPT !.sclust = Entry(d.fs, d.dp).clust], rest)

FollowName(fs, dp, rest) == FollowFound(dir_find(fs, dp), dp, rest)

FollowFrom(fs, dp, comps) ==
  FollowName(fs, [dp EXCEPT !.fn = create_name(Head(comps))], Tail(comps))

follow_path(fs, path) ==
  LET dp == NewDir(IF path.abs THEN 0 ELSE fs.cdir)
  IN  IF path.comps = <<>> THEN dir_sdi(fs, dp, 0) ELSE FollowFrom(fs, dp, path.comps)

================================================================================
