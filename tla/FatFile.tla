-------------------------------- MODULE FatFile ---------------------------------
(***************************************************************************)
(* Open files of FatFs (src/fs/ff.c): the FIL object with its own sector   *)
(* buffer, and the calls on it.                                            *)
(*                                                                         *)
(* A call is an operator from s = [fs, fp, res] to the same.  fp has the   *)
(* fields of FIL; fs says whether fp->obj.fs is set, and dir_ptr is the    *)
(* entry of the sector dir_sect.  A call that writes is given a length and *)
(* one byte value.                                                         *)
(***************************************************************************)
EXTENDS FatDirectory, FatMount

CONSTANT FSizeMax    \* largest value of FSIZE_t (0xFFFFFFFF)

ASSUME FileAssumption == FSizeMax \in Nat

Least(a, b) == IF a < b THEN a ELSE b

\* Entries of a directory that a sector held before, taken as data.
AsBytes(sector) ==
  IF DOMAIN sector = 0 .. SS - 1 THEN sector ELSE [i \in 0 .. SS - 1 |-> 0]

Zeros == [i \in 0 .. SS - 1 |-> 0]

NoFile ==
  [fs |-> FALSE, id |-> 0, flag |-> {}, err |-> "FR_OK", sclust |-> 0, objsize |-> 0,
   fptr |-> 0, clust |-> 0, sect |-> 0, dir_sect |-> 0, dir_ptr |-> 1, buf |-> Zeros]

validate(s) ==
  IF s.fp.fs /\ s.fs.fs_type # 0 /\ s.fp.id = s.fs.id THEN "FR_OK" ELSE "FR_INVALID_OBJECT"

\* validate, then the error a former call left.
Usable(s) == IF validate(s) # "FR_OK" THEN validate(s) ELSE s.fp.err

Answer(s, res) == [s EXCEPT !.res = res]
ABORT(s, res) == [s EXCEPT !.fp.err = res, !.res = res]

\* The dirty buffer is written back.
Flush(s) ==
  IF "DIRTY" \notin s.fp.flag THEN s
  ELSE [s EXCEPT !.fs = disk_write(@, s.fp.sect, s.fp.buf), !.fp.flag = @ \ {"DIRTY"}]

Load(s, sect) == [s EXCEPT !.fp.buf = AsBytes(s.fs.disk[sect])]

Offset(fp) == fp.fptr % SS
SectorOf(s) == (s.fp.fptr \div SS) % s.fs.csize

--------------------------------------------------------------------------------
(***************************************************************************)
(* f_open.                                                                 *)
(***************************************************************************)
Creating == {"CREATE_NEW", "CREATE_ALWAYS", "OPEN_ALWAYS"}

\* A file that is created, or emptied because it existed: its entry first,
\* then its clusters; r is the answer of remove_chain.
Reloaded(r, dp, clst, sect) ==
  IF r.res # "FR_OK" THEN Ret(r.fs, dp, r.res)
  ELSE Ret([move_window(r.fs, sect) EXCEPT !.last_clst = clst - 1], dp, "FR_OK")

EmptyChain(fs, dp, clst) ==
  IF clst = 0 THEN Ret(fs, dp, "FR_OK")
  ELSE Reloaded(remove_chain(fs, clst, 0), dp, clst, fs.winsect)

EmptyEntry(fs, dp, e) ==
  EmptyChain(Put(fs, dp, [e EXCEPT !.attr = "file", !.clust = 0, !.size = 0]), dp, e.clust)

Emptied(d) == IF d.res = "FR_OK" THEN EmptyEntry(d.fs, d.dp, Entry(d.fs, d.dp)) ELSE d

\* The entry a call that may create opens, and whether the file is empty.
Replaceable(d, mode) ==
  IF "CREATE_NEW" \in mode THEN [d EXCEPT !.res = "FR_EXIST"]
  ELSE IF d.dp.attr # "file" THEN [d EXCEPT !.res = "FR_DENIED"]
  ELSE d

EmptyFile(d, mode) == d.res # "FR_OK" \/ "CREATE_ALWAYS" \in mode

OpenOrCreate(d, mode) ==
  IF EmptyFile(d, mode)
    THEN Emptied(IF d.res = "FR_NO_FILE" THEN dir_register(d.fs, d.dp)
                 ELSE IF d.res = "FR_OK" THEN Replaceable(d, mode) ELSE d)
    ELSE Replaceable(d, mode)

OpenExisting(d, mode) ==
  IF d.res # "FR_OK" THEN d
  ELSE IF d.dp.attr = "dir" THEN [d EXCEPT !.res = "FR_NO_FILE"]
  ELSE IF "WRITE" \in mode /\ d.dp.attr = "rdo" THEN [d EXCEPT !.res = "FR_DENIED"]
  ELSE d

\* FA_OPEN_APPEND: the cluster ofs bytes of the chain end in.
RECURSIVE Last(_, _, _)
LastLink(g, ofs) ==
  IF g.val <= 1 THEN [fs |-> g.fs, val |-> g.val, ofs |-> ofs, res |-> "FR_INT_ERR"]
  ELSE Last(g.fs, g.val, ofs - g.fs.csize * SS)

Last(fs, clst, ofs) ==
  IF ofs <= fs.csize * SS THEN [fs |-> fs, val |-> clst, ofs |-> ofs, res |-> "FR_OK"]
  ELSE LastLink(get_fat(fs, clst), ofs)

LoadAt(s, base, ofs) ==
  IF s.res # "FR_OK" \/ ofs % SS = 0 THEN s
  ELSE IF base = 0 THEN Answer(s, "FR_INT_ERR")
  ELSE Load([s EXCEPT !.fp.sect = base + ofs \div SS], base + ofs \div SS)

EndAt(s, l) ==
  LoadAt([s EXCEPT !.fs = l.fs, !.fp.fptr = s.fp.objsize, !.fp.clust = l.val, !.res = l.res],
         clst2sect(l.fs, l.val), l.ofs)

AtEnd(s) == EndAt(s, Last(s.fs, s.fp.sclust, s.fp.objsize))

\* The object of the entry that d has found.
FileFor(d, flag) ==
  LET e == Entry(d.fs, d.dp)
  IN  [fs |-> d.fs, res |-> "FR_OK",
       fp |-> [NoFile EXCEPT !.fs = TRUE, !.id = d.fs.id, !.flag = flag,
                 !.sclust = e.clust, !.objsize = e.size,
                 !.dir_sect = d.fs.winsect, !.dir_ptr = Slot(d.dp)]]

Positioned(s, mode) ==
  IF "SEEKEND" \in mode /\ s.fp.objsize > 0 THEN AtEnd(s) ELSE s

CloseFailed(s) == IF s.res # "FR_OK" THEN [s EXCEPT !.fp.fs = FALSE] ELSE s

OpenEntry(d, mode, flag) ==
  IF d.res # "FR_OK" THEN [fs |-> d.fs, fp |-> NoFile, res |-> d.res]
  ELSE CloseFailed(Positioned(FileFor(d, flag), mode))

OpenPath(d, mode) ==
  IF mode \cap Creating = {} THEN OpenEntry(OpenExisting(d, mode), mode, mode)
  ELSE OpenEntry(OpenOrCreate(d, mode), mode,
                 mode \cup IF EmptyFile(d, mode) THEN {"CREATE_ALWAYS", "MODIFIED"} ELSE {})

Nameless(d) ==
  IF d.res = "FR_OK" /\ d.dp.fn.noname THEN [d EXCEPT !.res = "FR_INVALID_NAME"] ELSE d

OpenOn(m, path, mode) ==
  IF m.res # "FR_OK" THEN [fs |-> m.fs, fp |-> NoFile, res |-> m.res]
  ELSE OpenPath(Nameless(follow_path(m.fs, path)), mode)

f_open(fs, path, mode) == OpenOn(mount_volume(fs), path, mode)

--------------------------------------------------------------------------------
(***************************************************************************)
(* f_read.                                                                 *)
(***************************************************************************)
\* Whole sectors are read past the buffer, except for the one it holds dirty.
\* Mutant: that one is read from the device too.
Direct_stale(s, sect, n) ==
  [i \in 1 .. n * SS |-> AsBytes(s.fs.disk[sect + (i - 1) \div SS])[(i - 1) % SS]]

Direct(s, sect, n) ==
  [i \in 1 .. n * SS |->
     LET k == sect + (i - 1) \div SS
     IN  IF "DIRTY" \in s.fp.flag /\ k = s.fp.sect THEN s.fp.buf[(i - 1) % SS]
         ELSE AsBytes(s.fs.disk[k])[(i - 1) % SS]]

Buffered(fp, n) == [i \in 1 .. n |-> fp.buf[Offset(fp) + i - 1]]

\* The cluster of the position, which is at the beginning of a sector.
ReadCluster(s) ==
  IF SectorOf(s) # 0 THEN [fs |-> s.fs, val |-> s.fp.clust]
  ELSE IF s.fp.fptr = 0 THEN [fs |-> s.fs, val |-> s.fp.sclust]
  ELSE get_fat(s.fs, s.fp.clust)

\* The buffer holds sector sect.
Hold(s, sect) ==
  IF s.fp.sect = sect THEN s ELSE [Load(Flush(s), sect) EXCEPT !.fp.sect = sect]

RECURSIVE Reading(_, _, _)
ReadBuffer(s, btr, data) ==
  LET n == Least(SS - Offset(s.fp), btr)
  IN  Reading([s EXCEPT !.fp.fptr = @ + n], btr - n, data \o Buffered(s.fp, n))

ReadSectors(s, base, btr, data) ==
  LET sect == base + SectorOf(s)
      cc == Least(btr \div SS, s.fs.csize - SectorOf(s))
  IN  IF base = 0 THEN [s |-> ABORT(s, "FR_INT_ERR"), data |-> data]
      ELSE IF cc = 0 THEN ReadBuffer(Hold(s, sect), btr, data)
      ELSE Reading([s EXCEPT !.fp.fptr = @ + SS * cc], btr - SS * cc, data \o Direct(s, sect, cc))

ReadFromCluster(s, g, btr, data) ==
  IF g.val < 2 THEN [s |-> ABORT([s EXCEPT !.fs = g.fs], "FR_INT_ERR"), data |-> data]
  ELSE ReadSectors([s EXCEPT !.fs = g.fs, !.fp.clust = g.val], clst2sect(g.fs, g.val), btr, data)

Reading(s, btr, data) ==
  IF btr = 0 THEN [s |-> s, data |-> data]
  ELSE IF Offset(s.fp) # 0 THEN ReadBuffer(s, btr, data)
  ELSE ReadFromCluster(s, ReadCluster(s), btr, data)

f_read(s, btr) ==
  LET err == Usable(s)
  IN  IF err # "FR_OK" THEN [s |-> Answer(s, err), data |-> <<>>]
      ELSE IF "READ" \notin s.fp.flag THEN [s |-> Answer(s, "FR_DENIED"), data |-> <<>>]
      ELSE Reading(Answer(s, "FR_OK"), Least(btr, s.fp.objsize - s.fp.fptr), <<>>)

--------------------------------------------------------------------------------
(***************************************************************************)
(* f_write.                                                                *)
(***************************************************************************)
\* cc whole sectors are written past the buffer, one after the other on the
\* device; the buffer follows if it holds one of them.
RECURSIVE WriteSectors(_, _, _, _)
WriteSectors(fs, sect, n, v) ==
  IF n = 0 THEN fs
  ELSE WriteSectors(disk_write(fs, sect, [i \in 0 .. SS - 1 |-> v]), sect + 1, n - 1, v)

WriteDirect(s, sect, n, v) ==
  IF s.fp.sect \in sect .. sect + n - 1
    THEN [s EXCEPT !.fs = WriteSectors(@, sect, n, v),
                   !.fp.buf = [i \in 0 .. SS - 1 |-> v], !.fp.flag = @ \ {"DIRTY"}]
    ELSE [s EXCEPT !.fs = WriteSectors(@, sect, n, v)]

\* The buffer gets ready for part of a sector.
Prepare(s, sect) ==
  [(IF s.fp.sect # sect /\ s.fp.fptr < s.fp.objsize THEN Load(s, sect) ELSE s)
     EXCEPT !.fp.sect = sect]

Advance(fp, n) ==
  [fp EXCEPT !.fptr = @ + n, !.objsize = IF fp.fptr + n > @ THEN fp.fptr + n ELSE @]

\* The cluster of the position, allocated where the chain ends.
WriteCluster(s) ==
  IF SectorOf(s) # 0 THEN [fs |-> s.fs, val |-> s.fp.clust]
  ELSE IF s.fp.fptr # 0 \/ s.fp.sclust = 0
    THEN create_chain(s.fs, IF s.fp.fptr = 0 THEN 0 ELSE s.fp.clust)
  ELSE [fs |-> s.fs, val |-> s.fp.sclust]

FillBuffer(fp, n, v) ==
  LET ofs == Offset(fp)
  IN  [fp EXCEPT !.buf = [i \in 0 .. SS - 1 |-> IF i \in ofs .. ofs + n - 1 THEN v ELSE @[i]],
                 !.flag = @ \cup {"DIRTY"}]

RECURSIVE Writing(_, _, _, _)
WriteBuffer(s, btw, v, bw) ==
  LET n == Least(SS - Offset(s.fp), btw)
  IN  Writing([s EXCEPT !.fp = Advance(FillBuffer(@, n, v), n)], btw - n, v, bw + n)

WriteToSectors(s, base, btw, v, bw) ==
  LET sect == base + SectorOf(s)
      cc == Least(btw \div SS, s.fs.csize - SectorOf(s))
  IN  IF base = 0 THEN [s |-> ABORT(s, "FR_INT_ERR"), bw |-> bw]
      ELSE IF cc = 0 THEN WriteBuffer(Prepare(s, sect), btw, v, bw)
      ELSE Writing([WriteDirect(s, sect, cc, v) EXCEPT !.fp = Advance(@, SS * cc)],
                   btw - SS * cc, v, bw + SS * cc)

WriteToCluster(s, g, btw, v, bw) ==
  IF g.val = 0 THEN [s |-> [s EXCEPT !.fs = g.fs], bw |-> bw]
  ELSE IF g.val = 1 THEN [s |-> ABORT([s EXCEPT !.fs = g.fs], "FR_INT_ERR"), bw |-> bw]
  ELSE WriteToSectors(Flush([s EXCEPT !.fs = g.fs, !.fp.clust = g.val,
                                      !.fp.sclust = IF @ = 0 THEN g.val ELSE @]),
                      clst2sect(g.fs, g.val), btw, v, bw)

Writing(s, btw, v, bw) ==
  IF btw = 0 THEN [s |-> s, bw |-> bw]
  ELSE IF Offset(s.fp) # 0 THEN WriteBuffer(s, btw, v, bw)
  ELSE WriteToCluster(s, WriteCluster(s), btw, v, bw)

\* A file does not grow past the largest FSIZE_t.
Clip(fp, btw) ==
  IF (fp.fptr + btw) % (FSizeMax + 1) < fp.fptr THEN FSizeMax - fp.fptr ELSE btw

Modified(w) == IF w.s.res = "FR_OK" THEN [w EXCEPT !.s.fp.flag = @ \cup {"MODIFIED"}] ELSE w

f_write(s, btw, v) ==
  IF Usable(s) # "FR_OK" THEN [s |-> Answer(s, Usable(s)), bw |-> 0]
  ELSE IF "WRITE" \notin s.fp.flag THEN [s |-> Answer(s, "FR_DENIED"), bw |-> 0]
  ELSE Modified(Writing(Answer(s, "FR_OK"), Clip(s.fp, btw), v, 0))

--------------------------------------------------------------------------------
(***************************************************************************)
(* f_sync, f_close, f_lseek, f_truncate.                                   *)
(***************************************************************************)
WriteEntry(fs, fp) ==
  Poke(fs, [fs.win EXCEPT ![fp.dir_ptr] =
              [@ EXCEPT !.clust = fp.sclust, !.size = fp.objsize]])

\* Mutant: FA_MODIFIED is cleared only when the device reports success.
SyncDone_strict(s, r) ==
  [s EXCEPT !.fs = r.fs, !.res = r.res,
            !.fp.flag = IF r.res = "FR_OK" THEN @ \ {"MODIFIED"} ELSE @]

\* FA_MODIFIED is cleared whatever sync_fs answers.
SyncDone(s, r) == [s EXCEPT !.fs = r.fs, !.res = r.res, !.fp.flag = @ \ {"MODIFIED"}]

SyncEntry(s) == SyncDone(s, sync_fs(WriteEntry(move_window(s.fs, s.fp.dir_sect), s.fp)))

\* Data, FAT and entry reach the device in this order.
f_sync(s) ==
  IF validate(s) # "FR_OK" THEN Answer(s, validate(s))
  ELSE IF "MODIFIED" \notin s.fp.flag THEN Answer(s, "FR_OK")
  ELSE SyncEntry(Flush(s))

\* An error of f_sync leaves the object open.
CloseSynced(s) ==
  IF s.res # "FR_OK" THEN s
  ELSE IF validate(s) # "FR_OK" THEN Answer(s, validate(s))
  ELSE [s EXCEPT !.fp.fs = FALSE]

f_close(s) == CloseSynced(f_sync(s))

\* From clst on to the cluster that holds ofs, which a file open for writing
\* gets if it is not there; clst is 0 when the volume is full.
RECURSIVE Seeking(_, _, _)
SeekLink(s, g, ofs) ==
  IF "WRITE" \in s.fp.flag /\ g.val = 0
    THEN [s |-> [s EXCEPT !.fs = g.fs], clst |-> 0, ofs |-> 0]
  ELSE IF ~InFat(g.fs, g.val)
    THEN [s |-> ABORT([s EXCEPT !.fs = g.fs], "FR_INT_ERR"), clst |-> 0, ofs |-> 0]
  ELSE Seeking([s EXCEPT !.fs = g.fs, !.fp.clust = g.val], g.val, ofs)

Seeking(s, clst, ofs) ==
  LET bcs == s.fs.csize * SS
  IN  IF ofs <= bcs THEN [s |-> s, clst |-> clst, ofs |-> ofs]
      ELSE SeekLink([s EXCEPT !.fp.fptr = @ + bcs],
                    IF "WRITE" \in s.fp.flag THEN create_chain(s.fs, clst)
                                             ELSE get_fat(s.fs, clst), ofs - bcs)

\* Where the walk to ofs > 0 begins: the current cluster if ofs is not before
\* it, else the start c of the chain, which is created if there is none.
SeekFirst(s, c, ofs) ==
  IF c.val = 1
    THEN [s |-> ABORT([s EXCEPT !.fs = c.fs], "FR_INT_ERR"), clst |-> 0, ofs |-> 0]
    ELSE [s |-> [s EXCEPT !.fs = c.fs, !.fp.sclust = c.val, !.fp.clust = c.val],
          clst |-> c.val, ofs |-> ofs]

SeekStart(s, ofs) ==
  LET bcs == s.fs.csize * SS
      here == ((s.fp.fptr - 1) \div bcs) * bcs
  IN  IF s.fp.fptr > 0 /\ (ofs - 1) \div bcs >= (s.fp.fptr - 1) \div bcs
        THEN [s |-> [s EXCEPT !.fp.fptr = here], clst |-> s.fp.clust, ofs |-> ofs - here]
        ELSE SeekFirst([s EXCEPT !.fp.fptr = 0],
                       IF s.fp.sclust = 0 THEN create_chain(s.fs, 0)
                       ELSE [fs |-> s.fs, val |-> s.fp.sclust], ofs)

SeekOn(b) == IF b.clst = 0 THEN b ELSE Seeking(b.s, b.clst, b.ofs)

Refill(s, sect) == IF Offset(s.fp) = 0 THEN s ELSE Hold(s, sect)

\* The end of the file moves with the position.
Extended(s) ==
  IF s.fp.fptr <= s.fp.objsize THEN s
  ELSE [s EXCEPT !.fp.objsize = s.fp.fptr, !.fp.flag = @ \cup {"MODIFIED"}]

\* ofs is what is left behind the last cluster boundary, in sector base on.
ArriveIn(s, base, ofs) ==
  IF ofs % SS # 0 /\ base = 0 THEN ABORT(s, "FR_INT_ERR")
  ELSE Refill(Extended(s), IF ofs % SS # 0 THEN base + ofs \div SS ELSE 0)

Arrive(w) ==
  IF w.s.res # "FR_OK" THEN w.s
  ELSE IF w.clst = 0 THEN Refill(Extended(w.s), 0)
  ELSE ArriveIn([w.s EXCEPT !.fp.fptr = @ + w.ofs], clst2sect(w.s.fs, w.clst), w.ofs)

SeekTo(s, ofs) ==
  IF ofs = 0 THEN [s EXCEPT !.fp.fptr = 0] ELSE Arrive(SeekOn(SeekStart(s, ofs)))

f_lseek(s, ofs) ==
  IF Usable(s) # "FR_OK" THEN Answer(s, Usable(s))
  ELSE SeekTo(Answer(s, "FR_OK"),
              IF "WRITE" \in s.fp.flag THEN ofs ELSE Least(ofs, s.fp.objsize))

\* The clusters after the position go.
CutChain(s, r) == [s EXCEPT !.fs = r.fs, !.res = r.res]

CutAfter(s, g) ==
  IF g.val = 1 THEN [s EXCEPT !.fs = g.fs, !.res = "FR_INT_ERR"]
  ELSE IF g.val < g.fs.n_fatent THEN CutChain(s, remove_chain(g.fs, g.val, s.fp.clust))
  ELSE [s EXCEPT !.fs = g.fs]

Cut(s) ==
  IF s.fp.fptr = 0
    THEN CutChain([s EXCEPT !.fp.sclust = 0], remove_chain(s.fs, s.fp.sclust, 0))
    ELSE CutAfter(s, get_fat(s.fs, s.fp.clust))

TruncateDone(s) == IF s.res # "FR_OK" THEN ABORT(s, s.res) ELSE Flush(s)

f_truncate(s) ==
  IF Usable(s) # "FR_OK" THEN Answer(s, Usable(s))
  ELSE IF "WRITE" \notin s.fp.flag THEN Answer(s, "FR_DENIED")
  ELSE IF s.fp.fptr >= s.fp.objsize THEN Answer(s, "FR_OK")
  ELSE TruncateDone([Cut(Answer(s, "FR_OK")) EXCEPT !.fp.objsize = s.fp.fptr,
                                                    !.fp.flag = @ \cup {"MODIFIED"}])

================================================================================
