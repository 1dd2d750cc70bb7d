-------------------------------- MODULE FatFiles --------------------------------
(***************************************************************************)
(* The operations of src/fs/fatfs.c on open files, over one FatFs volume.  *)
(* A file has at most one handle, as the dentry cache of the VFS has it,   *)
(* and a call runs to its end before the next (FF_FS_REENTRANT is 0); only *)
(* the loops that repeat f_sync take a step for every round.  f_lseek and  *)
(* f_truncate, which the binding does not use, are calls of their own.     *)
(***************************************************************************)
EXTENDS FatView

CONSTANTS
  Disks,      \* volumes the system may be started on
  File,       \* names in the root directory
  Modes, Lengths, Offsets,   \* arguments of the calls
  MaxCalls    \* bound: calls in all

ASSUME FilesAssumption == MaxCalls \in Nat

VARIABLES
  fs,      \* fatfs_root, with the device
  fil,     \* the FIL of each file
  loop,    \* the file whose f_sync is repeated and the caller
  out,     \* the last call: name, file, argument, value, answer, bytes read
  content, \* what each file holds: determined by fs and fil
  full,    \* no cluster is free
  cut,     \* files truncated since their last f_sync
  hurt,    \* what a power failure during the last call would have damaged
  calls

vars == <<fs, fil, loop, out, content, full, cut, hurt, calls>>

None == "none"
NoLoop == [f |-> None, by |-> None]
Range(q) == {q[i] : i \in DOMAIN q}

Name(f) == [chunks |-> <<f>>, lfn |-> FALSE, loss |-> FALSE, base |-> f]
PathOf(f) == [abs |-> TRUE, comps |-> <<Name(f)>>]

--------------------------------------------------------------------------------
(***************************************************************************)
(* Files as they are on a disk, and as their handles see them.             *)
(***************************************************************************)
NoContent == <<-1>>
Broken == <<-2>>

EntryIn(list, f) ==
  LET at == {i \in Items(list) : list[i].name = <<f, 0>>}
  IN  IF at = {} THEN [kind |-> "end", clust |-> 0] ELSE list[CHOOSE i \in at : TRUE]

EntryOf(v, d, f) == EntryIn(Listed(v, d, 0), f)

FileOf(v, d, e) ==
  IF e.kind = "end" THEN NoContent
  ELSE IF Covers(v, d, e.clust, e.size) THEN Bytes(v, d, e.clust, e.size) ELSE Broken

OnDisk(v, d, f) == FileOf(v, d, EntryOf(v, d, f))

\* The disk with the sector that a handle holds in its buffer.
Seen(v, fp) ==
  IF "DIRTY" \in fp.flag THEN [View(v) EXCEPT ![fp.sect] = fp.buf] ELSE View(v)

Contents(v, fps) ==
  [f \in File |->
     IF ~fps[f].fs THEN OnDisk(v, View(v), f)
     ELSE IF Covers(v, View(v), fps[f].sclust, fps[f].objsize)
            THEN Bytes(v, Seen(v, fps[f]), fps[f].sclust, fps[f].objsize)
     ELSE Broken]

Opened(f) == fil[f].fs

\* Closed, or with nothing written since the last f_sync.
Synced(f) == Opened(f) => "MODIFIED" \notin fil[f].flag

\* The files on a disk, what they hold and their clusters.
FilesOn(v, d) ==
  {[file |-> f, data |-> OnDisk(v, d, f), held |-> Range(ChainFrom(v, d, EntryOf(v, d, f).clust))] :
     f \in File}

\* What a disk that a call on f went through shows: a file other than f that was
\* synced has changed, a file has lost clusters, or two files share some.
DamageOn(f, was, now) ==
  {{x.file} : x \in {x \in now :
     \/ x.data = Broken
     \/ x.file # f /\ Synced(x.file) /\ ~\E w \in was : w.file = x.file /\ w.data = x.data}}
  \cup {{x.file, y.file} : <<x, y>> \in {<<x, y>> \in now \X now :
                                         x # y /\ x.held \cap y.held # {}}}

DamageSince(f, was, past) == UNION {DamageOn(f, was, FilesOn(fs, d)) : d \in Range(past)}

Damage(f, past) == DamageSince(f, FilesOn(fs, fs.disk), past)

Init ==
  /\ fs \in {f_mount(Unmounted(d)).fs : d \in Disks}
  /\ fil = [f \in File |-> NoFile] /\ loop = NoLoop /\ out = None
  /\ content = Contents(fs, fil) /\ full = (FreeClusters(fs, View(fs)) = {})
  /\ cut = {} /\ hurt = {} /\ calls = 0

--------------------------------------------------------------------------------
(***************************************************************************)
(* The calls.  s is what a call leaves of fs and of the handle of f.       *)
(***************************************************************************)
Call(op, f, arg, s, data) ==
  LET fps == [fil EXCEPT ![f] = IF s.fp.fs THEN s.fp ELSE NoFile]
      truncated == op = "truncate" /\ s.fp.objsize # fil[f].objsize
      cuts == cut \cup IF truncated THEN {f} ELSE {}
  IN  /\ out' = [op |-> op, f |-> f, arg |-> arg, val |-> calls + 1, res |-> s.res,
                 data |-> data]
      /\ fs' = [s.fs EXCEPT !.past = <<>>] /\ fil' = fps
      /\ content' = Contents(s.fs, fps) /\ full' = (FreeClusters(s.fs, View(s.fs)) = {})
      /\ cut' = IF "MODIFIED" \in s.fp.flag THEN cuts ELSE cut \ {f}
      /\ hurt' = {S \in Damage(f, s.fs.past) : S \cap cuts = {}}

Begin == loop = NoLoop /\ calls < MaxCalls /\ calls' = calls + 1
Plain == Begin /\ UNCHANGED loop
S(f) == [fs |-> fs, fp |-> fil[f], res |-> "FR_OK"]
Dropped(s) == [s EXCEPT !.fp = NoFile]

fatfs_open(f, mode) ==
  Plain /\ ~Opened(f) /\ Call("open", f, mode, f_open(fs, PathOf(f), mode), <<>>)

Read(f, n, r) == Call("read", f, n, r.s, r.data)
fatfs_read(f, n) == Plain /\ Opened(f) /\ Read(f, n, f_read(S(f), n))

fatfs_write(f, n) ==
  Plain /\ Opened(f) /\ Call("write", f, n, f_write(S(f), n, calls + 1).s, <<>>)

Seek(f, ofs) == Plain /\ Opened(f) /\ Call("seek", f, ofs, f_lseek(S(f), ofs), <<>>)

Truncate(f) == Plain /\ Opened(f) /\ Call("truncate", f, 0, f_truncate(S(f)), <<>>)

\* The FIL is freed whatever f_close answers.
fatfs_release(f) ==
  Plain /\ Opened(f) /\ Call("release", f, 0, Dropped(f_close(S(f))), <<>>)

\* while (f_sync(fp) != FR_OK) ;  the first round, and those that follow.
SyncRound(f, s) ==
  /\ loop' = IF s.res = "FR_OK" THEN NoLoop ELSE [f |-> f, by |-> "sync"]
  /\ Call("sync", f, 0, s, <<>>)

fatfs_sync(f) == Begin /\ Opened(f) /\ SyncRound(f, f_sync(S(f)))

\* FA_CREATE_NEW; with O_SYNC the loop over f_sync; f_close.
Create(f, o_sync, s) ==
  IF s.res = "FR_OK" /\ o_sync /\ f_sync(s).res # "FR_OK"
    THEN /\ loop' = [f |-> f, by |-> "creat"]
         /\ Call("creat", f, o_sync, Answer(f_sync(s), "FR_OK"), <<>>)
    ELSE /\ loop' = NoLoop
         /\ Call("creat", f, o_sync,
                 IF s.res # "FR_OK" THEN s
                 ELSE Dropped(f_close(IF o_sync THEN f_sync(s) ELSE s)), <<>>)

fatfs_creat(f, o_sync) ==
  Begin /\ ~Opened(f) /\ Create(f, o_sync, f_open(fs, PathOf(f), {"CREATE_NEW"}))

Round(f, s) ==
  LET done == s.res = "FR_OK"
  IN  /\ loop' = IF done THEN NoLoop ELSE loop
      /\ Call("sync", f, 0, IF done /\ loop.by = "creat" THEN Dropped(f_close(s)) ELSE s, <<>>)

Again(f) == loop.f = f /\ Round(f, f_sync(S(f))) /\ UNCHANGED calls

Next ==
  \E f \in File :
    \/ \E m \in Modes : fatfs_open(f, m)
    \/ \E n \in Lengths : fatfs_read(f, n) \/ fatfs_write(f, n)
    \/ \E o \in Offsets : Seek(f, o)
    \/ \E o_sync \in BOOLEAN : fatfs_creat(f, o_sync)
    \/ Truncate(f) \/ fatfs_release(f) \/ fatfs_sync(f) \/ Again(f)

Spec == Init /\ [][Next]_vars

--------------------------------------------------------------------------------
(***************************************************************************)
(* Properties.                                                             *)
(***************************************************************************)
Start(f) == IF Opened(f) THEN fil[f].sclust ELSE EntryOf(fs, View(fs), f).clust
Holdings == {[file |-> f, held |-> Range(ChainFrom(fs, View(fs), Start(f)))] : f \in File}
RootHeld == IF fs.fs_type = FAT32 THEN Range(ChainFrom(fs, View(fs), fs.dirbase)) ELSE {}

Sound(holdings, root, free) ==
  /\ \A x, y \in holdings : x # y => x.held \cap y.held = {}
  /\ \A x \in holdings : x.held \cap root = {}
  /\ UNION {x.held : x \in holdings} \cup root = AllClusters(fs) \ free
  /\ fs.free_clst # Unknown => fs.free_clst = Cardinality(free)

\* The clusters that are not free in the FAT are those of the files, as their
\* handles know them, and of the root directory: none is lost and none has two
\* owners (create_chain, remove_chain and their callers); the count of free
\* clusters is exact once it is known, and both FATs on the device are the same.
VolumeSound ==
  /\ Sound(Holdings, RootHeld, FreeClusters(fs, View(fs)))
  /\ fs.n_fats = 2 => \A i \in fs.fatbase .. fs.fatbase + fs.fsize - 1 :
                        fs.disk[i] = fs.disk[i + fs.fsize]

\* Power may fail between any two sectors that a call writes.  The files that
\* were synced keep their contents, and every file on the disk has its clusters
\* for itself, except one that was truncated and not synced since (f_truncate
\* frees clusters that the entry on the disk still counts).
SurvivesPowerLoss == hurt = {}

Store == INSTANCE FileStore WITH
  mode <- [f \in File |-> fil[f].flag \cap {"READ", "WRITE"}],
  pos <- [f \in File |-> fil[f].fptr]

\* An open file does what a sequence of bytes with a position does, whatever is in
\* the window of the volume, in the buffers of the handles or on the device.
ImplementsStore == Store!Spec

\* Although disk_ioctl answers RES_PARERR to every CTRL_SYNC, the loops over
\* f_sync in fatfs_sync and fatfs_creat end: their second round is the last.
SyncEnds == [][loop # NoLoop => loop' = NoLoop]_vars

================================================================================
