-------------------------------- MODULE FatView ---------------------------------
(***************************************************************************)
(* What the sectors of a FAT volume mean, read without the window and the  *)
(* procedures of src/fs/ff.c: chains, directories and file contents.  The  *)
(* properties compare what FatFs did with this reading.  fs gives the      *)
(* geometry, d the sectors.                                                *)
(***************************************************************************)
EXTENDS FatFile, FiniteSets

\* The sectors as they are once the window is written back.
View(fs) == IF fs.wflag THEN [fs.disk EXCEPT ![fs.winsect] = fs.win] ELSE fs.disk

FatByte(fs, d, k) == d[fs.fatbase + k \div SS][k % SS]

\* Of cluster c, whose entry begins at byte b.
LinkAt(fs, d, c, b) ==
  LET two == FatByte(fs, d, b) + 256 * FatByte(fs, d, b + 1)
  IN  CASE fs.fs_type = FAT12 -> IF c % 2 = 1 THEN two \div 16 ELSE two % 4096
        [] fs.fs_type = FAT16 -> two
        [] fs.fs_type = FAT32 -> two + 65536 * FatByte(fs, d, b + 2)
                                     + 16777216 * (FatByte(fs, d, b + 3) % 16)

Link(fs, d, c) == LinkAt(fs, d, c, Byte(fs, c))

AllClusters(fs) == 2 .. fs.n_fatent - 1
FreeClusters(fs, d) == {c \in AllClusters(fs) : Link(fs, d, c) = 0}

\* The clusters of the chain that begins at c, at most n.
RECURSIVE Chain(_, _, _, _)
Chain(fs, d, c, n) ==
  IF n = 0 \/ c \notin AllClusters(fs) THEN <<>> ELSE <<c>> \o Chain(fs, d, Link(fs, d, c), n - 1)

ChainFrom(fs, d, c) == Chain(fs, d, c, fs.n_fatent)
Covers(fs, d, c, size) == Len(ChainFrom(fs, d, c)) * fs.csize * SS >= size

\* The sector of byte i (from 0) of a chain.
SectorAt(fs, chain, i) ==
  fs.database + (chain[i \div (fs.csize * SS) + 1] - 2) * fs.csize + ((i \div SS) % fs.csize)

BytesOf(fs, d, chain, size) ==
  [i \in 1 .. size |-> AsBytes(d[SectorAt(fs, chain, i - 1)])[(i - 1) % SS]]

Bytes(fs, d, c, size) == BytesOf(fs, d, ChainFrom(fs, d, c), size)

--------------------------------------------------------------------------------
(***************************************************************************)
(* Directories.  The root directory of FAT12 and FAT16 has no cluster.     *)
(***************************************************************************)
\* Data of a file that is taken for entries may show anything.
AsDir(sector) ==
  IF DOMAIN sector = 1 .. DPS THEN sector
  ELSE [i \in 1 .. DPS |-> [kind |-> IF sector = Zeros THEN "end" ELSE "junk"]]

SectorsOf(fs, chain) ==
  [i \in 1 .. Len(chain) * fs.csize |->
     fs.database + (chain[(i - 1) \div fs.csize + 1] - 2) * fs.csize + ((i - 1) % fs.csize)]

DirSectors(fs, d, c) ==
  IF c = 0 /\ fs.fs_type # FAT32
    THEN [i \in 1 .. fs.n_rootdir \div DPS |-> fs.dirbase + i - 1]
    ELSE SectorsOf(fs, ChainFrom(fs, d, IF c = 0 THEN fs.dirbase ELSE c))

Slots(d, sects) ==
  [i \in 1 .. Len(sects) * DPS |->
     AsDir(d[sects[(i - 1) \div DPS + 1]])[((i - 1) % DPS) + 1]]

\* The entries before the end mark.
Before(slots) ==
  LET ends == {i \in DOMAIN slots : slots[i].kind = "end"}
  IN  IF ends = {} THEN slots
      ELSE SubSeq(slots, 1, (CHOOSE i \in ends : \A j \in ends : i <= j) - 1)

Listed(fs, d, c) == Before(Slots(d, DirSectors(fs, d, c)))

\* Whether entries i - k .. i - 1 hold the long name of entry i.
LongName(list, i, k) ==
  /\ i > k
  /\ \A j \in 1 .. k : LET e == list[i - j]
                       IN  /\ e.kind = "lfn" /\ e.ord = j /\ e.last = (j = k)
                           /\ e.sum = sum_sfn(list[i].name)

NameOf(list, i) ==
  IF \E k \in 1 .. i - 1 : LongName(list, i, k)
    THEN LET k == CHOOSE k \in 1 .. i - 1 : LongName(list, i, k)
         IN  [j \in 1 .. k |-> list[i - j].chunk]
    ELSE list[i].name

\* The files and directories a directory holds: its positions in Listed.
Items(list) == {i \in DOMAIN list : list[i].kind = "sfn" /\ ~IsDot(list[i])}

================================================================================
