-------------------------------- MODULE FatMount --------------------------------
(***************************************************************************)
(* Mounting of FatFs (src/fs/ff.c): finding a FAT volume on the device and *)
(* taking its geometry from the BIOS parameter block.                      *)
(*                                                                         *)
(* A boot sector is a record with the fields of the block that are read,   *)
(* and jump, sign, fat32: whether it begins with a jump, ends in 0xAA55    *)
(* and holds the string "FAT32   ".  pt has the starts of the four entries *)
(* of a partition table.                                                   *)
(***************************************************************************)
EXTENDS FatVolume

CONSTANTS
  MAX_FAT12, MAX_FAT16, MAX_FAT32,  \* clusters a volume of the type may have
  MinTot16, MinTot32,               \* sectors check_fs asks for (128, 0x10000)
  DWORD                             \* numbers of sectors: 32 bits (2^32)

ASSUME MountAssumption ==
  /\ {MAX_FAT12, MAX_FAT16, MAX_FAT32, MinTot16, MinTot32} \subseteq Nat /\ DWORD \in Nat \ {0}
  /\ MAX_FAT12 < MAX_FAT16 /\ MAX_FAT16 < MAX_FAT32

PowersOfTwo == {1, 2, 4, 8, 16, 32, 64, 128}

\* 0: a FAT volume begins here, 2: a boot sector of something else, 3: neither.
Classify(b) ==
  LET fat == /\ b.bps = SS /\ b.spc \in PowersOfTwo /\ b.rsvd # 0
             /\ b.nfats \in {1, 2} /\ b.rootent # 0
             /\ (b.tot16 >= MinTot16 \/ b.tot32 >= MinTot32)
             /\ b.fatsz16 # 0
  IN  IF b.jump /\ ((b.sign /\ b.fat32) \/ fat) THEN 0
      ELSE IF b.sign THEN 2 ELSE 3

Checked(fs) == [fs |-> fs, val |-> Classify(fs.win)]

check_fs(fs, sect) ==
  Checked(move_window([fs EXCEPT !.wflag = FALSE, !.winsect = NoSect], sect))

\* The partitions from i on, until one holds a volume.
RECURSIVE TryFrom(_, _, _)
TryOn(c, pt, i) == IF c.val >= 2 /\ i < 4 THEN TryFrom(c.fs, pt, i + 1) ELSE c

TryFrom(fs, pt, i) ==
  TryOn(IF pt[i] = 0 THEN [fs |-> fs, val |-> 3] ELSE check_fs(fs, pt[i]), pt, i)

InPartitions(c) == IF c.val # 2 THEN c ELSE TryFrom(c.fs, c.fs.win.pt, 1)

find_volume(fs) == InPartitions(check_fs(fs, 0))

--------------------------------------------------------------------------------
(***************************************************************************)
(* mount_volume.                                                           *)
(***************************************************************************)
FatSize(b) == IF b.fatsz16 # 0 THEN b.fatsz16 ELSE b.fatsz32
TotalSectors(b) == IF b.tot16 # 0 THEN b.tot16 ELSE b.tot32
FatSectors(b) == (FatSize(b) * b.nfats) % DWORD
SystemSectors(b) == (b.rsvd + FatSectors(b) + b.rootent \div DPS) % DWORD

\* Mutant: a cluster that is only partly there counts.
Clusters_up(b) == (TotalSectors(b) - SystemSectors(b) + b.spc - 1) \div b.spc

Clusters(b) == (TotalSectors(b) - SystemSectors(b)) \div b.spc

FatType(n) ==
  IF n <= MAX_FAT12 THEN FAT12
  ELSE IF n <= MAX_FAT16 THEN FAT16
  ELSE IF n <= MAX_FAT32 THEN FAT32 ELSE 0

\* Bytes the entries take.
FatBytes(type, n) ==
  CASE type = FAT12 -> (n * 3) \div 2 + (n % 2)
    [] type = FAT16 -> n * 2
    [] type = FAT32 -> n * 4

Acceptable(b) ==
  /\ b.bps = SS /\ b.nfats \in {1, 2} /\ b.spc \in PowersOfTwo
  /\ b.rootent % DPS = 0 /\ b.rsvd # 0
  /\ TotalSectors(b) >= SystemSectors(b) /\ Clusters(b) # 0
  /\ LET type == FatType(Clusters(b))
     IN  /\ type # 0
         /\ type = FAT32 => b.ver = 0 /\ b.rootent = 0
         /\ type # FAT32 => b.rootent # 0
         /\ FatSize(b) >= (FatBytes(type, Clusters(b) + 2) + SS - 1) \div SS

Geometry(fs, b, bsect) ==
  LET type == FatType(Clusters(b))
  IN  [fs EXCEPT
        !.fsize = FatSize(b), !.n_fats = b.nfats, !.csize = b.spc, !.n_rootdir = b.rootent,
        !.n_fatent = Clusters(b) + 2, !.volbase = bsect, !.fatbase = bsect + b.rsvd,
        !.database = bsect + SystemSectors(b),
        !.dirbase = IF type = FAT32 THEN b.rootclus
                    ELSE bsect + b.rsvd + FatSectors(b),
        !.last_clst = Unknown, !.free_clst = Unknown, !.fsi_flag = "off"]

\* The number of free clusters is taken from the FSInfo sector, if there is one.
TakeInfo(fs) ==
  IF fs.win.kind = "fsinfo" THEN [fs EXCEPT !.free_clst = fs.win.free, !.last_clst = fs.win.nxt]
                            ELSE fs

FsInfo(fs, b) ==
  IF FatType(Clusters(b)) # FAT32 \/ b.fsinfo # 1 THEN fs
  ELSE TakeInfo([move_window(fs, fs.volbase + 1) EXCEPT !.fsi_flag = "clean"])

MountFound(v, b) ==
  IF v.val >= 2 \/ ~Acceptable(b) THEN [fs |-> v.fs, res |-> "FR_NO_FILESYSTEM"]
  ELSE [fs |-> [FsInfo(Geometry(v.fs, b, v.fs.winsect), b) EXCEPT
                  !.fs_type = FatType(Clusters(b)), !.id = @ + 1, !.cdir = 0],
        res |-> "FR_OK"]

MountOn(v) == MountFound(v, v.fs.win)

\* disk_status and disk_initialize answer 0: neither absent nor protected.
mount_volume(fs) ==
  IF fs.fs_type # 0 THEN [fs |-> fs, res |-> "FR_OK"]
  ELSE MountOn(find_volume([fs EXCEPT !.fs_type = 0]))

f_mount(fs) == mount_volume([fs EXCEPT !.fs_type = 0])

\* fatfs_root before the first call: static storage.  id stands for the
\* counter Fsid, which no volume but this one uses.
Unmounted(disk) ==
  [fs_type |-> 0, id |-> 0, wflag |-> FALSE, winsect |-> NoSect, win |-> <<>>,
   fsize |-> 0, n_fats |-> 0, csize |-> 0, n_rootdir |-> 0, n_fatent |-> 0,
   volbase |-> 0, fatbase |-> 0, database |-> 0, dirbase |-> 0,
   last_clst |-> 0, free_clst |-> 0, fsi_flag |-> "clean", cdir |-> 0,
   disk |-> disk, past |-> <<>>]

================================================================================
