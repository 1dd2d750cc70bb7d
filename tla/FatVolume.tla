-------------------------------- MODULE FatVolume -------------------------------
(***************************************************************************)
(* The bottom layer of FatFs (src/fs/ff.c): the one-sector window, the     *)
(* entries of the FAT, the FSInfo sector and cluster chains.               *)
(*                                                                         *)
(* A function of the code is an operator from the FATFS structure fs to    *)
(* what it leaves and returns.  fs has the fields of the structure and two *)
(* more: disk, the sectors on the device, and past, the contents the       *)
(* device went through in the current call, oldest first: a power failure  *)
(* may leave any of them.  disk_read and disk_write of src/fs/diskio.c     *)
(* answer RES_OK whatever happens, so the paths that handle an error of    *)
(* theirs are dead in this kernel and left out.                            *)
(*                                                                         *)
(* A sector of the FAT or of a file is a function from 0 .. SS - 1 to      *)
(* bytes, a sector of a directory a sequence of DPS entries.               *)
(***************************************************************************)
EXTENDS Integers, Sequences

CONSTANTS
  SS,        \* bytes of a sector (512 in the code)
  DPS,       \* directory entries of a sector (16)
  MAX_DIR    \* directory entries a directory may have (65536)

ASSUME VolumeAssumption == {SS, DPS, MAX_DIR} \subseteq Nat \ {0} /\ SS % 4 = 0

FAT12 == 1
FAT16 == 2
FAT32 == 3

\* 0xFFFFFFFF as a value of the FAT (of which at most 28 bits are stored), and
\* as "unknown" in free_clst and last_clst.
EOC == 268435455
Unknown == 2147483647

NoSect == -1

EmptyDir == [i \in 1 .. DPS |-> [kind |-> "end"]]

Device(fs, disk) == [fs EXCEPT !.disk = disk, !.past = Append(@, disk)]
disk_write(fs, sect, data) == Device(fs, [fs.disk EXCEPT ![sect] = data])

disk_ioctl == "RES_PARERR"

--------------------------------------------------------------------------------
(***************************************************************************)
(* The window.                                                             *)
(***************************************************************************)
\* A sector of the FAT goes to the second FAT too.
Mirror(fs) ==
  IF fs.winsect \in fs.fatbase .. fs.fatbase + fs.fsize - 1 /\ fs.n_fats = 2
    THEN disk_write(fs, fs.winsect + fs.fsize, fs.win)
    ELSE fs

sync_window(fs) ==
  IF fs.wflag THEN Mirror([disk_write(fs, fs.winsect, fs.win) EXCEPT !.wflag = FALSE])
              ELSE fs

Fill(fs, sect) == [fs EXCEPT !.win = fs.disk[sect], !.winsect = sect]

move_window(fs, sect) == IF sect = fs.winsect THEN fs ELSE Fill(sync_window(fs), sect)

\* The buffer of the window is replaced by the FSInfo sector as it is written.
WriteInfo(fs, info) ==
  [disk_write(fs, fs.volbase + 1, info) EXCEPT !.win = info, !.winsect = fs.volbase + 1]

SyncInfo(fs) ==
  IF fs.fsi_flag # "dirty" THEN fs
  ELSE [(IF fs.fs_type # FAT32 THEN fs
         ELSE WriteInfo(fs, [kind |-> "fsinfo", free |-> fs.free_clst, nxt |-> fs.last_clst]))
          EXCEPT !.fsi_flag = "clean"]

\* CTRL_SYNC is the only request whose answer is passed on.
sync_fs(fs) ==
  [fs |-> SyncInfo(sync_window(fs)),
   res |-> IF disk_ioctl = "RES_OK" THEN "FR_OK" ELSE "FR_DISK_ERR"]

\* fsi_flag |= 1: without an FSInfo sector the flag is 0x80 and stays different
\* from 1.
Mark(fs) == [fs EXCEPT !.fsi_flag = IF @ = "off" THEN @ ELSE "dirty"]

clst2sect(fs, clst) ==
  IF clst \in 2 .. fs.n_fatent - 1 THEN fs.database + fs.csize * (clst - 2) ELSE 0

--------------------------------------------------------------------------------
(***************************************************************************)
(* Entries of the FAT: 12 bits across byte and sector boundaries, 16 bits, *)
(* or the lower 28 of 32 bits, little-endian.                              *)
(***************************************************************************)
ld_16(w, i) == w[i] + 256 * w[i + 1]
ld_28(w, i) == ld_16(w, i) + 65536 * w[i + 2] + 16777216 * (w[i + 3] % 16)

st_16(w, i, val) == [w EXCEPT ![i] = val % 256, ![i + 1] = (val \div 256) % 256]
st_28(w, i, val) ==
  [st_16(w, i, val) EXCEPT ![i + 2] = (val \div 65536) % 256,
                           ![i + 3] = (@ \div 16) * 16 + ((val \div 16777216) % 16)]

\* First byte of an entry.
Byte(fs, clst) ==
  CASE fs.fs_type = FAT12 -> clst + clst \div 2
    [] fs.fs_type = FAT16 -> clst * 2
    [] fs.fs_type = FAT32 -> clst * 4

AtByte(fs, b) == move_window(fs, fs.fatbase + b \div SS)

InFat(fs, clst) == clst \in 2 .. fs.n_fatent - 1

\* The first byte of the entry is in the window of Get, and low, the one of a
\* 12-bit entry, was in that of Get12, which has the second.
Get12(fs, clst, low) ==
  LET wc == low + 256 * fs.win[(Byte(fs, clst) + 1) % SS]
  IN  [fs |-> fs, val |-> IF clst % 2 = 1 THEN wc \div 16 ELSE wc % 4096]

Get(fs, clst, i) ==
  CASE fs.fs_type = FAT12 -> Get12(AtByte(fs, Byte(fs, clst) + 1), clst, fs.win[i])
    [] fs.fs_type = FAT16 -> [fs |-> fs, val |-> ld_16(fs.win, i)]
    [] fs.fs_type = FAT32 -> [fs |-> fs, val |-> ld_28(fs.win, i)]

get_fat(fs, clst) ==
  IF InFat(fs, clst) THEN Get(AtByte(fs, Byte(fs, clst)), clst, Byte(fs, clst) % SS)
                     ELSE [fs |-> fs, val |-> 1]

\* The two bytes of a 12-bit entry share one with the neighbour.
LowByte(old, clst, val) ==
  IF clst % 2 = 1 THEN (old % 16) + 16 * (val % 16) ELSE val % 256

\* Mutant: the neighbour's half of the byte is cleared.
HighByte_whole(old, clst, val) ==
  IF clst % 2 = 1 THEN (val \div 16) % 256 ELSE (val \div 256) % 16

HighByte(old, clst, val) ==
  IF clst % 2 = 1 THEN (val \div 16) % 256 ELSE 16 * (old \div 16) + ((val \div 256) % 16)

\* w is the window as it becomes.
Poke(fs, w) == [fs EXCEPT !.win = w, !.wflag = TRUE]
PutLow(fs, i, clst, val) == Poke(fs, [fs.win EXCEPT ![i] = LowByte(@, clst, val)])
PutHigh(fs, i, clst, val) == Poke(fs, [fs.win EXCEPT ![i] = HighByte(@, clst, val)])

PutAt(fs, bc, clst, val) ==
  CASE fs.fs_type = FAT12 ->
         PutHigh(AtByte(PutLow(fs, bc % SS, clst, val), bc + 1), (bc + 1) % SS, clst, val)
    [] fs.fs_type = FAT16 -> Poke(fs, st_16(fs.win, bc % SS, val))
    [] fs.fs_type = FAT32 -> Poke(fs, st_28(fs.win, bc % SS, val))

\* Callers have looked the cluster up before and FR_INT_ERR is not reached.
put_fat(fs, clst, val) ==
  IF InFat(fs, clst) THEN PutAt(AtByte(fs, Byte(fs, clst)), Byte(fs, clst), clst, val) ELSE fs

--------------------------------------------------------------------------------
(***************************************************************************)
(* Chains.                                                                 *)
(***************************************************************************)
\* One cluster more, or one less, is free, if the number is known.
Credit(fs) ==
  IF fs.free_clst < fs.n_fatent - 2 THEN Mark([fs EXCEPT !.free_clst = @ + 1]) ELSE fs
Debit(fs) ==
  IF fs.free_clst \in 1 .. fs.n_fatent - 2 THEN Mark([fs EXCEPT !.free_clst = @ - 1]) ELSE fs

RECURSIVE FreeFrom(_, _)
FreeOn(fs, clst) ==
  IF InFat(fs, clst) THEN FreeFrom(fs, clst) ELSE [fs |-> fs, res |-> "FR_OK"]

FreeLink(g, clst) ==
  IF g.val = 0 THEN [fs |-> g.fs, res |-> "FR_OK"]
  ELSE IF g.val = 1 THEN [fs |-> g.fs, res |-> "FR_INT_ERR"]
  ELSE FreeOn(Credit(put_fat(g.fs, clst, 0)), g.val)

FreeFrom(fs, clst) == FreeLink(get_fat(fs, clst), clst)

remove_chain(fs, clst, pclst) ==
  IF ~InFat(fs, clst) THEN [fs |-> fs, res |-> "FR_INT_ERR"]
  ELSE FreeFrom(IF pclst = 0 THEN fs ELSE put_fat(fs, pclst, EOC), clst)

\* The search for a free cluster after ncl, once around up to scl; 0 if none.
After(fs, ncl) == IF ncl + 1 >= fs.n_fatent THEN 2 ELSE ncl + 1

RECURSIVE Search(_, _, _)
SearchAt(g, n, scl) ==
  IF g.val = 0 THEN [g EXCEPT !.val = n]
  ELSE IF g.val = 1 THEN g
  ELSE IF n = scl THEN [g EXCEPT !.val = 0]
  ELSE Search(g.fs, n, scl)

Search(fs, ncl, scl) ==
  IF ncl + 1 >= fs.n_fatent /\ 2 > scl THEN [fs |-> fs, val |-> 0]
  ELSE SearchAt(get_fat(fs, After(fs, ncl)), After(fs, ncl), scl)

\* A free cluster for a new chain (clst = 0) or after clst, the end of one: the
\* next cluster if it is free, else from the one allocated last.
StartOfSearch(fs, clst) ==
  IF clst = 0 THEN IF fs.last_clst = 0 \/ fs.last_clst >= fs.n_fatent THEN 1 ELSE fs.last_clst
  ELSE IF InFat(fs, fs.last_clst) THEN fs.last_clst ELSE clst

SearchAll(fs, clst) == Search(fs, StartOfSearch(fs, clst), StartOfSearch(fs, clst))

Adjacent(g, clst) ==
  IF g.val = 0 THEN [g EXCEPT !.val = After(g.fs, clst)]
  ELSE IF g.val = 1 THEN g
  ELSE SearchAll(g.fs, clst)

FreeCluster(fs, clst) ==
  IF clst = 0 THEN SearchAll(fs, clst) ELSE Adjacent(get_fat(fs, After(fs, clst)), clst)

\* Mutant: the new cluster is linked before it is marked as an end.
Taken_linkOnly(fs, ncl, clst) ==
  [Debit(IF clst = 0 THEN put_fat(fs, ncl, EOC) ELSE put_fat(fs, clst, ncl))
     EXCEPT !.last_clst = ncl]

LinkTo(fs, clst, ncl) == IF clst = 0 THEN fs ELSE put_fat(fs, clst, ncl)

Taken(fs, ncl, clst) ==
  [Debit(LinkTo(put_fat(fs, ncl, EOC), clst, ncl)) EXCEPT !.last_clst = ncl]

\* The cluster after clst, allocated if clst is the end of the chain; 0 when
\* the volume is full, 1 when the chain is broken.
Claim(f, clst) ==
  IF f.val < 2 THEN f ELSE [f EXCEPT !.fs = Taken(f.fs, f.val, clst)]

Stretch(g, clst) ==
  IF g.val < 2 THEN [g EXCEPT !.val = 1]
  ELSE IF InFat(g.fs, g.val) THEN g
  ELSE IF g.fs.free_clst = 0 THEN [g EXCEPT !.val = 0]
  ELSE Claim(FreeCluster(g.fs, clst), clst)

\* A new chain has no cluster yet, and so has come to its end.
create_chain(fs, clst) ==
  Stretch(IF clst = 0 THEN [fs |-> fs, val |-> EOC] ELSE get_fat(fs, clst), clst)

================================================================================
