--------------------------------- MODULE FatBoot --------------------------------
(***************************************************************************)
(* f_mount on a device whose first sectors hold anything: a volume, a      *)
(* partition table, both damaged.  What the other modules of FatFs take    *)
(* for granted of the geometry is what mount_volume checks.                *)
(***************************************************************************)
EXTENDS FatMount

CONSTANT Devices    \* functions from 0 .. n to sectors

VARIABLES
  device, fs,
  answer      \* of f_mount

vars == <<device, fs, answer>>

Init == device \in Devices /\ fs = Unmounted(device) /\ answer = "none"

Mount ==
  /\ answer = "none"
  /\ LET m == f_mount(fs) IN fs' = m.fs /\ answer' = m.res
  /\ UNCHANGED device

Next == Mount

Spec == Init /\ [][Next]_vars

--------------------------------------------------------------------------------
(***************************************************************************)
(* Properties.                                                             *)
(***************************************************************************)
\* Bytes of the FAT up to the end of the entry of cluster c.
EntryEnd(c) ==
  CASE fs.fs_type = FAT12 -> (c * 3) \div 2 + 2
    [] fs.fs_type = FAT16 -> c * 2 + 2
    [] fs.fs_type = FAT32 -> c * 4 + 4

\* On a volume that f_mount accepts, the boot sector, the FATs, the root directory
\* and the clusters do not overlap, the entry of every cluster is in the FAT and
\* the sectors of every cluster are on the volume, whatever the boot sector says;
\* unless the sectors of the FATs together do not fit into 32 bits.
LayoutSound ==
  answer = "FR_OK" =>
    LET b == device[fs.volbase]
        last == fs.n_fatent - 1
        wraps == FatSize(b) * b.nfats >= DWORD
    IN  ~wraps =>
          /\ fs.volbase < fs.fatbase /\ last >= 2
          /\ fs.fatbase + fs.n_fats * fs.fsize + fs.n_rootdir \div DPS = fs.database
          /\ fs.fs_type # FAT32 => fs.dirbase = fs.fatbase + fs.n_fats * fs.fsize
          /\ EntryEnd(last) <= fs.fsize * SS
          /\ fs.database + (last - 1) * fs.csize <= fs.volbase + TotalSectors(b)

================================================================================
