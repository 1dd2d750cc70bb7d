------------------------------ MODULE MCAlgorithms ------------------------------
(***************************************************************************)
(* The parts of the kernel that compute something from their input alone,  *)
(* one at a time: the page bitmap, the page tables of a user task, names   *)
(* in FatFs and the mount of a FAT volume.  `part` says which of them is   *)
(* at work; the others stay as they are.                                   *)
(***************************************************************************)
EXTENDS FatNaming, Bitmap, UserSpace, TLC

CONSTANTS
  SS, DPS, MAX_DIR, MAX_FAT12, MAX_FAT16, MAX_FAT32, MinTot16, MinTot32, DWORD,
  Devices                                          \* FatBoot

VARIABLES
  part,
  device, fs, answer                               \* FatBoot

FB == INSTANCE FatBoot

bootVars == <<device, fs, answer>>

MCInit ==
  /\ part \in {"bitmap", "user_space", "fat_naming", "fat_boot"}
  /\ BitmapInit
  /\ Init
  /\ IF part = "user_space" THEN SpaceInit
     ELSE start = 0 /\ nr_pages = 1 /\ count = calc_page_table_counts(1)
          /\ array = [l \in Level |-> <<>>] /\ level = 4
  /\ IF part = "fat_boot" THEN FB!Init ELSE device = <<>> /\ fs = <<>> /\ answer = "none"

MCNext ==
  \/ part = "bitmap" /\ BitmapNext /\ UNCHANGED <<part, spaceVars, vars, bootVars>>
  \/ part = "user_space" /\ SpaceNext /\ UNCHANGED <<part, bitmapVars, vars, bootVars>>
  \/ part = "fat_naming" /\ Next /\ UNCHANGED <<part, bitmapVars, spaceVars, bootVars>>
  \/ part = "fat_boot" /\ FB!Next /\ UNCHANGED <<part, bitmapVars, spaceVars, vars>>

MCSpec == MCInit /\ [][MCNext]_<<part, bitmapVars, spaceVars, vars, bootVars>>

--------------------------------------------------------------------------------
(***************************************************************************)
(* The property of the part that is instantiated.                          *)
(***************************************************************************)

\* A volume that f_mount accepts has its regions one behind the other, inside the
\* device, and a FAT entry for every cluster.
LayoutSound == FB!LayoutSound

--------------------------------------------------------------------------------
(***************************************************************************)
(* The instances.                                                          *)
(***************************************************************************)
\* Five bits in words of two, so that the last word holds one valid bit; lengths
\* from none to the whole bitmap.
FittingCounts == 0 .. 5

\* All names of one or two of a, A, dot and space, and names that are too long for
\* an 8.3 name or an entry, carry a number, lose characters or have an accent.
Alphabet == {97, 65, 46, 32}
Short2 == UNION {[1 .. k -> Alphabet] : k \in 1 .. 2}
MCNames == Short2 \cup
  {<<97, 97, 97, 97>>, <<97, 97, 97, 98>>, <<65, 126, 49>>, <<97, 126, 50>>, <<97, 43>>, <<46, 97, 97>>,
   <<97, 46, 65>>, <<65, 46, 97>>, <<97, 46, 97, 97>>, <<130>>, <<144>>, <<69>>, <<101>>, <<97, 97, 97>>, <<97, 42>>,
   <<32, 97>>, <<97, 97, 97, 46, 97>>, <<97, 97, 97, 97, 46, 65>>, <<229>>, <<126, 49>>}
MCHash(lfn, seq) == 16 * seq + Len(lfn)
MCExCvt == [c \in 128 .. 255 |-> IF c = 130 THEN 69 ELSE c]
MCWupper == [c \in 128 .. 255 |-> IF c = 130 THEN 144 ELSE c]

\* Boot sectors, most of which check_fs or mount_volume refuse.
Boot(spc, rsvd, nfats, rootent, tot, fatsz, fat32, pt) ==
  [kind |-> "boot", jump |-> TRUE, sign |-> TRUE, fat32 |-> fat32, bps |-> SS, spc |-> spc,
   rsvd |-> rsvd, nfats |-> nfats, rootent |-> rootent, tot16 |-> tot[1], tot32 |-> tot[2],
   fatsz16 |-> fatsz[1], fatsz32 |-> fatsz[2], ver |-> 0, rootclus |-> 2, fsinfo |-> 1, pt |-> pt]

Boots ==
  {Boot(spc, rsvd, nfats, rootent, tot, fatsz, fat32, <<0, 0, 0, 0>>) :
     spc \in 1 .. 3, rsvd \in 0 .. 2, nfats \in 1 .. 3, rootent \in {0, 2, 3, 4}, fat32 \in BOOLEAN,
     tot \in {<<n, 0>> : n \in {7, 8, 9, 10, 12, 13, 16}} \cup {<<0, n>> : n \in {9, 14}},
     fatsz \in {<<1, 0>>, <<2, 0>>, <<3, 0>>, <<0, 0>>, <<0, 4>>, <<0, 5>>, <<0, 16>>}}

\* Sectors that are no boot sector, with a partition table and without.
Table == [Boot(1, 1, 1, 2, <<9, 0>>, <<1, 0>>, FALSE, <<0, 3, 2, 0>>) EXCEPT !.jump = FALSE]
Blank == [Table EXCEPT !.sign = FALSE]

\* A volume at the start, or in the second or the third partition.
MCDevices ==
  {[s \in 0 .. 4 |-> IF s = 0 THEN b ELSE Blank] : b \in Boots}
  \cup {[s \in 0 .. 4 |-> IF s = 0 THEN Table ELSE IF s = at THEN b ELSE Blank] :
           b \in {b \in Boots : b.spc = 1 /\ b.nfats = 2}, at \in {2, 3}}

================================================================================
