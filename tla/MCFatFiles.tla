------------------------------- MODULE MCFatFiles -------------------------------
EXTENDS FatFiles

Up(a, b) == (a + b - 1) \div b

\* A freshly formatted volume of n clusters.
Format(n, spc, nfats, rsvd) ==
  LET type == FatType(n)
      fatsz == Up(FatBytes(type, n + 2), SS)
      rootent == IF type = FAT32 THEN 0 ELSE 2 * DPS
      root == rsvd + nfats * fatsz
      data == root + rootent \div DPS
      used == CASE type = FAT12 -> 3 [] type = FAT16 -> 4 [] type = FAT32 -> 12
      byte(k) == IF k >= used THEN 0 ELSE IF k = 11 THEN 15 ELSE 255
      boot == [kind |-> "boot", jump |-> TRUE, sign |-> TRUE, fat32 |-> type = FAT32,
               bps |-> SS, spc |-> spc, rsvd |-> rsvd, nfats |-> nfats, rootent |-> rootent,
               tot16 |-> data + n * spc, tot32 |-> 0, fatsz16 |-> fatsz, fatsz32 |-> 0,
               ver |-> 0, rootclus |-> 2, fsinfo |-> 1, pt |-> <<0, 0, 0, 0>>]
      info == [kind |-> "fsinfo", free |-> n - 1, nxt |-> 2]
  IN  [s \in 0 .. data + n * spc - 1 |->
         IF s = 0 THEN boot
         ELSE IF s = 1 /\ type = FAT32 THEN info
         ELSE IF s < rsvd THEN Zeros
         ELSE IF s < root THEN [i \in 0 .. SS - 1 |-> byte(((s - rsvd) % fatsz) * SS + i)]
         ELSE IF s < data + (IF type = FAT32 THEN spc ELSE 0) THEN EmptyDir
         ELSE Zeros]

\* Two files written in turns.
Two(d) ==
  LET a == f_open(Unmounted(d), PathOf("a"), {"CREATE_NEW", "WRITE"})
      b == f_open(a.fs, PathOf("b"), {"CREATE_NEW", "WRITE"})
      a1 == f_write([a EXCEPT !.fs = b.fs], 6, 101).s
      b1 == f_write([b EXCEPT !.fs = a1.fs], 3, 102).s
      a2 == f_write([a1 EXCEPT !.fs = b1.fs], 4, 103).s
      a3 == f_sync(a2)
      b2 == f_sync([b1 EXCEPT !.fs = a3.fs])
  IN  b2.fs.disk

\* One file.
One(d) ==
  LET a == f_open(Unmounted(d), PathOf("a"), {"CREATE_NEW", "WRITE"})
  IN  f_sync(f_write(a, 6, 101).s).fs.disk

\* Names with the same number collide.
MCChecksum(sfn) == sfn[2]

\* FAT12 with two FATs, FAT16 and FAT32.
MCDisks == {Two(Format(4, 2, 2, 1)), One(Format(5, 1, 1, 1)), Two(Format(7, 2, 1, 2))}
MCModes == {{"READ", "WRITE"}, {"WRITE", "CREATE_ALWAYS"}, {"READ", "WRITE", "OPEN_ALWAYS", "SEEKEND"}}

================================================================================
