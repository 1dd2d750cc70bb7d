------------------------------- MODULE MCFatNames -------------------------------
EXTENDS FatNames

Ceil(a, b) == (a + b - 1) \div b

\* A freshly formatted volume of n clusters.
Format(n, spc, nfats, rsvd, rootsects) ==
  LET type == FatType(n)
      fatsz == Ceil(FatBytes(type, n + 2), SS)
      rootent == IF type = FAT32 THEN 0 ELSE rootsects * DPS
      root == rsvd + nfats * fatsz
      data == root + rootent \div DPS
      used == CASE type = FAT12 -> 3 [] type = FAT16 -> 4 [] type = FAT32 -> 12
      byte(k) == IF k >= used THEN 0 ELSE IF k = 11 THEN 15 ELSE 255
      boot == [kind |-> "boot", jump |-> TRUE, sign |-> TRUE, fat32 |-> type = FAT32,
               bps |-> SS, spc |-> spc, rsvd |-> rsvd, nfats |-> nfats, rootent |-> rootent,
               tot16 |-> data + n * spc, tot32 |-> 0, fatsz16 |-> fatsz, fatsz32 |-> 0,
               ver |-> 0, rootclus |-> 2, fsinfo |-> 1, pt |-> <<0, 0, 0, 0>>]
      info == [kind |-> "fsinfo", free |-> n - 1, nxt |-> 2]
  IN  [s \in 0 .. data + n * spc - 1 |->
         IF s = 0 THEN boot
         ELSE IF s = 1 /\ type = FAT32 THEN info
         ELSE IF s < rsvd THEN Zeros
         ELSE IF s < root THEN [i \in 0 .. SS - 1 |-> byte(((s - rsvd) % fatsz) * SS + i)]
         ELSE IF s < data + (IF type = FAT32 THEN spc ELSE 0) THEN EmptyDir
         ELSE Zeros]

Short(b) == [chunks |-> <<b>>, lfn |-> FALSE, loss |-> FALSE, base |-> b]
Long(p, q) == [chunks |-> <<p, q>>, lfn |-> TRUE, loss |-> TRUE, base |-> "l"]
A == Short("a")
D == Short("d")
E == Short("e")
L == Long("p", "q")
M == Long("p", "r")
DD == Short(DotDot)
D1 == Short(Dot)
At(comps) == [abs |-> TRUE, comps |-> comps]
Rel(comps) == [abs |-> FALSE, comps |-> comps]

\* /d, /d/e and the file /d/p.q; a file that was there first has been removed.
Filled(d) ==
  LET x == f_open(Unmounted(d), At(<<A>>), {"CREATE_NEW", "WRITE"})
      a == f_mkdir(f_sync(f_write(x, 3, 100).s).fs, At(<<D>>)).fs
      b == f_mkdir(a, At(<<D, E>>)).fs
      o == f_open(b, At(<<D, L>>), {"CREATE_NEW", "WRITE"})
      w == f_sync(f_write(o, 3, 101).s)
  IN  f_unlink(w.fs, At(<<A>>)).fs.disk

\* Names with the same number collide.
MCChecksum(sfn) == sfn[2]

MCDisks == {Filled(Format(5, 2, 2, 1, 2)), Filled(Format(6, 2, 1, 1, 1)), Filled(Format(9, 1, 1, 2, 1))}
MCPaths == {At(<<A>>), At(<<D>>), At(<<D, E>>), At(<<D, M>>), Rel(<<L>>), Rel(<<DD, A>>), At(<<A, E>>), Rel(<<D1>>), At(<<>>)}
MCMoves == {<<At(<<D, E>>), At(<<E>>)>>, <<At(<<D, L>>), At(<<L>>)>>, <<At(<<D, L>>), At(<<D, L>>)>>,
            <<At(<<D>>), At(<<D, E, A>>)>>, <<At(<<A>>), Rel(<<M>>)>>, <<At(<<D>>), At(<<A>>)>>}

================================================================================
