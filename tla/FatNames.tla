-------------------------------- MODULE FatNames --------------------------------
(***************************************************************************)
(* The operations of src/fs/fatfs.c on names, and the calls of FatFs on    *)
(* the current directory and the free clusters, over one volume.           *)
(***************************************************************************)
EXTENDS FatView, FatTree

CONSTANTS
  Disks,        \* volumes the system may be started on
  Paths,        \* arguments
  Moves,        \* pairs of paths given to fatfs_rename
  Buffers,      \* lengths given to f_getcwd
  MaxDepth,     \* bound: levels of the tree that are looked at
  MaxCalls      \* bound: calls in all

ASSUME NamesAssumption == {MaxDepth, MaxCalls} \subseteq Nat

VARIABLES
  fs,      \* fatfs_root, with the device
  out,     \* the last call: name, paths, answer, data
  tree,    \* the files and directories, and
  cwd,     \* the path of the current directory: determined by fs
  free,    \* number of free clusters
  lost,    \* a directory has been moved below itself
  hurt,    \* what a power failure during the last call would have damaged
  calls

vars == <<fs, out, tree, cwd, free, lost, hurt, calls>>

--------------------------------------------------------------------------------
\* The nodes of the directory at cluster c, and n levels below it.  What is not
\* a directory sector shows as a node "junk".
RECURSIVE Nodes(_, _, _, _, _)
Here(list, path) ==
  {[path |-> Append(path, NameOf(list, i)), attr |-> list[i].attr, size |-> list[i].size,
    clust |-> list[i].clust] : i \in Items(list)}

Junk(list, c, path) ==
  {[path |-> Append(path, <<"junk", 0>>), attr |-> "junk", size |-> 0, clust |-> c] :
     i \in {i \in DOMAIN list : list[i].kind = "junk"}}

WithBelow(v, d, here, n) ==
  here \cup UNION {Nodes(v, d, e.clust, e.path, n - 1) : e \in {e \in here : e.attr = "dir"}}

NodesIn(v, d, list, c, path, n) ==
  WithBelow(v, d, Here(list, path) \cup Junk(list, c, path), n)

Nodes(v, d, c, path, n) == IF n = 0 THEN {} ELSE NodesIn(v, d, Listed(v, d, c), c, path, n)

TreeOf(v, d) == Nodes(v, d, 0, <<>>, MaxDepth)

PathTo(t, clst) ==
  IF clst = 0 THEN <<>>
  ELSE IF \E n \in t : n.attr = "dir" /\ n.clust = clst
         THEN (CHOOSE n \in t : n.attr = "dir" /\ n.clust = clst).path
  ELSE <<<<>>>>

ChainOf(v, d, clst) == LET c == ChainFrom(v, d, clst) IN {c[i] : i \in DOMAIN c}
Whole(v, d, n) ==
  n.clust = 0 \/ (Link(v, d, n.clust) # 0 /\ Covers(v, d, n.clust, n.size))

\* Two nodes that differ at most in the last name.
Alike(m, n) ==
  [m EXCEPT !.path = SubSeq(@, 1, Len(@) - 1)] = [n EXCEPT !.path = SubSeq(@, 1, Len(@) - 1)]

\* On the disks a call went through: nodes that the call does not concern and
\* that are gone, nodes that were never made, and nodes without their clusters.
\* A node that is removed may have lost its long name already, and a directory
\* that grows shows what was in its new cluster.
Growing(v, n, d) ==
  n.attr = "junk" /\ Len(DirSectors(v, d, n.clust)) > Len(DirSectors(v, View(fs), n.clust))

HarmOn(v, d, t, before, after) ==
  ((before \cap after) \ t)
  \cup {n \in t : /\ ~Growing(v, n, d)
                  /\ \/ n \notin before \cup after /\ ~\E m \in before : Alike(m, n)
                     \/ ~Whole(v, d, n)}

Harm(v, before, after) ==
  UNION {HarmOn(v, v.past[i], TreeOf(v, v.past[i]), before, after) : i \in DOMAIN v.past}

Init ==
  /\ fs \in {f_mount(Unmounted(d)).fs : d \in Disks}
  /\ out = [op |-> "none"] /\ tree = TreeOf(fs, View(fs)) /\ cwd = <<>>
  /\ free = Cardinality(FreeClusters(fs, View(fs)))
  /\ lost = FALSE /\ hurt = {} /\ calls = 0

--------------------------------------------------------------------------------
Outcome(op, s, v, t) ==
  LET gone == op = "rename" /\ s.res = "FR_DISK_ERR" /\ Cardinality(t) < Cardinality(tree)
  IN  /\ fs' = [s.fs EXCEPT !.past = <<>>]
      /\ tree' = t /\ cwd' = PathTo(t, s.fs.cdir)
      /\ free' = Cardinality(FreeClusters(s.fs, v))
      /\ lost' = (lost \/ gone)
      /\ hurt' = IF gone THEN {} ELSE Harm(s.fs, tree, t)

OutcomeOn(op, s, v) == Outcome(op, s, v, TreeOf(s.fs, v))

Call(op, path, to, s, data) ==
  /\ calls < MaxCalls /\ calls' = calls + 1
  /\ out' = [op |-> op, path |-> path, to |-> to, res |-> s.res, data |-> data]
  /\ OutcomeOn(op, s, View(s.fs))

\* f_stat on behalf of fatfs_lookup and fatfs_stat.
Stat(path, r) == Call("stat", path, path, r, r.fno)
fatfs_stat(path) == Stat(path, f_stat(fs, path))

fatfs_creat(path) == Call("creat", path, path, Created(fs, path), <<>>)
fatfs_mkdir(path) == Call("mkdir", path, path, MakeLevels(fs, path, 1), <<>>)
fatfs_unlink(path) == Call("unlink", path, path, f_unlink(fs, path), <<>>)
fatfs_rename(old, new) == Call("rename", old, new, f_rename(fs, old, new), <<>>)

Readdir(path, r) == Call("readdir", path, path, r, r.list)
fatfs_readdir(path) == Readdir(path, Listing(fs, path))

Chdir(path) == Call("chdir", path, path, f_chdir(fs, path), <<>>)

Cwd(len, r) == Call("getcwd", len, len, r, [path |-> r.path, last |-> r.last])
Getcwd(len) == Cwd(len, f_getcwd(fs, len))

FreeCount(r) == Call("getfree", 0, 0, r, r.nclst)
Getfree == FreeCount(f_getfree(fs))

Next ==
  \/ \E p \in Paths :
       \/ fatfs_stat(p) \/ fatfs_creat(p) \/ fatfs_mkdir(p) \/ fatfs_unlink(p)
       \/ fatfs_readdir(p) \/ Chdir(p)
  \/ \E m \in Moves : fatfs_rename(m[1], m[2])
  \/ \E n \in Buffers : Getcwd(n)
  \/ Getfree

Spec == Init /\ [][Next]_vars

--------------------------------------------------------------------------------
(***************************************************************************)
(* Properties.                                                             *)
(***************************************************************************)
Directories == {0} \cup {n.clust : n \in {n \in tree : n.attr = "dir"}}

EntriesSound(list) ==
  /\ \A i, j \in Items(list) :
       i # j => NameOf(list, i) # NameOf(list, j) /\ list[i].name # list[j].name
  /\ \A i \in DOMAIN list : list[i].kind = "lfn" =>
       \E j \in Items(list), k \in 1 .. Len(list) : LongName(list, j, k) /\ i \in j - k .. j - 1

DotsSound(list, here, up) ==
  /\ list[1].name[1] = Dot /\ list[1].clust = here
  /\ list[2].name[1] = DotDot /\ list[2].clust = up

Parent(n) ==
  IF Len(n.path) = 1 THEN 0
  ELSE (CHOOSE m \in tree : m.path = SubSeq(n.path, 1, Len(n.path) - 1)).clust

\* Every directory has entries with different names, long and short; every
\* long-name entry is one of a complete name of the entry it stands before;
\* "." and ".." of a directory lead to itself and to its parent.
DirectoriesSound ==
  /\ \A c \in Directories : EntriesSound(Listed(fs, View(fs), c))
  /\ \A n \in tree :
       n.attr = "dir" => DotsSound(Listed(fs, View(fs), n.clust), n.clust, Parent(n))

\* The clusters that are not free are those of the tree, each of one node; some
\* are lost once a directory has been moved below itself, which f_rename does not
\* prevent.
ClustersSound ==
  LET v == View(fs)
      root == IF fs.fs_type = FAT32 THEN ChainOf(fs, v, fs.dirbase) ELSE {}
      of(n) == ChainOf(fs, v, n.clust)
  IN  /\ \A m, n \in tree : m # n => of(m) \cap of(n) = {}
      /\ LET held == root \cup UNION {of(n) : n \in tree}
             used == AllClusters(fs) \ FreeClusters(fs, v)
         IN  held \subseteq used /\ (held = used \/ lost)

\* Power may fail between any two sectors that a call writes: no node is lost
\* that the call does not remove, none appears that it does not make, and every
\* node has its clusters.
SurvivesPowerLoss == hurt = {}

--------------------------------------------------------------------------------
KeyOf(comp) == IF comp.lfn THEN comp.chunks ELSE <<comp.base, 0>>
DotsComp(comp) == comp.base \in {Dot, DotDot}
UpComp(comp) == comp.base = DotDot

Store == INSTANCE TreeStore WITH Key <- KeyOf, IsDots <- DotsComp, Up <- UpComp

\* f_open, f_unlink, f_mkdir, f_rename and f_opendir do to the tree of names what
\* their own names say; the answer FR_DISK_ERR of disk_ioctl means that they did.
ImplementsTree == Store!Spec

================================================================================
