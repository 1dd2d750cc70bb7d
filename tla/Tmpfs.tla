---------------------------------- MODULE Tmpfs ---------------------------------
(***************************************************************************)
(* The in-memory file system (src/fs/tmpfs.c): dentries linked by parent   *)
(* pointers and lists of children.  The list of a dentry holds exactly the *)
(* dentries that name it as their parent, and no name is in it twice, so   *)
(* up stands for both; a dentry whose parent is freed is Lost.             *)
(*                                                                         *)
(* An allocation may fail at any time.  kmalloc then returns with its lock *)
(* held (module Heap), so the next call of kmalloc or kfree never returns: *)
(* that is the variable heap.                                              *)
(***************************************************************************)
EXTENDS Integers, Sequences, Functions

CONSTANTS
  MaxNodes,   \* dentries that fit into memory besides the root
  Paths,      \* paths of the calls: [abs, comps, slash], slash: ends in '/'
  Contents,   \* what is written: sequences of pages, the empty one included
  TooLong     \* components longer than FS_NAME_MAX

Nodes == 1 .. MaxNodes
Root == 0
Lost == -1

ASSUME TmpfsAssumption ==
  /\ MaxNodes \in Nat
  /\ Paths \subseteq [abs : BOOLEAN, comps : Seq(STRING), slash : BOOLEAN]
  /\ \A p \in Paths : p.comps # <<>> \/ p.slash
  /\ Contents \subseteq Seq(Nat)

VARIABLES
  node,   \* the dentries
  heap,   \* "ok", "held", "hung": a call waits for the lock, "wild": a call goes
          \* on with freed memory or with memory that is not there
  call,   \* the last call
  res,    \* its answer, "none" if there will be none
  map     \* what the paths lead to: a function of node, kept for the properties

vars == <<node, heap, call, res, map>>

Free == [type |-> "none", name |-> "none", up |-> Lost, data |-> <<>>]
TypeOf(i) == IF i = Root THEN "DIR" ELSE node[i].type
Kids(i) == {j \in Nodes : node[j].up = i /\ node[j].type # "none"}

--------------------------------------------------------------------------------
(***************************************************************************)
(* tmpfs_lookup.                                                           *)
(***************************************************************************)
Named(i, n) == {j \in Kids(i) : node[j].name = n}
Only(S) == IF S = {} THEN Lost ELSE CHOOSE i \in S : TRUE
Child(i, n) == Only(Named(i, n))

\* Dentries of the levels of q: one each as far as they exist.
Walk(q) ==
  LET at[k \in 0 .. Len(q)] ==
        IF k = 0 THEN {Root} ELSE UNION {Named(i, q[k]) : i \in at[k - 1]}
  IN  at

Lookup(q) == Only(Walk(q)[Len(q)])

tmpfs_lookup(p) == IF p.abs THEN Lookup(p.comps) ELSE Lost

\* Levels of q that exist.
Depth(q) ==
  LET w == Walk(q)
  IN  CHOOSE k \in 0 .. Len(q) : w[k] # {} /\ (k < Len(q) => w[k + 1] = {})

IsRoot(p) == p.comps = <<>>
Min2(a, b) == IF a < b THEN a ELSE b

--------------------------------------------------------------------------------
(***************************************************************************)
(* Allocation.                                                             *)
(***************************************************************************)
Unused == {i \in Nodes : node[i].type = "none"}
\* Whether there are n of them left: else one of the allocations fails.
Room(n) == Injection(1 .. n, Unused) # {}

\* One dentry after the other below i, with these names and types.
Grown(i, names, types) ==
  LET id == CHOOSE f \in Injection(1 .. Len(names), Unused) : TRUE
  IN  [j \in Nodes |->
         IF \E k \in DOMAIN id : id[k] = j
         THEN LET k == CHOOSE k \in DOMAIN id : id[k] = j
              IN  [type |-> types[k], name |-> names[k],
                   up |-> IF k = 1 THEN i ELSE id[k - 1], data |-> <<>>]
         ELSE node[j]]

\* A call that needs the lock while it is held, and one that finds no memory.
Spin == heap = "held" /\ heap' = "hung" /\ res' = "none" /\ UNCHANGED node
NoMem == heap = "ok" /\ heap' = "held" /\ res' = "NOMEM"

\* A dentry for every name, until memory runs out.  A dentry and its name are two
\* allocations: when the second fails the first is given back, which waits for
\* the lock that the failure left held.
tmpfs_alloc_dentry(i, names, types, done) ==
  IF names = <<>> THEN res' = done /\ UNCHANGED <<node, heap>>
  ELSE \/ Spin
       \/ /\ heap = "ok"
          /\ \E got \in {n \in 0 .. Len(names) : Room(n)} :
               /\ node' = Grown(i, SubSeq(names, 1, got), types)
               /\ \/ got = Len(names) /\ res' = done /\ UNCHANGED heap
                  \/ got < Len(names) /\ NoMem
                  \/ got < Len(names) /\ res' = "none" /\ heap' = "hung"

\* Taken out of the list of its parent and given back, its children are not.
tmpfs_free_dentry(i) ==
  [j \in Nodes |-> IF j = i THEN Free ELSE IF node[j].up = i THEN [node[j] EXCEPT !.up = Lost]
                   ELSE node[j]]

--------------------------------------------------------------------------------
(***************************************************************************)
(* Operations.                                                             *)
(***************************************************************************)
Components == UNION {{p.comps[k] : k \in DOMAIN p.comps} : p \in Paths}
Sequences == UNION {[1 .. n -> Components \ TooLong] : n \in Nodes}

\* What the paths lead to; part of no operation.
Visible ==
  LET at == [q \in Sequences |-> Lookup(q)]
  IN  [q \in {q \in Sequences : at[q] # Lost} |->
         [type |-> node[at[q]].type, data |-> node[at[q]].data]]

Init ==
  /\ map = << >>
  /\ node = [i \in Nodes |-> Free]
  /\ heap = "ok" /\ call = "none" /\ res = "OK"

Answer(r) == res' = r /\ UNCHANGED <<node, heap>>

\* Components before the first that is too long.
Short(q) ==
  CHOOSE n \in 0 .. Len(q) :
    (\A j \in 1 .. n : q[j] \notin TooLong) /\ (n < Len(q) => q[n + 1] \in TooLong)

\* The levels of p that are missing, up to one that is too long.
MakeLevels(p, types) ==
  LET q == p.comps
      k == Depth(q)
      n == Short(q)
  IN  tmpfs_alloc_dentry(Only(Walk(q)[k]), SubSeq(q, k + 1, n), SubSeq(types, k + 1, n),
                         IF n < Len(q) THEN "TOOLONG" ELSE "OK")

creat(p) ==
  LET types == [k \in DOMAIN p.comps |->
                 IF k = Len(p.comps) /\ ~p.slash THEN "FILE" ELSE "DIR"]
      is == tmpfs_lookup(p)
  IN  IF ~p.abs \/ IsRoot(p) THEN Answer("INVAL")
      ELSE IF is # Lost THEN Answer(IF ~p.slash /\ TypeOf(is) = "DIR" THEN "ISDIR" ELSE "OK")
      ELSE MakeLevels(p, types)

mkdir(p) ==
  LET w == Walk(p.comps)
  IN  IF ~p.abs \/ IsRoot(p) THEN Answer("INVAL")
      ELSE IF \E k \in 1 .. Len(p.comps) : \E i \in w[k] : TypeOf(i) # "DIR"
           THEN Answer("NOTDIR")
      ELSE MakeLevels(p, [k \in DOMAIN p.comps |-> "DIR"])

\* Mutant: a directory goes with what is in it.
Busy_never(i) == FALSE

\* A directory that is not empty; a file may have children too.
Busy(i) == TypeOf(i) = "DIR" /\ Kids(i) # {}

unlink(p) ==
  LET i == tmpfs_lookup(p)
  IN  IF ~p.abs \/ IsRoot(p) THEN Answer("INVAL")
      ELSE IF i = Lost THEN Answer("NOENT")
      ELSE IF Busy(i) THEN Answer("NOTEMPTY")
      ELSE \/ Spin
           \/ heap = "ok" /\ node' = tmpfs_free_dentry(i) /\ res' = "OK" /\ UNCHANGED heap

\* Mutant: the dentry keeps its old parent.
Relinked_stay(nodes, i, n, up) == [nodes EXCEPT ![i].name = n]

\* The dentry gets a name and a parent.
Relinked(nodes, i, n, up) == [nodes EXCEPT ![i].name = n, ![i].up = up]

\* The last part of rename: what has the new name is freed first, then memory
\* for the name is asked for, and the dentry is moved.
Replace(i, up, n) ==
  LET exist == Child(up, n)
      cleared == IF exist = Lost THEN node ELSE tmpfs_free_dentry(exist)
      freed == exist # Lost /\ exist \in {i, node[i].up}
  IN  IF exist # Lost /\ Busy(exist) THEN Answer("NOTEMPTY")
      ELSE \/ Spin
           \/ NoMem /\ node' = cleared
           \/ /\ heap = "ok" /\ ~freed
              /\ node' = Relinked(cleared, i, n, up) /\ res' = "OK" /\ UNCHANGED heap
           \/ /\ heap = "ok" /\ freed
              /\ heap' = "wild" /\ res' = "none" /\ UNCHANGED node

rename(p, q) ==
  LET i == tmpfs_lookup(p)
      n == Len(q.comps)
      up == Lookup(SubSeq(q.comps, 1, n - 1))
  IN  IF ~p.abs \/ ~q.abs \/ IsRoot(p) THEN Answer("INVAL")
      ELSE IF i = Lost THEN Answer("NOENT")
      ELSE IF q.slash \/ q.comps[n] \in TooLong THEN Answer("INVAL")
      \* the path of the parent is copied, unless that is the root
      ELSE \/ n > 1 /\ (Spin \/ (NoMem /\ UNCHANGED node))
           \/ /\ n > 1 => heap = "ok"
              /\ IF up = Lost THEN Answer("NOENT")
                 ELSE IF TypeOf(up) # "DIR" THEN Answer("NOTDIR")
                 ELSE Replace(i, up, q.comps[n])

\* The calls that only look: an answer and what they give back.
stat(p) ==
  LET i == tmpfs_lookup(p)
  IN  IF i = Lost THEN <<"NOENT", 0>> ELSE <<"OK", IF i = Root THEN 0 ELSE Len(node[i].data)>>

readdir(p) ==
  LET i == tmpfs_lookup(p)
  IN  IF i = Lost THEN <<"NOENT", {}>>
      ELSE IF TypeOf(i) # "DIR" THEN <<"NOTDIR", {}>>
      ELSE <<"OK", {node[j].name : j \in Kids(i)}>>

\* read and write get a dentry; here one that a path leads to.
Handed(p) == p.abs /\ ~IsRoot(p) /\ tmpfs_lookup(p) # Lost

\* Mutant: the length is not limited to the size.
Clipped_not(n, size) == n

Clipped(n, size) == Min2(n, size)

read(p, n) ==
  LET x == node[tmpfs_lookup(p)]
  IN  IF x.type # "FILE" \/ x.data = <<>> THEN <<"INVAL", <<>>>>
      ELSE <<"OK", [k \in 1 .. Clipped(n, Len(x.data)) |-> IF k <= Len(x.data) THEN x.data[k] ELSE 0]>>

\* Pages of an area for n pages of data.
AreaOf(n) == CHOOSE a \in {1, 2, 4, 8} : a >= n /\ \A b \in {1, 2, 4, 8} : b >= n => a <= b

\* The data get an area of their size.  krealloc copies as much as the new area
\* takes, from behind the old one too, where there may be no page.  For no data
\* kmalloc gives no area and keeps its lock.
write(p, d) ==
  LET i == tmpfs_lookup(p)
      old == node[i].data
  IN  /\ Handed(p)
      /\ IF node[i].type # "FILE" THEN Answer("INVAL")
         ELSE \/ Spin
              \/ d # <<>> /\ NoMem /\ UNCHANGED node
              \/ /\ heap = "ok"
                 /\ node' = [node EXCEPT ![i].data = d] /\ res' = "OK"
                 /\ heap' = IF d = <<>> THEN "held" ELSE heap
              \/ /\ heap = "ok" /\ old # <<>> /\ d # <<>> /\ Len(d) > AreaOf(Len(old))
                 /\ heap' = "wild" /\ res' = "none" /\ UNCHANGED node

Next ==
  /\ heap \in {"ok", "held"}
  /\ \E p \in Paths :
       \/ creat(p) /\ call' = "creat"
       \/ mkdir(p) /\ call' = "mkdir"
       \/ unlink(p) /\ call' = "unlink"
       \/ \E q \in Paths : rename(p, q) /\ call' = "rename"
       \/ \E d \in Contents : write(p, d) /\ call' = "write"
  /\ map' = IF node' = node THEN map ELSE Visible'

Spec == Init /\ [][Next]_vars

--------------------------------------------------------------------------------
(***************************************************************************)
(* Properties.                                                             *)
(***************************************************************************)
\* No directory holds a name twice, and no dentry is in one that was freed: what
\* unlink, rename and creat leave out of reach (the children of a file that is
\* removed, a directory moved below itself) is in no list any more, or in its
\* own.
TreeSound ==
  \A i \in Nodes :
    LET x == node[i]
    IN  x.type # "none" =>
          /\ x.up \in {Root, Lost} \/ node[x.up].type # "none"
          /\ x.name \notin TooLong
          /\ x.type = "DIR" => x.data = <<>>
          /\ x.up # Lost => \A j \in Kids(x.up) : node[j].name = x.name => j = i

\* The size, the names and the data that stat, readdir and read answer are those
\* of the path, however the dentry came to be there.
AnswersAgree ==
  \A p \in {p \in Paths : p.abs /\ ~IsRoot(p)} :
    LET q == p.comps
        there == q \in DOMAIN map
        names == {r[Len(q) + 1] : r \in {r \in DOMAIN map : Len(r) > Len(q) /\ SubSeq(r, 1, Len(q)) = q}}
    IN  /\ stat(p) = IF there THEN <<"OK", Len(map[q].data)>> ELSE <<"NOENT", 0>>
        /\ readdir(p) = IF ~there THEN <<"NOENT", {}>>
                        ELSE IF map[q].type = "DIR" THEN <<"OK", names>> ELSE <<"NOTDIR", {}>>
        /\ there => \A n \in 0 .. 2 :
             read(p, n) = IF map[q].data = <<>> THEN <<"INVAL", <<>>>>
                          ELSE <<"OK", SubSeq(map[q].data, 1, Min2(n, Len(map[q].data)))>>

Abstract == INSTANCE PathMap

\* The dentries are a map from paths to files and directories: creat, mkdir,
\* unlink and rename have their effect on the paths they name and below them, a
\* call that fails has none, except that levels made before memory ran out or a
\* name was too long stay, and that rename has already freed what had the new
\* name.  Freed memory is used only by a rename onto the node itself or onto the
\* file it is in, and by a write that grows the area of a file.
ImplementsPaths == Abstract!Spec

================================================================================
