------------------------------- MODULE TmpfsProofs ------------------------------
(***************************************************************************)
(* What the calls of src/fs/tmpfs.c leave of the dentries, for any number  *)
(* of dentries, any paths and contents, and memory that runs out at any    *)
(* time; and what the paths lead to, before and after a call made levels.  *)
(***************************************************************************)
EXTENDS Tmpfs, WellFoundedInduction, TLAPS

Name == Components \cup {"none"}
Dentry == [type : {"none", "FILE", "DIR"}, name : Name,
           up : Nodes \cup {Root, Lost}, data : Contents \cup {<<>>}]

Live(i) == i \in Nodes /\ node[i].type # "none"

TypeInv == node \in [Nodes -> Dentry]

\* A dentry in use is in no list of a freed one, and no list has a name twice.
TreeInv ==
  /\ TypeInv
  /\ \A j : Live(j) => /\ node[j].up \in {Root, Lost} \/ Live(node[j].up)
                       /\ node[j].name \in Components \ TooLong
                       /\ node[j].type = "DIR" => node[j].data = <<>>
  /\ \A a, b : /\ Live(a) /\ Live(b) /\ node[a].up = node[b].up /\ node[a].up # Lost
               /\ node[a].name = node[b].name
               => a = b

--------------------------------------------------------------------------------
(***************************************************************************)
(* Lookup.                                                                 *)
(***************************************************************************)
\* Root and Lost are no dentries.
LEMMA NodesAre ==
  /\ Root \notin Nodes /\ Lost \notin Nodes /\ Root # Lost
<1>1. Root # Lost
  BY DEF Root, Lost
<1>2. Root \notin Nodes /\ Lost \notin Nodes
  BY TmpfsAssumption DEF Root, Lost, Nodes
<1> QED BY <1>1, <1>2, Zenon

\* Well-ordering of the natural numbers.
LEMMA LeastNat ==
  ASSUME NEW T, T \subseteq Nat, T # {}
  PROVE  \E x \in T : \A y \in T : x <= y
<1> DEFINE R == OpToRel(<, Nat)
<1>1. IsWellFoundedOn(R, Nat)
  BY NatLessThanWellFounded, Zenon
<1>2. \A x, y \in Nat : x < y => <<x, y>> \in R
  BY DEF OpToRel
<1> HIDE DEF R
<1>3. PICK x \in T : \A y \in T : <<y, x>> \notin R
  BY <1>1, WFMin, Zenon
<1>4. \A y \in T : ~(y < x)
  BY <1>2, <1>3, Zenon
<1> QED BY <1>4

\* w holds the dentries of the first n levels of q.
Levels(w, q, n) ==
  w = [k \in 0 .. n |-> IF k = 0 THEN {Root} ELSE UNION {Named(i, q[k]) : i \in w[k - 1]}]

\* Levels of one more component.
LEMMA LevelsNext ==
  ASSUME NEW q, NEW n \in Nat, NEW w, Levels(w, q, n)
  PROVE  \E v : Levels(v, q, n + 1)
<1>4. \A k \in 0 .. n + 1 : k \in 0 .. n \/ k = n + 1
  OBVIOUS
<1> DEFINE v == [k \in 0 .. n + 1 |->
                   IF k <= n THEN w[k] ELSE UNION {Named(i, q[k]) : i \in w[n]}]
<1>1. \A k \in 0 .. n : w[k] = IF k = 0 THEN {Root} ELSE UNION {Named(i, q[k]) : i \in w[k - 1]}
  BY Zenon DEF Levels
<1>2. \A k \in 0 .. n : v[k] = w[k] /\ (k # 0 => v[k - 1] = w[k - 1])
  OBVIOUS
<1>3. v[n + 1] = UNION {Named(i, q[n + 1]) : i \in v[n]} /\ n + 1 # 0 /\ (n + 1) - 1 = n
  <2>1. n + 1 \in 0 .. n + 1 /\ ~(n + 1 <= n) /\ n \in 0 .. n + 1 /\ n <= n
        /\ n + 1 # 0 /\ (n + 1) - 1 = n
    OBVIOUS
  <2> QED BY <2>1, Zenon
<1>5. v = [k \in 0 .. n + 1 |-> v[k]]
  BY Zenon
<1> HIDE DEF v
<1>6. ASSUME NEW k \in 0 .. n + 1
      PROVE  v[k] = IF k = 0 THEN {Root} ELSE UNION {Named(i, q[k]) : i \in v[k - 1]}
  <2>1. CASE k \in 0 .. n
    BY <2>1, <1>1, <1>2, Zenon
  <2>2. CASE k = n + 1
    BY <2>2, <1>3, Zenon
  <2> QED BY <2>1, <2>2, <1>4, Zenon
<1>7. Levels(v, q, n + 1)
  BY <1>5, <1>6, Zenon DEF Levels
<1> QED BY <1>7

\* The levels of any path are there: the first number of levels that had none
\* would follow one that has.
LEMMA LevelsExist ==
  ASSUME NEW q, NEW n \in Nat
  PROVE  \E w : Levels(w, q, n)
<1> DEFINE T == {m \in Nat : ~ \E w : Levels(w, q, m)}
<1>1. SUFFICES ASSUME T # {} PROVE FALSE
  OBVIOUS
<1>2. T \subseteq Nat
  OBVIOUS
<1>3. PICK m \in T : \A y \in T : m <= y
  BY <1>1, <1>2, LeastNat, Zenon
<1>4. m # 0
  <2> DEFINE w == [k \in 0 .. 0 |-> {Root}]
  <2>1. \A k \in 0 .. 0 : k = 0
    OBVIOUS
  <2>2. Levels(w, q, 0)
    BY <2>1, Zenon DEF Levels
  <2> QED BY <2>2
<1>5. m - 1 \in Nat /\ m = (m - 1) + 1 /\ ~(m <= m - 1)
  BY <1>4
<1>6. m - 1 \notin T
  BY <1>3, <1>5, Zenon
<1>7. PICK w : Levels(w, q, m - 1)
  BY <1>5, <1>6, Zenon
<1>8. \E v : Levels(v, q, (m - 1) + 1)
  BY <1>5, <1>7, LevelsNext, Zenon
<1> QED BY <1>5, <1>8, Zenon

\* A level holds what the level before it has of its name.
LEMMA WalkIs ==
  ASSUME NEW q, Len(q) \in Nat
  PROVE  /\ Walk(q)[0] = {Root}
         /\ \A k \in 1 .. Len(q) : Walk(q)[k] = UNION {Named(i, q[k]) : i \in Walk(q)[k - 1]}
<1> DEFINE W == CHOOSE w : Levels(w, q, Len(q))
<1>1. Walk(q) = W
  BY Zenon DEF Walk, Levels
<1>2. Levels(W, q, Len(q))
  BY LevelsExist, Zenon
<1> HIDE DEF W
<1>3. \A k \in 0 .. Len(q) : W[k] = IF k = 0 THEN {Root} ELSE UNION {Named(i, q[k]) : i \in W[k - 1]}
  BY <1>2, Zenon DEF Levels
<1>4. 0 \in 0 .. Len(q) /\ \A k \in 1 .. Len(q) : k \in 0 .. Len(q) /\ k # 0
  OBVIOUS
<1> QED BY <1>1, <1>3, <1>4, Zenon

\* A dentry of a level is in the list of one of the level before, under its name.
LEMMA LevelIs ==
  ASSUME NEW q, Len(q) \in Nat, NEW k \in 1 .. Len(q), NEW j
  PROVE  j \in Walk(q)[k] <=> /\ Live(j) /\ node[j].name = q[k]
                              /\ node[j].up \in Walk(q)[k - 1]
<1>1. Walk(q)[k] = UNION {Named(i, q[k]) : i \in Walk(q)[k - 1]}
  BY WalkIs, Zenon
<1>2. j \in Walk(q)[k] <=> \E i \in Walk(q)[k - 1] : j \in Named(i, q[k])
  BY <1>1
<1>3. \A i : j \in Named(i, q[k]) <=> Live(j) /\ node[j].name = q[k] /\ node[j].up = i
  BY Zenon DEF Named, Kids, Live
<1> QED BY <1>2, <1>3, Zenon

\* Only gives what is there.
LEMMA OnlyIn ==
  ASSUME NEW S
  PROVE  S # {} => Only(S) \in S
BY Zenon DEF Only

\* A path that is found leads to the root or to a dentry of its last name.
LEMMA LookupIs ==
  ASSUME NEW q, Len(q) \in Nat, Lookup(q) # Lost
  PROVE  /\ Lookup(q) \in Walk(q)[Len(q)]
         /\ Len(q) = 0 => Lookup(q) = Root
         /\ Len(q) # 0 => Live(Lookup(q)) /\ node[Lookup(q)].name = q[Len(q)]
<1>1. Lookup(q) \in Walk(q)[Len(q)]
  BY OnlyIn, Zenon DEF Lookup, Only
<1>2. Len(q) # 0 => Len(q) \in 1 .. Len(q)
  OBVIOUS
<1>3. Len(q) = 0 => Lookup(q) = Root
  BY <1>1, WalkIs, Zenon
<1>4. Len(q) # 0 => Live(Lookup(q)) /\ node[Lookup(q)].name = q[Len(q)]
  BY <1>1, <1>2, LevelIs
<1> QED BY <1>1, <1>3, <1>4, Zenon

\* Depth gives the last level that is there: the first level that is missing, or
\* the end of the path, follows it.
LEMMA DepthIs ==
  ASSUME NEW q, Len(q) \in Nat
  PROVE  /\ Depth(q) \in 0 .. Len(q) /\ Walk(q)[Depth(q)] # {}
         /\ Depth(q) < Len(q) => Walk(q)[Depth(q) + 1] = {}
<1> DEFINE T == {k \in 0 .. Len(q) : k = Len(q) \/ Walk(q)[k + 1] = {}}
<1>1. T \subseteq Nat /\ Len(q) \in T
  OBVIOUS
<1>2. PICK d \in T : \A y \in T : d <= y
  BY <1>1, LeastNat, Zenon
<1>3. d \in 0 .. Len(q) /\ (d < Len(q) => Walk(q)[d + 1] = {})
  BY <1>2
<1>4. Walk(q)[d] # {}
  <2>1. CASE d = 0
    BY <2>1, WalkIs, Zenon
  <2>2. CASE d # 0
    <3>1. d - 1 \in 0 .. Len(q) /\ d - 1 # Len(q) /\ ~(d <= d - 1) /\ (d - 1) + 1 = d
      BY <2>2, <1>3
    <3>2. d - 1 \notin T
      BY <3>1, <1>2, Zenon
    <3> QED BY <3>1, <3>2, Zenon
  <2> QED BY <2>1, <2>2
<1> HIDE DEF T
<1>5. \E k \in 0 .. Len(q) : Walk(q)[k] # {} /\ (k < Len(q) => Walk(q)[k + 1] = {})
  BY <1>3, <1>4, Zenon
<1> QED BY <1>5, Zenon DEF Depth

\* Short gives the components before the first that is too long.
LEMMA ShortIs ==
  ASSUME NEW q, Len(q) \in Nat
  PROVE  /\ Short(q) \in 0 .. Len(q) /\ \A j \in 1 .. Short(q) : q[j] \notin TooLong
         /\ Short(q) < Len(q) => q[Short(q) + 1] \in TooLong
<1> DEFINE T == {k \in 0 .. Len(q) : k = Len(q) \/ q[k + 1] \in TooLong}
<1>1. T \subseteq Nat /\ Len(q) \in T
  OBVIOUS
<1>2. PICK n \in T : \A y \in T : n <= y
  BY <1>1, LeastNat, Zenon
<1>3. n \in 0 .. Len(q) /\ (n < Len(q) => q[n + 1] \in TooLong)
  BY <1>2
<1>4. ASSUME NEW j \in 1 .. n PROVE q[j] \notin TooLong
  <2>1. j - 1 \in 0 .. Len(q) /\ j - 1 # Len(q) /\ ~(n <= j - 1) /\ (j - 1) + 1 = j
    BY <1>3
  <2>2. j - 1 \notin T
    BY <2>1, <1>2, Zenon
  <2> QED BY <2>1, <2>2, Zenon
<1> HIDE DEF T
<1>5. \E k \in 0 .. Len(q) :
        (\A j \in 1 .. k : q[j] \notin TooLong) /\ (k < Len(q) => q[k + 1] \in TooLong)
  BY <1>3, <1>4, Zenon
<1> QED BY <1>5, Zenon DEF Short

--------------------------------------------------------------------------------
(***************************************************************************)
(* Allocation.                                                             *)
(***************************************************************************)
\* A dentry that is made at place k of a chain below i.
Made(i, names, types, id, k) ==
  [type |-> types[k], name |-> names[k], up |-> IF k = 1 THEN i ELSE id[k - 1], data |-> <<>>]

\* Grown gives each name an unused dentry of its own and leaves the others.
LEMMA GrownIs ==
  ASSUME NEW i, NEW names, NEW types, Len(names) \in Nat, Room(Len(names)),
         NEW g, g = Grown(i, names, types)
  PROVE  \E id \in [1 .. Len(names) -> Unused] :
           /\ \A a, b \in 1 .. Len(names) : id[a] = id[b] => a = b
           /\ g = [j \in Nodes |-> g[j]]
           /\ \A k \in 1 .. Len(names) : g[id[k]] = Made(i, names, types, id, k)
           /\ \A j \in Nodes : (\A k \in 1 .. Len(names) : id[k] # j) => g[j] = node[j]
<1> DEFINE id == CHOOSE f \in Injection(1 .. Len(names), Unused) : TRUE
<1>1. id \in Injection(1 .. Len(names), Unused)
  BY Zenon DEF Room
<1>2. g =
        [j \in Nodes |->
           IF \E k \in DOMAIN id : id[k] = j
           THEN Made(i, names, types, id, CHOOSE k \in DOMAIN id : id[k] = j)
           ELSE node[j]]
  BY Zenon DEF Grown, Made
<1> HIDE DEF id
<1>3. /\ id \in [1 .. Len(names) -> Unused] /\ DOMAIN id = 1 .. Len(names)
      /\ \A a, b \in 1 .. Len(names) : id[a] = id[b] => a = b
  BY <1>1, Zenon DEF Injection, IsInjective
<1>4. ASSUME NEW k \in 1 .. Len(names)
      PROVE  g[id[k]] = Made(i, names, types, id, k)
  <2>1. id[k] \in Nodes
    BY <1>3, Zenon DEF Unused
  <2>2. (CHOOSE l \in DOMAIN id : id[l] = id[k]) = k
    BY <1>3, Zenon
  <2> QED BY <1>2, <1>3, <2>1, <2>2, Zenon
<1>5. \A j \in Nodes : (\A k \in 1 .. Len(names) : id[k] # j) =>
                g[j] = node[j]
  BY <1>2, <1>3, Zenon
<1>6. g = [j \in Nodes |-> g[j]]
  BY <1>2, Zenon
<1> QED BY <1>3, <1>4, <1>5, <1>6, Zenon

\* A chain of new dentries below i, and nothing else is new.
Chained(i, names, types, id) ==
  /\ node' = [j \in Nodes |-> node'[j]]
  /\ \A k \in 1 .. Len(names) :
       /\ id[k] \in Nodes /\ id[k] # i /\ ~Live(id[k]) /\ Live(id[k])'
       /\ node'[id[k]] = Made(i, names, types, id, k)
       /\ node'[id[k]].type = types[k] /\ node'[id[k]].name = names[k]
       /\ node'[id[k]].up = (IF k = 1 THEN i ELSE id[k - 1]) /\ node'[id[k]].data = <<>>
  /\ \A a, b \in 1 .. Len(names) : id[a] = id[b] => a = b
  /\ \A j : Live(j) => Live(j)' /\ \A k \in 1 .. Len(names) : node[j].up # id[k]
  /\ \A j : Live(j)' => Live(j) \/ \E k \in 1 .. Len(names) : j = id[k]
  /\ \A j \in Nodes : (\A k \in 1 .. Len(names) : id[k] # j) => node'[j] = node[j]

\* Grown makes such a chain.
LEMMA GrownChain ==
  ASSUME TreeInv, NEW i, i = Root \/ Live(i), NEW names, Len(names) \in Nat, NEW types,
         Room(Len(names)),
         \A k \in 1 .. Len(names) : types[k] \in {"FILE", "DIR"},
         node' = Grown(i, names, types)
  PROVE  \E id : Chained(i, names, types, id)
<1> DEFINE N == 1 .. Len(names)
<1>2. PICK id \in [N -> Unused] :
         /\ \A a, b \in N : id[a] = id[b] => a = b
         /\ node' = [j \in Nodes |-> node'[j]]
         /\ \A k \in N : node'[id[k]] = Made(i, names, types, id, k)
         /\ \A j \in Nodes : (\A k \in N : id[k] # j) => node'[j] = node[j]
  BY GrownIs
<1>8. \A k \in N : types[k] # "none"
  OBVIOUS
<1> HIDE DEF N
<1>5. \A k \in N : id[k] \in Nodes /\ ~Live(id[k]) /\ id[k] # Root /\ id[k] # Lost /\ id[k] # i
  BY <1>2, NodesAre DEF Unused, Live
<1>6. ASSUME NEW k \in N
      PROVE  /\ node'[id[k]].type = types[k] /\ node'[id[k]].name = names[k]
             /\ node'[id[k]].up = (IF k = 1 THEN i ELSE id[k - 1]) /\ node'[id[k]].data = <<>>
  <2>1. node'[id[k]] = Made(i, names, types, id, k)
    BY <1>2
  <2> DEFINE u == IF k = 1 THEN i ELSE id[k - 1]
  <2>2. node'[id[k]] = [type |-> types[k], name |-> names[k], up |-> u, data |-> <<>>]
    BY <2>1, Zenon DEF Made
  <2> HIDE DEF u
  <2>3. /\ node'[id[k]].type = types[k] /\ node'[id[k]].name = names[k]
        /\ node'[id[k]].up = u /\ node'[id[k]].data = <<>>
    BY <2>2
  <2> QED BY <2>3, Zenon DEF u
<1>7. \A j : Live(j) => Live(j)'
  BY <1>2, <1>5 DEF Live
<1>9. \A k \in N : Live(id[k])'
  BY <1>5, <1>6, <1>8 DEF Live
<1>10. \A j : Live(j)' => Live(j) \/ \E k \in N : j = id[k]
  BY <1>2, Zenon DEF Live
<1>11. \A j : Live(j) => \A k \in N : node[j].up # id[k]
  BY <1>5, Zenon DEF TreeInv
<1>12. \A k \in N :
         /\ id[k] \in Nodes /\ id[k] # i /\ ~Live(id[k]) /\ Live(id[k])'
         /\ node'[id[k]] = Made(i, names, types, id, k)
         /\ node'[id[k]].type = types[k] /\ node'[id[k]].name = names[k]
         /\ node'[id[k]].up = (IF k = 1 THEN i ELSE id[k - 1]) /\ node'[id[k]].data = <<>>
  BY <1>2, <1>5, <1>6, <1>9, Zenon
<1>13. \A j : Live(j) => Live(j)' /\ \A k \in N : node[j].up # id[k]
  BY <1>7, <1>11, Zenon
<1>14. Chained(i, names, types, id)
  BY <1>2, <1>10, <1>12, <1>13, Zenon DEF Chained, N
<1> QED BY <1>14

\* A chain of new dentries below one that lacks its first name keeps the tree.
LEMMA GrownTree ==
  ASSUME TreeInv, NEW i, i = Root \/ Live(i), NEW names \in Seq(Components), NEW types,
         \A k \in 1 .. Len(names) : types[k] \in {"FILE", "DIR"} /\ names[k] \notin TooLong,
         \A j : Len(names) # 0 /\ Live(j) /\ node[j].up = i => node[j].name # names[1],
         NEW id, Chained(i, names, types, id)
  PROVE  TreeInv'
<1> DEFINE N == 1 .. Len(names)
<1>1. Len(names) \in Nat /\ \A k \in N : names[k] \in Components \ TooLong
  OBVIOUS
<1>2. /\ \A a, b \in N : id[a] = id[b] => a = b
      /\ node' = [j \in Nodes |-> node'[j]]
      /\ \A j \in Nodes : (\A k \in N : id[k] # j) => node'[j] = node[j]
  BY Zenon DEF Chained
<1>3. \A k \in N : k # 1 => k - 1 \in N
  BY <1>1
<1>4. (\A k, l \in N : k - 1 = l - 1 => k = l) /\ (N # {} => Len(names) # 0)
  BY <1>1
<1>8. \A k \in N : types[k] \in {"none", "FILE", "DIR"}
  OBVIOUS
<1>5. \A k \in N : id[k] \in Nodes /\ ~Live(id[k]) /\ id[k] # i /\ Live(id[k])'
  BY Zenon DEF Chained
<1>6. \A k \in N : /\ node'[id[k]].type = types[k] /\ node'[id[k]].name = names[k]
                   /\ node'[id[k]].up = (IF k = 1 THEN i ELSE id[k - 1]) /\ node'[id[k]].data = <<>>
  BY Zenon DEF Chained
<1>7. \A j : Live(j) => node'[j] = node[j] /\ Live(j)'
  <2>1. \A j : Live(j) => Live(j)' /\ \A k \in N : id[k] # j
    BY <1>5, ZenonT(40) DEF Chained
  <2>2. \A j : Live(j) => j \in Nodes
    BY Zenon DEF Live
  <2> QED BY <2>1, <2>2, <1>2, Zenon
<1>10. \A j : Live(j)' => Live(j) \/ \E k \in N : j = id[k]
  BY Zenon DEF Chained
<1>11. \A j : Live(j) => \A k \in N : node[j].up # id[k]
  BY Zenon DEF Chained
<1> HIDE DEF N
<1>12. TypeInv'
  <2>1. ASSUME NEW k \in N PROVE node'[id[k]] \in Dentry
    <3>1. (IF k = 1 THEN i ELSE id[k - 1]) \in Nodes \cup {Root, Lost}
      BY <1>3, <1>5, Zenon DEF Live
    <3>2. types[k] \in {"none", "FILE", "DIR"} /\ names[k] \in Name
      BY <1>1, <1>8, Zenon DEF Name
    <3>3. Made(i, names, types, id, k) \in Dentry
      BY <3>1, <3>2, Zenon DEF Made, Dentry
    <3>4. node'[id[k]] = Made(i, names, types, id, k)
      BY Zenon DEF Chained, N
    <3> QED BY <3>3, <3>4, Zenon
  <2>2. \A j \in Nodes : node'[j] \in Dentry
    BY <2>1, <1>2 DEF TreeInv, TypeInv
  <2> QED BY <2>2, <1>2, Zenon DEF TypeInv
<1>13. ASSUME NEW j, Live(j)'
       PROVE  /\ node'[j].up \in {Root, Lost} \/ Live(node[j].up)'
              /\ node'[j].name \in Components \ TooLong
              /\ node'[j].type = "DIR" => node'[j].data = <<>>
  <2>1. CASE Live(j)
    BY <2>1, <1>7, Zenon DEF TreeInv
  <2>2. ASSUME NEW k \in N, j = id[k]
        PROVE  node'[j].up \in {Root, Lost} \/ Live(node[j].up)'
    BY <2>2, <1>3, <1>5, <1>6, <1>7
  <2>3. ASSUME NEW k \in N, j = id[k]
        PROVE  node'[j].name \in Components \ TooLong /\ node'[j].data = <<>>
    BY <2>3, <1>1, <1>6, Zenon
  <2> QED BY <2>1, <2>2, <2>3, <1>10, <1>13
<1>14. ASSUME NEW a, NEW b, Live(a)', Live(b)', node'[a].up = node'[b].up,
              node'[a].up # Lost, node'[a].name = node'[b].name
       PROVE  a = b
  <2>1. ASSUME NEW c, NEW k \in N, Live(c), node'[c].up = node'[id[k]].up,
               node'[c].name = node'[id[k]].name
        PROVE  FALSE
    BY <2>1, <1>3, <1>4, <1>6, <1>7, <1>11
  <2>2. CASE Live(a) /\ Live(b)
    BY <2>2, <1>7, <1>14 DEF TreeInv
  <2>3. ASSUME NEW k \in N, NEW l \in N, a = id[k], b = id[l] PROVE a = b
    BY <2>3, <1>14, <1>2, <1>3, <1>4, <1>5, <1>6
  <2> QED BY <2>1, <2>2, <2>3, <1>10, <1>14
<1> QED BY <1>12, <1>13, <1>14, Zenon DEF TreeInv

\* Calls that change no dentry.
LEMMA SameTree ==
  ASSUME TreeInv, node' = node
  PROVE  TreeInv'
BY Zenon DEF TreeInv, TypeInv, Live

\* The components of a path are names.
LEMMA PathIs ==
  ASSUME NEW p \in Paths
  PROVE  /\ p.comps \in Seq(Components) /\ Len(p.comps) \in Nat
         /\ \A k \in 1 .. Len(p.comps) : p.comps[k] \in Components
         /\ Len(p.comps) = 0 <=> p.comps = <<>>
         /\ p.slash \/ Len(p.comps) # 0
<1>1. p \in [abs : BOOLEAN, comps : Seq(STRING), slash : BOOLEAN] /\ (p.comps # <<>> \/ p.slash)
  BY TmpfsAssumption, Zenon
<1>2. p.comps \in Seq(STRING)
  BY <1>1
<1>3. \A k \in DOMAIN p.comps : p.comps[k] \in Components
  BY DEF Components
<1>4. p.comps \in Seq(Components)
  BY <1>2, <1>3
<1> QED BY <1>1, <1>4

\* r is the part of s behind the a-th element up to the b-th.
IsPart(r, S, s, a, b) == r \in Seq(S) /\ Len(r) = b - a /\ \A m \in 1 .. b - a : r[m] = s[a + m]

\* A part of a sequence.
LEMMA PartIs ==
  ASSUME NEW S, NEW s \in Seq(S), NEW a \in Nat, NEW b \in 0 .. Len(s), a <= b
  PROVE  IsPart(SubSeq(s, a + 1, b), S, s, a, b)
<1> DEFINE f == [m \in 1 .. b - a |-> s[a + m]]
<1>1. Len(s) \in Nat /\ b - a \in Nat /\ \A m \in 1 .. b - a : s[a + m] \in S
  OBVIOUS
<1>2. SubSeq(s, a + 1, b) = f
  OBVIOUS
<1>3. f \in Seq(S) /\ Len(f) = b - a
  BY <1>1
<1> QED BY <1>2, <1>3, Zenon DEF IsPart

\* g of the n - k levels that are missing.
Partly(k, n, g) ==
  /\ g # 0 => k + g \in k + 1 .. n
  /\ (g = n - k => k + g = n) /\ (g < n - k => k + g < n)
  /\ \A m \in 1 .. g : m \in 1 .. n - k /\ 0 + m = m
  /\ (k + g) - k = g

\* Where they are.
LEMMA LevelsPart ==
  ASSUME NEW k \in Nat, NEW n \in Nat, NEW g \in 0 .. n - k
  PROVE  Partly(k, n, g)
BY DEF Partly

\* A chain with the components of q behind the k-th up to the g-th.
Extended(q, types, k, g, i, id) ==
  \E ns \in Seq(Components) : \E kinds :
    /\ Len(ns) = g - k /\ \A m \in 1 .. g - k : ns[m] = q[k + m] /\ kinds[m] = types[k + m]
    /\ Chained(i, ns, kinds, id)

\* All levels were made up to the n-th, or memory ran out.
Far(q, n) == res' = (IF n < Len(q) THEN "TOOLONG" ELSE "OK") /\ heap' = heap
Stop == NoMem \/ (res' = "none" /\ heap' = "hung")

\* The levels of q behind the k-th up to the n-th: the outcomes.
LevelsMade(q, types, k, n, i) ==
  \/ node' = node /\ n <= k /\ Far(q, n)
  \/ Spin
  \/ heap = "ok" /\ node' = node /\ Stop
  \/ /\ heap = "ok"
     /\ \E g \in k + 1 .. n : \E id :
          Extended(q, types, k, g, i, id) /\ ((g = n /\ Far(q, n)) \/ (g < n /\ Stop))

\* MakeLevels: the levels that are missing, as far as memory and names allow.
LEMMA MakeLevelsIs ==
  ASSUME TreeInv, NEW p \in Paths, NEW types \in Seq({"FILE", "DIR"}),
         Len(types) = Len(p.comps), MakeLevels(p, types),
         NEW q, q = p.comps, NEW k, k = Depth(q), NEW n, n = Short(q),
         NEW i, i = Only(Walk(q)[k])
  PROVE  LevelsMade(q, types, k, n, i)
<1> DEFINE names == SubSeq(q, k + 1, n)
           kinds == SubSeq(types, k + 1, n)
           done == IF n < Len(q) THEN "TOOLONG" ELSE "OK"
<1>1. tmpfs_alloc_dentry(i, names, kinds, done)
  BY Zenon DEF MakeLevels
<1>2. q \in Seq(Components) /\ Len(q) \in Nat /\ Len(types) = Len(q)
  BY PathIs, Zenon
<1>3. k \in 0 .. Len(q) /\ Walk(q)[k] # {}
  BY <1>2, DepthIs, Zenon
<1>4. n \in 0 .. Len(q)
  BY <1>2, ShortIs, Zenon
<1>5. i \in Walk(q)[k]
  BY <1>3, OnlyIn, Zenon
<1> HIDE DEF names, kinds, done
<1>6. i = Root \/ Live(i)
  <2>1. k = 0 \/ k \in 1 .. Len(q)
    BY <1>3
  <2> QED BY <2>1, <1>2, <1>5, WalkIs, LevelIs
<1>7. CASE n <= k
  <2>1. names = <<>>
    BY <1>7, <1>2, <1>3, <1>4 DEF names
  <2> QED BY <1>1, <1>7, <2>1, Zenon DEF tmpfs_alloc_dentry, done, LevelsMade, Far
<1>8. CASE ~(n <= k)
  <2>1. k \in Nat /\ n \in Nat /\ n \in 0 .. Len(types) /\ k <= n /\ k + 1 <= n /\ n - k \in Nat
    BY <1>8, <1>2, <1>3, <1>4
  <2>2. /\ names \in Seq(Components) /\ Len(names) = n - k
        /\ \A m \in 1 .. n - k : names[m] = q[k + m]
    <3>1. IsPart(names, Components, q, k, n)
      BY <2>1, <1>2, <1>4, PartIs, Zenon DEF names
    <3> QED BY <3>1, Zenon DEF IsPart
  <2>3. /\ kinds \in Seq({"FILE", "DIR"}) /\ Len(kinds) = n - k
        /\ \A m \in 1 .. n - k : kinds[m] = types[k + m]
    <3>1. IsPart(kinds, {"FILE", "DIR"}, types, k, n)
      BY <2>1, PartIs, Zenon DEF kinds
    <3> QED BY <3>1, Zenon DEF IsPart
  <2> DEFINE Fits == {m \in 0 .. Len(names) : Room(m)}
  <2>5. ASSUME NEW got \in Fits
        PROVE  got \in 0 .. Len(names) /\ got \in 0 .. n - k /\ Room(got) /\ got \in Nat
    <3>1. got \in 0 .. Len(names) /\ Room(got)
      BY <2>5, Zenon
    <3> QED BY <3>1, <2>1, <2>2
  <2>4. \A got : got \in Fits <=> got \in {m \in 0 .. Len(names) : Room(m)}
    OBVIOUS
  <2> HIDE DEF Fits
  <2>6. ASSUME NEW got \in Fits,
               node' = Grown(i, SubSeq(names, 1, got), kinds)
        PROVE  /\ got = 0 => node' = node
               /\ got # 0 => \E id : Extended(q, types, k, k + got, i, id)
    <3> DEFINE ns == SubSeq(names, 1, got)
    <3>1. 0 \in Nat /\ got \in 0 .. Len(names) /\ 0 <= got /\ 0 + 1 = 1 /\ got - 0 = got
      BY <2>5, <2>2
    <3>2. IsPart(SubSeq(names, 0 + 1, got), Components, names, 0, got)
      BY <3>1, <2>2, PartIs, Zenon
    <3>3. ns \in Seq(Components) /\ Len(ns) = got /\ \A m \in 1 .. got : ns[m] = names[0 + m]
      BY <3>1, <3>2, Zenon DEF IsPart
    <3>4. node' = Grown(i, ns, kinds)
      BY <2>6
    <3> HIDE DEF ns
    <3>5. /\ \A m \in 1 .. got : m \in 1 .. n - k /\ 0 + m = m
          /\ (k + got) - k = got
      <4>1. Partly(k, n, got)
        BY <2>5, <2>1, LevelsPart, Zenon
      <4> QED BY <4>1, Zenon DEF Partly
    <3>6. \A m \in 1 .. got : ns[m] = q[k + m] /\ kinds[m] = types[k + m] /\ kinds[m] \in {"FILE", "DIR"}
      <4>1. \A m \in 1 .. n - k : kinds[m] \in {"FILE", "DIR"}
        BY <2>3
      <4> QED BY <3>3, <3>5, <2>2, <2>3, <4>1
    <3>7. PICK id : Chained(i, ns, kinds, id)
      BY <3>3, <3>4, <3>6, <2>5, <1>6, GrownChain, Zenon
    <3>8. Extended(q, types, k, k + got, i, id)
      BY <3>3, <3>5, <3>6, <3>7, Zenon DEF Extended
    <3>9. ASSUME got = 0 PROVE node' = node
      <4>1. 1 .. Len(ns) = {}
        BY <3>9, <3>3
      <4>2. \A j \in Nodes : node'[j] = node[j]
        BY <4>1, <3>7, Zenon DEF Chained
      <4>3. node = [j \in Nodes |-> node[j]] /\ node' = [j \in Nodes |-> node'[j]]
        BY <3>7, Zenon DEF Chained, TreeInv, TypeInv
      <4> QED BY <4>2, <4>3, Zenon
    <3> QED BY <3>8, <3>9
  <2>7. names # <<>>
    BY <2>1, <2>2
  <2>8. CASE Spin
    BY <2>8, Zenon DEF LevelsMade
  <2>9. ASSUME NEW got \in Fits, heap = "ok",
               node' = Grown(i, SubSeq(names, 1, got), kinds),
               (got = Len(names) /\ Far(q, n)) \/ (got < Len(names) /\ Stop)
        PROVE  LevelsMade(q, types, k, n, i)
    <3>1. CASE got = 0
      <4>1. got # Len(names)
        BY <3>1, <2>1, <2>2
      <4> QED BY <3>1, <4>1, <2>6, <2>9, Zenon DEF LevelsMade
    <3>2. CASE got # 0
      <4>1. /\ k + got \in k + 1 .. n /\ (got = Len(names) => k + got = n)
            /\ (got < Len(names) => k + got < n)
        <5>1. Partly(k, n, got)
          BY <2>1, <2>5, LevelsPart, Zenon
        <5> QED BY <5>1, <3>2, <2>2, Zenon DEF Partly
      <4>2. PICK id : Extended(q, types, k, k + got, i, id)
        BY <3>2, <2>6, <2>9, Zenon
      <4> QED BY <4>1, <4>2, <2>9, Zenon DEF LevelsMade
    <3> QED BY <3>1, <3>2, Zenon
  <2>10. Spin \/ (heap = "ok" /\ \E got \in Fits :
                   /\ node' = Grown(i, SubSeq(names, 1, got), kinds)
                   /\ (got = Len(names) /\ Far(q, n)) \/ (got < Len(names) /\ Stop))
    BY <1>1, <2>4, <2>7, Zenon DEF tmpfs_alloc_dentry, done, Far, Stop
  <2> QED BY <2>8, <2>9, <2>10, Zenon
<1> QED BY <1>7, <1>8

\* The place where MakeLevels goes on.
LEMMA LastLevel ==
  ASSUME NEW q, Len(q) \in Nat, NEW k, k = Depth(q), NEW i, i = Only(Walk(q)[k])
  PROVE  /\ k \in 0 .. Len(q) /\ i \in Walk(q)[k] /\ (i = Root \/ Live(i))
         /\ k < Len(q) => \A j : ~(Live(j) /\ node[j].up = i /\ node[j].name = q[k + 1])
<1>1. k \in 0 .. Len(q) /\ Walk(q)[k] # {} /\ (k < Len(q) => Walk(q)[k + 1] = {})
  BY DepthIs, Zenon
<1>2. i \in Walk(q)[k]
  BY <1>1, OnlyIn, Zenon
<1>3. i = Root \/ Live(i)
  <2>1. k = 0 \/ k \in 1 .. Len(q)
    BY <1>1
  <2> QED BY <2>1, <1>2, WalkIs, LevelIs
<1>4. ASSUME k < Len(q), NEW j PROVE ~(Live(j) /\ node[j].up = i /\ node[j].name = q[k + 1])
  <2>1. k + 1 \in 1 .. Len(q) /\ (k + 1) - 1 = k
    BY <1>1, <1>4
  <2>2. j \in Walk(q)[k + 1] <=> /\ Live(j) /\ node[j].name = q[k + 1]
                                 /\ node[j].up \in Walk(q)[(k + 1) - 1]
    BY <2>1, LevelIs, Zenon
  <2> QED BY <2>1, <2>2, <1>1, <1>2, <1>4, Zenon
<1> QED BY <1>1, <1>2, <1>3, <1>4

\* What is made keeps the tree.
LEMMA ExtendedTree ==
  ASSUME TreeInv, NEW q \in Seq(Components), NEW types \in Seq({"FILE", "DIR"}), Len(types) = Len(q),
         NEW k, k = Depth(q), NEW i, i = Only(Walk(q)[k]), NEW g \in k + 1 .. Short(q), NEW id,
         Extended(q, types, k, g, i, id)
  PROVE  TreeInv'
<1>1. Len(q) \in Nat /\ Short(q) \in 0 .. Len(q) /\ \A j \in 1 .. Short(q) : q[j] \notin TooLong
  BY ShortIs
<1>2. /\ k \in 0 .. Len(q) /\ i \in Walk(q)[k] /\ (i = Root \/ Live(i))
      /\ k < Len(q) => \A j : ~(Live(j) /\ node[j].up = i /\ node[j].name = q[k + 1])
  BY <1>1, LastLevel, Zenon
<1>3. PICK ns \in Seq(Components) : \E kinds :
        /\ Len(ns) = g - k /\ \A m \in 1 .. g - k : ns[m] = q[k + m] /\ kinds[m] = types[k + m]
        /\ Chained(i, ns, kinds, id)
  BY Zenon DEF Extended
<1>31. PICK kinds :
        /\ Len(ns) = g - k /\ \A m \in 1 .. g - k : ns[m] = q[k + m] /\ kinds[m] = types[k + m]
        /\ Chained(i, ns, kinds, id)
  BY <1>3, Zenon
<1>4. k < Len(q) /\ 1 \in 1 .. g - k /\ \A m \in 1 .. g - k : k + m \in 1 .. Short(q) /\ k + m \in 1 .. Len(types)
  BY <1>1, <1>2
<1>5. \A m \in 1 .. Len(types) : types[m] \in {"FILE", "DIR"}
  OBVIOUS
<1>6. \A m \in 1 .. Len(ns) : kinds[m] \in {"FILE", "DIR"} /\ ns[m] \notin TooLong
  <2>1. \A m \in 1 .. g - k : ns[m] = q[k + m] /\ kinds[m] = types[k + m]
    BY <1>31, Zenon
  <2>2. Len(ns) = g - k
    BY <1>31, Zenon
  <2>3. \A m \in 1 .. g - k : q[k + m] \notin TooLong /\ types[k + m] \in {"FILE", "DIR"}
    BY <1>1, <1>4, <1>5, Zenon
  <2> QED BY <2>1, <2>2, <2>3, Zenon
<1>7. \A j : Live(j) /\ node[j].up = i => node[j].name # ns[1]
  BY <1>2, <1>31, <1>4, Zenon
<1> QED BY <1>2, <1>31, <1>6, <1>7, GrownTree, Zenon

\* MakeLevels keeps the tree.
LEMMA MakeLevels_step ==
  ASSUME TreeInv, NEW p \in Paths, NEW types \in Seq({"FILE", "DIR"}),
         Len(types) = Len(p.comps), MakeLevels(p, types)
  PROVE  TreeInv'
<1>1. \/ node' = node
      \/ \E g \in Depth(p.comps) + 1 .. Short(p.comps) : \E id :
           Extended(p.comps, types, Depth(p.comps), g, Only(Walk(p.comps)[Depth(p.comps)]), id)
  BY MakeLevelsIs, Zenon DEF LevelsMade, Spin
<1>2. p.comps \in Seq(Components)
  BY PathIs, Zenon
<1> QED BY <1>1, <1>2, SameTree, ExtendedTree, Zenon

--------------------------------------------------------------------------------
(***************************************************************************)
(* Removal and moves.                                                      *)
(***************************************************************************)
\* What tmpfs_free_dentry leaves of a dentry.
LEMMA FreedIs ==
  ASSUME TypeInv, NEW i \in Nodes, NEW j \in Nodes
  PROVE  /\ tmpfs_free_dentry(i)[i] = Free /\ Free \in Dentry
         /\ tmpfs_free_dentry(i)[j] \in Dentry
         /\ j # i => /\ tmpfs_free_dentry(i)[j].type = node[j].type
                     /\ tmpfs_free_dentry(i)[j].name = node[j].name
                     /\ tmpfs_free_dentry(i)[j].data = node[j].data
                     /\ tmpfs_free_dentry(i)[j].up =
                          IF node[j].up = i THEN Lost ELSE node[j].up
<1>1. node[j] \in Dentry
  BY Zenon DEF TypeInv
<1>2. Free \in Dentry
  <2>1. "none" \in Name
    BY DEF Name
  <2> QED BY <2>1, Zenon DEF Free, Dentry
<1>3. tmpfs_free_dentry(i)[i] = Free
  BY Zenon DEF tmpfs_free_dentry
<1>4. CASE j = i
  BY <1>2, <1>3, <1>4, Zenon
<1>5. CASE j # i
  <2>1. tmpfs_free_dentry(i)[j] = IF node[j].up = i THEN [node[j] EXCEPT !.up = Lost] ELSE node[j]
    BY <1>5, Zenon DEF tmpfs_free_dentry
  <2> QED BY <2>1, <1>1, <1>2, <1>3, <1>5 DEF Dentry
<1> QED BY <1>4, <1>5

\* Dentry x is not in use any more, and no dentry is in its list.
Removed(x) ==
  /\ \A j : Live(j)' <=> Live(j) /\ j # x
  /\ \A j : Live(j)' =>
       /\ node'[j].type = node[j].type /\ node'[j].name = node[j].name
       /\ node'[j].data = node[j].data
       /\ node'[j].up = IF node[j].up = x THEN Lost ELSE node[j].up

\* A dentry that is freed takes no child with it.
LEMMA FreedTree ==
  ASSUME TreeInv, NEW i \in Nodes, node' = tmpfs_free_dentry(i)
  PROVE  TreeInv' /\ Removed(i)
<1>1. node' = [j \in Nodes |-> node'[j]]
  BY Zenon DEF tmpfs_free_dentry
<1>2. node'[i].type = "none"
  BY FreedIs DEF TreeInv, Free
<1>3. ASSUME NEW j \in Nodes, j # i
      PROVE  /\ node'[j] \in Dentry /\ node'[j].type = node[j].type
             /\ node'[j].name = node[j].name /\ node'[j].data = node[j].data
             /\ node'[j].up = IF node[j].up = i THEN Lost ELSE node[j].up
  BY <1>3, FreedIs DEF TreeInv
<1>4. node'[i] \in Dentry
  BY FreedIs, Zenon DEF TreeInv
<1>5. TypeInv'
  BY <1>1, <1>3, <1>4, Zenon DEF TypeInv
<1>6. \A j : Live(j)' <=> Live(j) /\ j # i
  BY <1>2, <1>3, Zenon DEF Live
<1>7. \A j : Live(j) => j \in Nodes
  BY Zenon DEF Live
<1>8. ASSUME NEW j, Live(j)'
      PROVE  /\ node'[j].up \in {Root, Lost} \/ Live(node[j].up)'
             /\ node'[j].name \in Components \ TooLong
             /\ node'[j].type = "DIR" => node'[j].data = <<>>
  BY <1>3, <1>6, <1>7, <1>8 DEF TreeInv
<1>9. ASSUME NEW a, NEW b, Live(a)', Live(b)', node'[a].up = node'[b].up,
             node'[a].up # Lost, node'[a].name = node'[b].name
      PROVE  a = b
  BY <1>3, <1>6, <1>7, <1>9 DEF TreeInv
<1>10. Removed(i)
  BY <1>3, <1>6, <1>7, Zenon DEF Removed
<1> QED BY <1>5, <1>8, <1>9, <1>10, Zenon DEF TreeInv

\* Dentry i has the name n in the list of up, and x is not in use any more.
Shifted(i, n, up, x) ==
  /\ \A j : Live(j)' <=> Live(j) /\ j # x
  /\ \A j : Live(j)' => node'[j].type = node[j].type /\ node'[j].data = node[j].data
  /\ \A j : Live(j)' /\ j # i =>
       /\ node'[j].name = node[j].name
       /\ node'[j].up = IF node[j].up = x THEN Lost ELSE node[j].up
  /\ node'[i].name = n /\ node'[i].up = up

\* The dentries without x.
Cleared(x) == IF x = Lost THEN node ELSE tmpfs_free_dentry(x)

\* A dentry gets a name that no dentry in use has in the list of its new parent.
LEMMA RelinkedTree ==
  ASSUME TreeInv, NEW i, Live(i), NEW n \in Components \ TooLong,
         NEW up, up = Root \/ Live(up), NEW x, x = Lost \/ Live(x), x # i, x # up,
         \A j : Live(j) /\ node[j].up = up /\ node[j].name = n => j = x,
         node' = Relinked(Cleared(x), i, n, up)
  PROVE  TreeInv' /\ Shifted(i, n, up, x)
<1> DEFINE nodes == Cleared(x)
<1>1. i \in Nodes /\ node \in [Nodes -> Dentry] /\ (x = Lost \/ x \in Nodes) /\ Lost \notin Nodes
  BY NodesAre, Zenon DEF Live, TreeInv, TypeInv
<1>2. nodes = [j \in Nodes |-> nodes[j]]
  BY <1>1, Zenon DEF Cleared, tmpfs_free_dentry
<1>3. x # Lost => nodes[x] \in Dentry /\ nodes[x].type = "none"
  <2>1. x # Lost => nodes[x] = Free /\ Free \in Dentry
    BY <1>1, FreedIs, Zenon DEF Cleared, TreeInv
  <2> QED BY <2>1 DEF Free
<1>4. ASSUME NEW j \in Nodes, j # x
      PROVE  /\ nodes[j] \in Dentry /\ nodes[j].type = node[j].type
             /\ nodes[j].name = node[j].name /\ nodes[j].data = node[j].data
             /\ nodes[j].up = IF node[j].up = x THEN Lost ELSE node[j].up
  <2>1. CASE x = Lost
    BY <2>1, <1>1, Zenon DEF Cleared
  <2>2. CASE x # Lost
    <3>1. x \in Nodes /\ TypeInv /\ nodes = tmpfs_free_dentry(x)
      BY <2>2, <1>1, Zenon DEF Cleared, TreeInv
    <3> HIDE DEF nodes
    <3> QED BY <3>1, <1>4, FreedIs
  <2> QED BY <2>1, <2>2
<1>5. node' = [nodes EXCEPT ![i].name = n, ![i].up = up]
  BY Zenon DEF Relinked
<1> HIDE DEF nodes
<1>6. node' = [j \in Nodes |-> node'[j]] /\ \A j \in Nodes : j # i => node'[j] = nodes[j]
  BY <1>1, <1>2, <1>5, Zenon
<1>7. /\ node'[i] \in Dentry /\ node'[i].type = node[i].type /\ node'[i].data = node[i].data
      /\ node'[i].name = n /\ node'[i].up = up
  <2>1. node'[i] = [nodes[i] EXCEPT !.name = n, !.up = up]
    BY <1>1, <1>2, <1>5
  <2>2. up \in Nodes \cup {Root, Lost} /\ n \in Name
    BY Zenon DEF Live, Name
  <2>3. /\ nodes[i] \in Dentry /\ nodes[i].type = node[i].type /\ nodes[i].data = node[i].data
    BY <1>1, <1>4, Zenon
  <2> QED BY <2>1, <2>2, <2>3, Zenon DEF Dentry
<1>8. TypeInv'
  <2>1. \A j \in Nodes : node'[j] \in Dentry
    BY <1>1, <1>3, <1>4, <1>6, <1>7
  <2> QED BY <1>6, <2>1, Zenon DEF TypeInv
<1>9. \A j : Live(j)' <=> Live(j) /\ j # x
  BY <1>1, <1>3, <1>4, <1>6, <1>7 DEF Live
<1>10. \A j : Live(j) => j \in Nodes
  BY Zenon DEF Live
<1>11. ASSUME NEW j, Live(j)'
       PROVE  /\ node'[j].up \in {Root, Lost} \/ Live(node[j].up)'
              /\ node'[j].name \in Components \ TooLong
              /\ node'[j].type = "DIR" => node'[j].data = <<>>
  BY <1>4, <1>6, <1>7, <1>9, <1>10, <1>11 DEF TreeInv
<1>12. ASSUME NEW a, NEW b, Live(a)', Live(b)', node'[a].up = node'[b].up,
              node'[a].up # Lost, node'[a].name = node'[b].name
       PROVE  a = b
  BY <1>4, <1>6, <1>7, <1>9, <1>10, <1>12 DEF TreeInv
<1>13. Shifted(i, n, up, x)
  <2>1. \A j : Live(j)' => node'[j].type = node[j].type /\ node'[j].data = node[j].data
    BY <1>4, <1>6, <1>7, <1>9, <1>10
  <2>2. \A j : Live(j)' /\ j # i =>
          /\ node'[j].name = node[j].name
          /\ node'[j].up = IF node[j].up = x THEN Lost ELSE node[j].up
    BY <1>4, <1>6, <1>9, <1>10
  <2> QED BY <2>1, <2>2, <1>7, <1>9, Zenon DEF Shifted
<1> QED BY <1>8, <1>11, <1>12, <1>13, Zenon DEF TreeInv

--------------------------------------------------------------------------------
(***************************************************************************)
(* The operations.                                                         *)
(***************************************************************************)
\* A path that is found and is not the root leads to a dentry in use.
LEMMA FoundLive ==
  ASSUME NEW p \in Paths, p.abs, ~IsRoot(p), tmpfs_lookup(p) # Lost
  PROVE  Live(tmpfs_lookup(p)) /\ tmpfs_lookup(p) \in Nodes
<1>1. Len(p.comps) \in Nat /\ Len(p.comps) # 0 /\ tmpfs_lookup(p) = Lookup(p.comps)
  BY PathIs, Zenon DEF IsRoot, tmpfs_lookup
<1>2. Live(tmpfs_lookup(p))
  BY <1>1, LookupIs, Zenon
<1> QED BY <1>2, Zenon DEF Live

\* creat.
LEMMA creat_step ==
  ASSUME TreeInv, NEW p \in Paths, creat(p)
  PROVE  TreeInv'
<1> DEFINE types == [k \in DOMAIN p.comps |->
                      IF k = Len(p.comps) /\ ~p.slash THEN "FILE" ELSE "DIR"]
<1>1. node' = node \/ MakeLevels(p, types)
  BY Zenon DEF creat, Answer
<1>2. types \in Seq({"FILE", "DIR"}) /\ Len(types) = Len(p.comps)
  BY PathIs
<1> HIDE DEF types
<1> QED BY <1>1, <1>2, SameTree, MakeLevels_step, Zenon

\* mkdir.
LEMMA mkdir_step ==
  ASSUME TreeInv, NEW p \in Paths, mkdir(p)
  PROVE  TreeInv'
<1> DEFINE types == [k \in DOMAIN p.comps |-> "DIR"]
<1>1. node' = node \/ MakeLevels(p, types)
  BY Zenon DEF mkdir, Answer
<1>2. types \in Seq({"FILE", "DIR"}) /\ Len(types) = Len(p.comps)
  BY PathIs
<1> HIDE DEF types
<1> QED BY <1>1, <1>2, SameTree, MakeLevels_step, Zenon

\* unlink.
LEMMA unlink_step ==
  ASSUME TreeInv, NEW p \in Paths, unlink(p)
  PROVE  TreeInv'
<1>1. \/ node' = node
      \/ /\ p.abs /\ ~IsRoot(p) /\ tmpfs_lookup(p) # Lost
         /\ node' = tmpfs_free_dentry(tmpfs_lookup(p))
  BY Zenon DEF unlink, Answer, Spin
<1> QED BY <1>1, SameTree, FoundLive, FreedTree, Zenon

\* The ends of rename, with i found under p and x under q, a name in the list of
\* up: no dentry changes, or x is freed, or i has taken its place.
RenameEnds(p, q, i, n, up, x) ==
  \/ /\ node' = node
     /\ (UNCHANGED heap /\ res' \in {"INVAL", "NOENT", "NOTDIR", "NOTEMPTY"}) \/ Spin \/ NoMem
  \/ /\ p.abs /\ ~IsRoot(p) /\ Live(i) /\ n \in Nat /\ n # 0
     /\ q.comps[n] \in Components \ TooLong
     /\ (up = Root \/ Live(up)) /\ up # Lost /\ x # up
     /\ x = Lost \/ (Live(x) /\ node[x].up = up /\ node[x].name = q.comps[n])
     /\ \A j : Live(j) /\ node[j].up = up /\ node[j].name = q.comps[n] => j = x
     /\ \/ /\ heap = "ok" /\ heap' = "wild" /\ res' = "none" /\ node' = node
           /\ x # Lost /\ x \in {i, node[i].up}
        \/ NoMem /\ (IF x = Lost THEN node' = node ELSE TreeInv' /\ Removed(x))
        \/ /\ heap = "ok" /\ res' = "OK" /\ heap' = heap
           /\ x # i /\ (x # Lost => x # node[i].up)
           /\ TreeInv' /\ Shifted(i, q.comps[n], up, x)

\* rename: what has the new name has no children, so it is not the new parent,
\* not even one that is in its own list.
LEMMA RenameIs ==
  ASSUME TreeInv, NEW p \in Paths, NEW q \in Paths, rename(p, q),
         NEW i, i = tmpfs_lookup(p), NEW n, n = Len(q.comps),
         NEW up, up = Lookup(SubSeq(q.comps, 1, n - 1)), NEW x, x = Child(up, q.comps[n])
  PROVE  RenameEnds(p, q, i, n, up, x)
<1> DEFINE Early == \/ Answer("INVAL") \/ Answer("NOENT") \/ Answer("NOTDIR") \/ Answer("NOTEMPTY")
                    \/ Spin \/ (NoMem /\ UNCHANGED node)
           Late == /\ p.abs /\ ~IsRoot(p) /\ i # Lost /\ ~q.slash /\ q.comps[n] \notin TooLong
                   /\ up # Lost /\ TypeOf(up) = "DIR" /\ Replace(i, up, q.comps[n])
<1>1. Early \/ Late
  BY Zenon DEF rename
<1>2. CASE Early
  BY <1>2, Zenon DEF Answer, Spin, RenameEnds
<1>3. CASE Late /\ ~Early
  <2>1. /\ p.abs /\ ~IsRoot(p) /\ i # Lost /\ ~q.slash /\ q.comps[n] \notin TooLong
        /\ up # Lost /\ TypeOf(up) = "DIR"
    BY <1>3, Zenon
  <2>2. /\ ~(x # Lost /\ Busy(x))
        /\ \/ NoMem /\ node' = Cleared(x)
           \/ /\ heap = "ok" /\ ~(x # Lost /\ x \in {i, node[i].up})
              /\ node' = Relinked(Cleared(x), i, q.comps[n], up) /\ res' = "OK" /\ UNCHANGED heap
           \/ /\ heap = "ok" /\ x # Lost /\ x \in {i, node[i].up}
              /\ heap' = "wild" /\ res' = "none" /\ UNCHANGED node
    BY <1>3, Zenon DEF Replace, Cleared
  <2> HIDE DEF Early, Late
  <2>3. Live(i)
    BY <2>1, FoundLive, Zenon
  <2>4. n \in Nat /\ n # 0 /\ n \in 1 .. n /\ q.comps[n] \in Components
    BY <2>1, PathIs
  <2>5. Len(SubSeq(q.comps, 1, n - 1)) \in Nat
    <3>1. 0 \in Nat /\ n - 1 \in 0 .. Len(q.comps) /\ 0 <= n - 1 /\ 0 + 1 = 1
      BY <2>4
    <3>2. SubSeq(q.comps, 0 + 1, n - 1) \in Seq(Components)
      BY <3>1, PathIs, PartIs, Zenon DEF IsPart
    <3> QED BY <3>1, <3>2
  <2>6. up = Root \/ Live(up)
    BY <2>1, <2>5, LookupIs, Zenon
  <2>7. x = Lost \/ (Live(x) /\ node[x].up = up /\ node[x].name = q.comps[n])
    BY Zenon DEF Child, Only, Named, Kids, Live
  <2>8. \A j : Live(j) /\ node[j].up = up /\ node[j].name = q.comps[n] => j = x
    <3>1. ASSUME NEW j, Live(j), node[j].up = up, node[j].name = q.comps[n] PROVE x # Lost
      <4>1. j \in Named(up, q.comps[n])
        BY <3>1, Zenon DEF Named, Kids, Live
      <4>2. x \in Named(up, q.comps[n])
        BY <4>1, OnlyIn, Zenon DEF Child
      <4> QED BY <4>2, NodesAre, Zenon DEF Named, Kids
    <3> QED BY <3>1, <2>1, <2>7 DEF TreeInv
  <2>9. x # up
    <3>1. CASE x = Lost
      BY <3>1, <2>1, Zenon
    <3>2. CASE x # Lost
      <4>1. x \in Kids(up) /\ x # Root
        BY <3>2, <2>7, NodesAre, Zenon DEF Kids, Live
      <4> QED BY <3>2, <4>1, <2>1, <2>2, Zenon DEF Busy
    <3> QED BY <3>1, <3>2
  <2>10. ASSUME node' = Cleared(x) PROVE IF x = Lost THEN node' = node ELSE TreeInv' /\ Removed(x)
    BY <2>10, <2>7, FreedTree, Zenon DEF Cleared, Live
  <2>11. ASSUME ~(x # Lost /\ x \in {i, node[i].up}), node' = Relinked(Cleared(x), i, q.comps[n], up)
         PROVE  /\ x # i /\ (x # Lost => x # node[i].up)
                /\ TreeInv' /\ Shifted(i, q.comps[n], up, x)
    <3>1. x # i
      BY <2>11, <2>3, NodesAre, Zenon DEF Live
    <3>2. q.comps[n] \in Components \ TooLong
      BY <2>1, <2>4, Zenon
    <3>3. x = Lost \/ Live(x)
      BY <2>7, Zenon
    <3>4. TreeInv' /\ Shifted(i, q.comps[n], up, x)
      BY <3>1, <3>2, <3>3, <2>11, <2>3, <2>6, <2>8, <2>9, RelinkedTree, Zenon
    <3> QED BY <3>1, <3>4, <2>11, Zenon
  <2>12. q.comps[n] \in Components \ TooLong
    BY <2>1, <2>4, Zenon
  <2>13. \/ /\ heap = "ok" /\ heap' = "wild" /\ res' = "none" /\ node' = node
            /\ x # Lost /\ x \in {i, node[i].up}
         \/ NoMem /\ (IF x = Lost THEN node' = node ELSE TreeInv' /\ Removed(x))
         \/ /\ heap = "ok" /\ res' = "OK" /\ heap' = heap
            /\ x # i /\ (x # Lost => x # node[i].up)
            /\ TreeInv' /\ Shifted(i, q.comps[n], up, x)
    <3>1. CASE NoMem /\ node' = Cleared(x)
      BY <3>1, <2>10, Zenon
    <3>2. CASE /\ heap = "ok" /\ ~(x # Lost /\ x \in {i, node[i].up})
               /\ node' = Relinked(Cleared(x), i, q.comps[n], up) /\ res' = "OK" /\ UNCHANGED heap
      <4>1. /\ x # i /\ (x # Lost => x # node[i].up)
            /\ TreeInv' /\ Shifted(i, q.comps[n], up, x)
        BY <3>2, <2>11, Zenon
      <4> QED BY <3>2, <4>1, Zenon
    <3> QED BY <2>2, <3>1, <3>2, Zenon
  <2>14. p.abs /\ ~IsRoot(p) /\ Live(i) /\ n \in Nat /\ n # 0
    BY <2>1, <2>3, <2>4, Zenon
  <2>15. up # Lost
    BY <2>1, Zenon
  <2> QED BY <2>6, <2>7, <2>8, <2>9, <2>12, <2>13, <2>14, <2>15, Zenon DEF RenameEnds
<1> HIDE DEF Early, Late
<1> QED BY <1>1, <1>2, <1>3, Zenon

\* rename keeps the tree.
LEMMA rename_step ==
  ASSUME TreeInv, NEW p \in Paths, NEW q \in Paths, rename(p, q)
  PROVE  TreeInv'
<1>1. node' = node \/ TreeInv'
  BY RenameIs, Zenon DEF RenameEnds
<1> QED BY <1>1, SameTree

\* write.
LEMMA write_step ==
  ASSUME TreeInv, NEW p \in Paths, NEW d \in Contents, write(p, d)
  PROVE  TreeInv'
<1> DEFINE i == tmpfs_lookup(p)
<1>1. CASE node' = node
  BY <1>1, SameTree
<1>2. CASE node' # node
  <2>1. Handed(p) /\ node[i].type = "FILE" /\ node' = [node EXCEPT ![i].data = d]
    BY <1>2, Zenon DEF write, Answer, Spin
  <2>2. Live(i) /\ i \in Nodes /\ node \in [Nodes -> Dentry]
    BY <2>1, FoundLive, Zenon DEF Handed, TreeInv, TypeInv
  <2> HIDE DEF i
  <2>3. node' \in [Nodes -> Dentry] /\ \A j \in Nodes : j # i => node'[j] = node[j]
    <3>1. [node[i] EXCEPT !.data = d] \in Dentry
      BY <2>2 DEF Dentry
    <3> QED BY <2>1, <2>2, <3>1, Zenon
  <2>4. /\ node'[i].type = node[i].type /\ node'[i].up = node[i].up
        /\ node'[i].name = node[i].name
    BY <2>1, <2>2 DEF Dentry
  <2>5. \A j : (Live(j)' <=> Live(j)) /\ (Live(j) => j \in Nodes)
    BY <2>3, <2>4, Zenon DEF Live
  <2> QED BY <2>1, <2>2, <2>3, <2>4, <2>5 DEF TreeInv, TypeInv
<1> QED BY <1>1, <1>2

--------------------------------------------------------------------------------
\* No dentry is in use in the beginning.
LEMMA TreeInit ==
  ASSUME Init
  PROVE  TreeInv
<1>1. \A i \in Nodes : node[i].type = "none" /\ node[i] \in Dentry
  <2>1. Free \in Dentry
    BY Zenon DEF Free, Dentry, Name
  <2> QED BY <2>1 DEF Init, Free
<1> QED BY <1>1, Zenon DEF Init, TreeInv, TypeInv, Live

\* Every step keeps the tree.
LEMMA TreeStep ==
  ASSUME TreeInv, [Next]_vars
  PROVE  TreeInv'
<1>1. CASE UNCHANGED vars
  BY <1>1, SameTree, Zenon DEF vars
<1>2. CASE Next
  BY <1>2, creat_step, mkdir_step, unlink_step, rename_step, write_step, Zenon DEF Next
<1> QED BY <1>1, <1>2

\* Whatever calls are made and wherever memory runs out, no directory of tmpfs
\* holds a name twice, and no dentry in use is in the list of a freed one.
THEOREM Trees == Spec => []TreeSound
<1>1. Init => TreeInv
  BY TreeInit
<1>2. TreeInv /\ [Next]_vars => TreeInv'
  BY TreeStep
<1>3. TreeInv => TreeSound
  BY Zenon DEF TreeInv, TreeSound, Live, Kids
<1> QED BY <1>1, <1>2, <1>3, PTL DEF Spec

--------------------------------------------------------------------------------
(***************************************************************************)
(* What the paths lead to.                                                 *)
(***************************************************************************)
\* q leads to dentry j.
Leads(q, j) == j \in Walk(q)[Len(q)]

\* The paths, with the one of the root.
AllPaths == Seq(Components)

--------------------------------------------------------------------------------
(***************************************************************************)
(* Sequences.                                                              *)
(***************************************************************************)
\* A path is empty or has a last component.
LEMMA LastOf ==
  ASSUME NEW q \in AllPaths
  PROVE  \/ q = <<>>
         \/ \E r \in AllPaths, n \in Components : q = Append(r, n) /\ Len(q) = Len(r) + 1
<1>1. CASE q # <<>>
  <2> DEFINE r == [k \in 1 .. Len(q) - 1 |-> q[k]]
  <2>1. Len(q) \in Nat /\ Len(q) # 0 /\ q[Len(q)] \in Components
    BY <1>1 DEF AllPaths
  <2>2. r \in AllPaths /\ Len(r) = Len(q) - 1
    BY <2>1 DEF AllPaths
  <2>3. q = Append(r, q[Len(q)])
    BY <2>1, <2>2 DEF AllPaths
  <2> QED BY <2>1, <2>2, <2>3
<1> QED BY <1>1

\* What holds of the empty path, and of a path with one more component, holds of
\* all: the shortest path for which it did not would have a last component.
LEMMA PathInduction ==
  ASSUME NEW T, <<>> \in T,
         \A q \in AllPaths, n \in Components : q \in T => Append(q, n) \in T
  PROVE  \A q \in AllPaths : q \in T
<1> DEFINE Z == {n \in Nat : \E q \in AllPaths : Len(q) = n /\ q \notin T}
<1>1. SUFFICES ASSUME Z # {} PROVE FALSE
  <2>1. \A q \in AllPaths : Len(q) \in Nat
    BY DEF AllPaths
  <2> QED BY <2>1
<1>2. PICK m \in Z : \A y \in Z : m <= y
  <2>1. Z \subseteq Nat
    OBVIOUS
  <2> HIDE DEF Z
  <2> QED BY <2>1, <1>1, LeastNat, Zenon
<1>3. PICK q \in AllPaths : Len(q) = m /\ q \notin T
  BY <1>2
<1>4. PICK r \in AllPaths, n \in Components : q = Append(r, n) /\ Len(q) = Len(r) + 1
  BY <1>3, LastOf, Zenon
<1>5. Len(r) \in Nat /\ ~(m <= Len(r))
  BY <1>3, <1>4 DEF AllPaths
<1>6. Len(r) \notin Z
  BY <1>2, <1>5, Zenon
<1>7. r \in T
  BY <1>5, <1>6, Zenon
<1> QED BY <1>3, <1>4, <1>7, Zenon

\* The facts on Append that are used below.
LEMMA AppendIs ==
  ASSUME NEW q \in AllPaths, NEW n \in Components
  PROVE  /\ Append(q, n) \in AllPaths /\ Append(q, n) # <<>>
         /\ Len(q) \in Nat /\ Len(Append(q, n)) = Len(q) + 1
         /\ Append(q, n)[Len(q) + 1] = n
         /\ \A k \in 1 .. Len(q) : Append(q, n)[k] = q[k]
         /\ <<>> \in AllPaths
BY DEF AllPaths

\* All components but the last, and the last.
Parent(q) == SubSeq(q, 1, Len(q) - 1)
LastName(q) == q[Len(q)]

\* They make up the path.
LEMMA PartsIs ==
  ASSUME NEW q \in AllPaths, NEW n \in Components
  PROVE  Parent(Append(q, n)) = q /\ LastName(Append(q, n)) = n
BY DEF AllPaths, Parent, LastName

--------------------------------------------------------------------------------
(***************************************************************************)
(* Where paths lead to.                                                    *)
(***************************************************************************)
\* Levels depend on the components before them only.
LEMMA SameLevels ==
  ASSUME NEW q, NEW r, Len(q) \in Nat, Len(r) \in Nat, NEW n \in Nat, n <= Len(q), n <= Len(r),
         \A k \in 1 .. n : q[k] = r[k]
  PROVE  \A k \in 0 .. n : Walk(q)[k] = Walk(r)[k]
<1> DEFINE T == {k \in 0 .. n : Walk(q)[k] # Walk(r)[k]}
<1>1. SUFFICES ASSUME T # {} PROVE FALSE
  OBVIOUS
<1>2. PICK m \in T : \A y \in T : m <= y
  <2>1. T \subseteq Nat
    OBVIOUS
  <2> HIDE DEF T
  <2> QED BY <2>1, <1>1, LeastNat, Zenon
<1>3. m # 0
  BY WalkIs, Zenon
<1>4. m - 1 \in 0 .. n /\ ~(m <= m - 1) /\ m \in 1 .. Len(q) /\ m \in 1 .. Len(r) /\ m \in 1 .. n
  BY <1>3
<1>5. Walk(q)[m - 1] = Walk(r)[m - 1]
  BY <1>2, <1>4, Zenon
<1>6. Walk(q)[m] # Walk(r)[m]
  BY <1>2, Zenon
<1> HIDE DEF T
<1>7. /\ Walk(q)[m] = UNION {Named(i, q[m]) : i \in Walk(q)[m - 1]}
      /\ Walk(r)[m] = UNION {Named(i, r[m]) : i \in Walk(r)[m - 1]}
  BY <1>4, WalkIs, Zenon
<1> QED BY <1>4, <1>5, <1>6, <1>7, Zenon

\* Where a path leads to, one component after the other.
LeadsRule ==
  /\ \A j : Leads(<<>>, j) <=> j = Root
  /\ \A q \in AllPaths, n \in Components :
       \A j : Leads(Append(q, n), j) <=> Live(j) /\ node[j].name = n /\ Leads(q, node[j].up)

\* They follow from the levels of tmpfs_lookup.
LEMMA LeadsNow == LeadsRule
<1>1. ASSUME NEW j PROVE Leads(<<>>, j) <=> j = Root
  <2>1. Len(<<>>) = 0 /\ Len(<<>>) \in Nat
    OBVIOUS
  <2>2. Walk(<<>>)[0] = {Root}
    BY <2>1, WalkIs, Zenon
  <2> QED BY <2>1, <2>2, Zenon DEF Leads
<1>2. ASSUME NEW q \in AllPaths, NEW n \in Components, NEW j
      PROVE  Leads(Append(q, n), j) <=> Live(j) /\ node[j].name = n /\ Leads(q, node[j].up)
  <2> DEFINE r == Append(q, n)
  <2>1. /\ Len(q) \in Nat /\ Len(r) = Len(q) + 1 /\ r[Len(q) + 1] = n
        /\ \A k \in 1 .. Len(q) : r[k] = q[k]
    BY AppendIs, Zenon
  <2> HIDE DEF r
  <2>2. /\ Len(r) \in Nat /\ Len(r) \in 1 .. Len(r) /\ Len(r) - 1 = Len(q)
        /\ Len(q) <= Len(q) /\ Len(q) <= Len(r) /\ Len(q) \in 0 .. Len(q)
    BY <2>1
  <2>3. \A k \in 0 .. Len(q) : Walk(r)[k] = Walk(q)[k]
    BY <2>1, <2>2, SameLevels, Zenon
  <2>4. j \in Walk(r)[Len(r)] <=> /\ Live(j) /\ node[j].name = r[Len(r)]
                                  /\ node[j].up \in Walk(r)[Len(r) - 1]
    BY <2>2, LevelIs, Zenon
  <2> QED BY <2>1, <2>2, <2>3, <2>4, Zenon DEF Leads, r
<1> QED BY <1>1, <1>2, Zenon DEF LeadsRule

\* The same after a step.
LEMMA LeadsNext == LeadsRule'
BY LeadsNow, PTL

\* The last component of a path is the name of what it leads to.
LEMMA LeadsLast ==
  ASSUME NEW q \in AllPaths, NEW n \in Components, NEW r, r = Append(q, n), NEW j, Leads(r, j)
  PROVE  Live(j) /\ node[j].name = n /\ Leads(q, node[j].up)
BY LeadsNow, Zenon DEF LeadsRule

\* No path leads to a dentry without a list, only the empty one to the root.
LEMMA LeadsLost ==
  ASSUME NEW q \in AllPaths, NEW j, Leads(q, j)
  PROVE  j # Lost /\ (q # <<>> => Live(j))
<1>1. CASE q = <<>>
  BY <1>1, LeadsNow, NodesAre, Zenon DEF LeadsRule
<1>2. CASE q # <<>>
  <2>1. PICK r \in AllPaths, n \in Components : q = Append(r, n)
    BY <1>2, LastOf, Zenon
  <2>2. Live(j)
    BY <2>1, LeadsNow, Zenon DEF LeadsRule
  <2> QED BY <2>2, NodesAre, Zenon DEF Live
<1> QED BY <1>1, <1>2

\* The same after a step.
LEMMA LostNext == \A q \in AllPaths : \A j : Leads(q, j)' => j # Lost /\ (q # <<>> => Live(j)')
<1>1. \A q \in AllPaths : \A j : Leads(q, j) => j # Lost /\ (q # <<>> => Live(j))
  BY LeadsLost, Zenon
<1>2. (\A q \in AllPaths : \A j : Leads(q, j) => j # Lost /\ (q # <<>> => Live(j)))'
  BY <1>1, PTL
<1> QED BY <1>2, Zenon DEF AllPaths, Components

\* A path leads to the root or to a dentry.
LEMMA LeadsLive ==
  ASSUME NEW q \in AllPaths, NEW j, Leads(q, j)
  PROVE  j = Root \/ Live(j)
<1>1. \A c : Leads(<<>>, c) => c = Root
  BY LeadsNow, Zenon DEF LeadsRule
<1>2. CASE q = <<>>
  BY <1>1, <1>2, Zenon
<1>3. CASE q # <<>>
  BY <1>3, LeadsLost, Zenon
<1> QED BY <1>2, <1>3

\* Only the empty path leads to the root.
LEMMA LeadsRoot ==
  ASSUME NEW q \in AllPaths, Leads(q, Root)
  PROVE  q = <<>>
<1>1. ~Live(Root)
  BY NodesAre, Zenon DEF Live
<1>2. Leads(q, Root) => (q # <<>> => Live(Root))
  BY LeadsLost, Zenon
<1> QED BY <1>1, <1>2

\* A path leads to one dentry at most, and only the empty one to the root.
LEMMA LeadsOne ==
  ASSUME TreeInv, NEW q \in AllPaths, NEW a, NEW b, Leads(q, a), Leads(q, b)
  PROVE  a = b
<1> DEFINE T == {r \in AllPaths : \A c, d : Leads(r, c) /\ Leads(r, d) => c = d}
<1>1. <<>> \in AllPaths
  BY DEF AllPaths
<1>2. <<>> \in T
  BY <1>1, LeadsNow, Zenon DEF LeadsRule
<1>3. ASSUME NEW r \in AllPaths, NEW n \in Components, r \in T PROVE Append(r, n) \in T
  <2>1. ASSUME NEW c, NEW d, Leads(Append(r, n), c), Leads(Append(r, n), d) PROVE c = d
    <3>1. /\ Live(c) /\ node[c].name = n /\ Leads(r, node[c].up)
          /\ Live(d) /\ node[d].name = n /\ Leads(r, node[d].up)
      BY <2>1, LeadsNow, Zenon DEF LeadsRule
    <3>2. node[c].up = node[d].up
      BY <1>3, <3>1, Zenon
    <3>3. node[c].up # Lost
      BY <3>1, LeadsLost, Zenon
    <3> QED BY <3>1, <3>2, <3>3, Zenon DEF TreeInv
  <2>2. Append(r, n) \in AllPaths
    BY AppendIs, Zenon
  <2> QED BY <2>1, <2>2, Zenon
<1> HIDE DEF T
<1>4. q \in T
  BY <1>2, <1>3, PathInduction, Zenon
<1> QED BY <1>4, Zenon DEF T

\* A dentry has one path at most.
LEMMA LeadsOnly ==
  ASSUME TreeInv, NEW q \in AllPaths, NEW r \in AllPaths, NEW j, Leads(q, j), Leads(r, j)
  PROVE  q = r
<1> DEFINE T == {s \in AllPaths : \A t \in AllPaths : \A i : Leads(s, i) /\ Leads(t, i) => s = t}
<1>1. <<>> \in AllPaths
  BY DEF AllPaths
<1>2. <<>> \in T
  <2>1. ASSUME NEW t \in AllPaths, NEW i, Leads(<<>>, i), Leads(t, i) PROVE <<>> = t
    <3>1. i = Root
      BY <2>1, LeadsNow, Zenon DEF LeadsRule
    <3>2. Leads(t, Root)
      BY <2>1, <3>1
    <3> QED BY <3>2, LeadsRoot, Zenon
  <2> QED BY <1>1, <2>1, Zenon
<1>3. ASSUME NEW s \in AllPaths, NEW n \in Components, s \in T PROVE Append(s, n) \in T
  <2>1. ASSUME NEW t \in AllPaths, NEW i, Leads(Append(s, n), i), Leads(t, i) PROVE Append(s, n) = t
    <3>1. Live(i) /\ node[i].name = n /\ Leads(s, node[i].up)
      BY <2>1, LeadsNow, Zenon DEF LeadsRule
    <3>2. t # <<>>
      <4>1. i # Root
        BY <3>1, NodesAre, Zenon DEF Live
      <4>2. \A c : Leads(<<>>, c) => c = Root
        BY LeadsNow, Zenon DEF LeadsRule
      <4> QED BY <4>1, <4>2, <2>1
    <3>3. PICK u \in AllPaths, m \in Components : t = Append(u, m)
      BY <3>2, LastOf, Zenon
    <3>4. node[i].name = m /\ Leads(u, node[i].up)
      BY <3>3, <2>1, LeadsNow, Zenon DEF LeadsRule
    <3>5. s = u
      BY <1>3, <3>1, <3>4, Zenon
    <3> QED BY <3>1, <3>3, <3>4, <3>5, Zenon
  <2>2. Append(s, n) \in AllPaths
    BY AppendIs, Zenon
  <2> QED BY <2>1, <2>2, Zenon
<1> HIDE DEF T
<1>4. q \in T
  BY <1>2, <1>3, PathInduction, Zenon
<1> QED BY <1>4, Zenon DEF T

\* tmpfs_lookup finds what the path leads to.
LEMMA LookupLeads ==
  ASSUME TreeInv, NEW q \in AllPaths
  PROVE  /\ Lookup(q) # Lost => Leads(q, Lookup(q))
         /\ \A j : Leads(q, j) => Lookup(q) = j /\ j # Lost
<1>1. Len(q) \in Nat
  BY DEF AllPaths
<1>2. Lookup(q) # Lost => Leads(q, Lookup(q))
  BY <1>1, LookupIs, Zenon DEF Leads
<1>3. ASSUME NEW j, Leads(q, j) PROVE Lookup(q) = j /\ j # Lost
  <2>1. j # Lost
    BY <1>3, LeadsLost, Zenon
  <2>2. Walk(q)[Len(q)] # {} /\ Leads(q, Lookup(q))
    BY <1>3, OnlyIn, Zenon DEF Leads, Lookup
  <2> QED BY <1>3, <2>1, <2>2, LeadsOne, Zenon
<1> QED BY <1>2, <1>3

\* A level of a path is where its first components lead to.
LEMMA LevelLeads ==
  ASSUME NEW q \in AllPaths, NEW k \in 0 .. Len(q)
  PROVE  /\ SubSeq(q, 1, k) \in AllPaths /\ Len(SubSeq(q, 1, k)) = k
         /\ \A j : j \in Walk(q)[k] <=> Leads(SubSeq(q, 1, k), j)
<1> DEFINE r == SubSeq(q, 1, k)
<1>1. Len(q) \in Nat /\ k \in Nat /\ k <= Len(q)
  BY DEF AllPaths
<1>2. r \in AllPaths /\ Len(r) = k /\ \A m \in 1 .. k : q[m] = r[m]
  BY <1>1 DEF AllPaths
<1> HIDE DEF r
<1>3. Len(r) \in Nat /\ k <= Len(r) /\ k \in 0 .. k
  BY <1>1, <1>2
<1>4. \A m \in 0 .. k : Walk(q)[m] = Walk(r)[m]
  BY <1>1, <1>2, <1>3, SameLevels, ZenonT(40)
<1>5. Walk(q)[k] = Walk(r)[k]
  BY <1>3, <1>4, Zenon
<1>6. \A j : j \in Walk(q)[k] <=> Leads(r, j)
  BY <1>2, <1>5, Zenon DEF Leads
<1> QED BY <1>2, <1>6, Zenon DEF r

--------------------------------------------------------------------------------
(***************************************************************************)
(* The map.                                                                *)
(***************************************************************************)
\* m shows what the paths lead to, besides the root.
Shown(m) ==
  /\ m = [q \in DOMAIN m |-> m[q]]
  /\ \A q : q \in DOMAIN m <=> q \in AllPaths /\ q # <<>> /\ \E j : Leads(q, j)
  /\ \A q \in AllPaths : \A j :
       q # <<>> /\ Leads(q, j) => m[q] = [type |-> node[j].type, data |-> node[j].data]

\* First components of a path and of one with a component more.
LEMMA FrontIs ==
  ASSUME NEW q \in AllPaths, NEW n \in Components, NEW k \in 0 .. Len(q) + 1
  PROVE  SubSeq(Append(q, n), 1, k) = IF k = Len(q) + 1 THEN Append(q, n) ELSE SubSeq(q, 1, k)
<1>1. Len(q) \in Nat /\ Append(q, n) \in AllPaths /\ Len(Append(q, n)) = Len(q) + 1
  BY DEF AllPaths
<1>2. CASE k = Len(q) + 1
  BY <1>1, <1>2 DEF AllPaths
<1>3. CASE k # Len(q) + 1
  <2>1. k \in 0 .. Len(q) /\ Len(SubSeq(Append(q, n), 1, k)) = k /\ Len(SubSeq(q, 1, k)) = k
    BY <1>1, <1>3 DEF AllPaths
  <2>2. \A m \in 1 .. k : Append(q, n)[m] = q[m]
    BY <1>1, <2>1 DEF AllPaths
  <2>3. /\ SubSeq(Append(q, n), 1, k) = [m \in 1 .. k |-> Append(q, n)[m]]
        /\ SubSeq(q, 1, k) = [m \in 1 .. k |-> q[m]]
    BY <1>1, <2>1 DEF AllPaths
  <2> QED BY <1>3, <2>2, <2>3, Zenon
<1> QED BY <1>2, <1>3

\* The first components of a path that leads somewhere lead somewhere too, and
\* all are names that a dentry can have.
LEMMA LeadsFront ==
  ASSUME TreeInv, NEW q \in AllPaths, NEW j, Leads(q, j), NEW k \in 0 .. Len(q)
  PROVE  /\ \E i : Leads(SubSeq(q, 1, k), i)
         /\ \A l \in 1 .. Len(q) : q[l] \in Components \ TooLong
<1> DEFINE T == {r \in AllPaths : \A i : Leads(r, i) =>
                   /\ \A l \in 0 .. Len(r) : \E x : Leads(SubSeq(r, 1, l), x)
                   /\ \A l \in 1 .. Len(r) : r[l] \in Components \ TooLong}
<1>1. <<>> \in T
  <2>1. <<>> \in AllPaths /\ 0 .. Len(<<>>) = {0} /\ 1 .. Len(<<>>) = {} /\ SubSeq(<<>>, 1, 0) = <<>>
    BY DEF AllPaths
  <2> QED BY <2>1, Zenon
<1>2. ASSUME NEW r \in AllPaths, NEW n \in Components, r \in T PROVE Append(r, n) \in T
  <2>1. /\ Append(r, n) \in AllPaths /\ Len(r) \in Nat /\ Len(Append(r, n)) = Len(r) + 1
        /\ Append(r, n)[Len(r) + 1] = n
        /\ \A l \in 1 .. Len(r) : Append(r, n)[l] = r[l]
    BY AppendIs, Zenon
  <2>2. ASSUME NEW i, Leads(Append(r, n), i)
        PROVE  /\ \A l \in 0 .. Len(r) + 1 : \E x : Leads(SubSeq(Append(r, n), 1, l), x)
               /\ \A l \in 1 .. Len(r) + 1 : Append(r, n)[l] \in Components \ TooLong
    <3>1. Live(i) /\ node[i].name = n /\ Leads(r, node[i].up)
      BY <2>2, LeadsNow, Zenon DEF LeadsRule
    <3>2. /\ \A l \in 0 .. Len(r) : \E x : Leads(SubSeq(r, 1, l), x)
          /\ \A l \in 1 .. Len(r) : r[l] \in Components \ TooLong
      BY <3>1, <1>2, Zenon
    <3>3. n \in Components \ TooLong
      BY <3>1, Zenon DEF TreeInv
    <3>4. ASSUME NEW l \in 0 .. Len(r) + 1 PROVE \E x : Leads(SubSeq(Append(r, n), 1, l), x)
      <4>1. l = Len(r) + 1 \/ (l # Len(r) + 1 /\ l \in 0 .. Len(r))
        BY <2>1
      <4> QED BY <4>1, <3>2, <2>2, FrontIs, Zenon
    <3>5. ASSUME NEW l \in 1 .. Len(r) + 1 PROVE Append(r, n)[l] \in Components \ TooLong
      <4>1. l = Len(r) + 1 \/ l \in 1 .. Len(r)
        BY <2>1
      <4> QED BY <4>1, <3>2, <3>3, <2>1, Zenon
    <3> QED BY <3>4, <3>5
  <2> QED BY <2>1, <2>2, Zenon
<1> HIDE DEF T
<1>3. q \in T
  BY <1>1, <1>2, PathInduction, Zenon
<1> QED BY <1>3, Zenon DEF T

\* Of more numbers than there are values two have the same.
LEMMA Pigeonhole ==
  ASSUME NEW n \in Nat, NEW m \in Nat, NEW h \in Injection(1 .. m, 1 .. n)
  PROVE  m <= n
<1> DEFINE Squeezed(k, f) == f \in [1 .. k + 1 -> 1 .. k] /\ \A a, b \in 1 .. k + 1 : f[a] = f[b] => a = b
           T == {k \in Nat : \E f : Squeezed(k, f)}
<1>1. h \in [1 .. m -> 1 .. n] /\ \A a, b \in 1 .. m : h[a] = h[b] => a = b
  BY Zenon DEF Injection, IsInjective
<1>2. ASSUME m > n PROVE n \in T
  <2>1. 1 .. n + 1 \subseteq 1 .. m
    BY <1>2
  <2>2. Squeezed(n, [k \in 1 .. n + 1 |-> h[k]])
    BY <2>1, <1>1, Zenon
  <2> QED BY <2>2, Zenon
<1>3. ASSUME NEW k \in T PROVE k # 0 /\ k - 1 \in T
  <2>1. PICK f : Squeezed(k, f)
    BY <1>3, Zenon
  <2>2. k \in Nat /\ k + 1 \in 1 .. k + 1 /\ (\A a \in 1 .. k : a \in 1 .. k + 1 /\ a # k + 1)
    BY <1>3
  <2>3. k # 0
    BY <2>1, <2>2
  <2>4. k - 1 \in Nat /\ (k - 1) + 1 = k /\ \A a \in 1 .. k : a # k => a \in 1 .. k - 1
    BY <2>2, <2>3
  <2> DEFINE g == [a \in 1 .. k |-> IF f[a] = k THEN f[k + 1] ELSE f[a]]
  <2>5. ASSUME NEW a \in 1 .. k PROVE g[a] \in 1 .. k - 1
    BY <2>1, <2>2, <2>4, Zenon
  <2>6. ASSUME NEW a \in 1 .. k, NEW b \in 1 .. k, g[a] = g[b] PROVE a = b
    BY <2>1, <2>2, <2>6, Zenon
  <2>7. Squeezed(k - 1, g)
    <3> HIDE DEF g
    <3>1. g = [a \in 1 .. k |-> g[a]]
      BY Zenon DEF g
    <3>2. g \in [1 .. k -> 1 .. k - 1]
      BY <2>5, <3>1, Zenon
    <3> QED BY <3>2, <2>4, <2>6, Zenon
  <2> QED BY <2>3, <2>4, <2>7, Zenon
<1> HIDE DEF T
<1>4. T \subseteq Nat
  BY Zenon DEF T
<1>5. T = {}
  <2>1. ASSUME T # {} PROVE FALSE
    <3>1. PICK x \in T : \A y \in T : x <= y
      BY <2>1, <1>4, LeastNat, Zenon
    <3>2. x \in Nat /\ x # 0 /\ x <= x - 1
      BY <3>1, <1>3, <1>4, Zenon
    <3> QED BY <3>2
  <2> QED BY <2>1, Zenon
<1>6. ~(m > n)
  BY <1>2, <1>5, Zenon
<1> QED BY <1>6

\* A path is not longer than there are dentries: those of its levels differ.
LEMMA LeadsBound ==
  ASSUME TreeInv, NEW q \in AllPaths, q # <<>>, NEW j, Leads(q, j)
  PROVE  q \in Sequences
<1> DEFINE at(k) == Lookup(SubSeq(q, 1, k))
           f == [k \in 1 .. Len(q) |-> at(k)]
<1>1. Len(q) \in Nat /\ Len(q) # 0 /\ (\A k \in 1 .. Len(q) : k \in 0 .. Len(q)) /\ q = [k \in 1 .. Len(q) |-> q[k]]
  BY DEF AllPaths
<1>2. \A k \in 1 .. Len(q) : SubSeq(q, 1, k) \in AllPaths /\ Len(SubSeq(q, 1, k)) = k
  BY <1>1, LevelLeads, Zenon
<1>3. ASSUME NEW k \in 1 .. Len(q) PROVE Leads(SubSeq(q, 1, k), at(k)) /\ at(k) \in Nodes
  <2>1. PICK i : Leads(SubSeq(q, 1, k), i)
    BY <1>1, LeadsFront, Zenon
  <2>2. SubSeq(q, 1, k) # <<>>
    BY <1>2
  <2>3. at(k) = i
    BY <2>1, <1>2, LookupLeads, Zenon
  <2> HIDE DEF at
  <2> QED BY <2>1, <2>2, <2>3, <1>2, LeadsLost, Zenon DEF Live
<1>4. ASSUME NEW a \in 1 .. Len(q), NEW b \in 1 .. Len(q), at(a) = at(b) PROVE a = b
  <2> HIDE DEF at
  <2>1. SubSeq(q, 1, a) = SubSeq(q, 1, b)
    BY <1>2, <1>3, <1>4, LeadsOnly, Zenon
  <2> QED BY <2>1, <1>2, Zenon
<1> HIDE DEF at
<1>5. f \in Injection(1 .. Len(q), Nodes)
  BY <1>3, <1>4, Zenon DEF Injection, IsInjective
<1>6. MaxNodes \in Nat
  BY TmpfsAssumption, Zenon
<1>7. Len(q) \in Nodes
  <2> HIDE DEF f
  <2>1. Len(q) <= MaxNodes
    BY <1>1, <1>5, <1>6, Pigeonhole, Zenon DEF Nodes
  <2> QED BY <2>1, <1>1, <1>6 DEF Nodes
<1>8. 0 \in 0 .. Len(q)
  BY <1>1
<1>9. q \in [1 .. Len(q) -> Components \ TooLong]
  BY <1>1, <1>8, LeadsFront, Zenon
<1> QED BY <1>7, <1>9, Zenon DEF Sequences

\* The map that follows the calls shows them.
LEMMA VisibleNow == TreeInv => Shown(Visible)
<1> SUFFICES ASSUME TreeInv PROVE Shown(Visible)
  OBVIOUS
<1> DEFINE D == {q \in Sequences : Lookup(q) # Lost}
           v == [q \in D |-> [type |-> node[Lookup(q)].type, data |-> node[Lookup(q)].data]]
<1>1. Visible = v
  <2> DEFINE at == [q \in Sequences |-> Lookup(q)]
  <2>1. Visible = [q \in {q \in Sequences : at[q] # Lost} |->
                    [type |-> node[at[q]].type, data |-> node[at[q]].data]]
    BY Zenon DEF Visible
  <2>2. \A q \in Sequences : at[q] = Lookup(q)
    BY Zenon
  <2> HIDE DEF at
  <2>3. {q \in Sequences : at[q] # Lost} = D
    BY <2>2, Zenon
  <2> QED BY <2>1, <2>2, <2>3, Zenon
<1>2. ASSUME NEW q \in Sequences PROVE q \in AllPaths /\ q # <<>>
  <2>1. PICK n \in Nodes : q \in [1 .. n -> Components \ TooLong]
    BY Zenon DEF Sequences
  <2>3. n \in Nat /\ n # 0
    BY TmpfsAssumption DEF Nodes
  <2> QED BY <2>1, <2>3 DEF AllPaths
<1>3. ASSUME NEW q PROVE q \in D <=> q \in AllPaths /\ q # <<>> /\ \E j : Leads(q, j)
  <2>1. ASSUME q \in D PROVE q \in AllPaths /\ q # <<>> /\ \E j : Leads(q, j)
    BY <2>1, <1>2, LookupLeads, Zenon
  <2>2. ASSUME q \in AllPaths, q # <<>>, NEW j, Leads(q, j) PROVE q \in D
    BY <2>2, LeadsBound, LookupLeads, Zenon
  <2> QED BY <2>1, <2>2, Zenon
<1>4. ASSUME NEW q \in AllPaths, NEW j, q # <<>>, Leads(q, j)
      PROVE  v[q] = [type |-> node[j].type, data |-> node[j].data]
  <2>1. q \in D /\ Lookup(q) = j
    BY <1>3, <1>4, LookupLeads, Zenon
  <2> QED BY <2>1, Zenon
<1>5. DOMAIN v = D /\ v = [q \in DOMAIN v |-> v[q]]
  BY Zenon
<1> HIDE DEF D, v
<1>6. Shown(v)
  BY <1>3, <1>4, <1>5, Zenon DEF Shown
<1> QED BY <1>1, <1>6, Zenon

\* The same after a step.
LEMMA VisibleNext == TreeInv' => Shown(Visible)'
<1>1. (TreeInv => Shown(Visible))'
  BY VisibleNow, PTL
<1> QED BY <1>1

\* A call that changes no dentry changes no path.
LEMMA SameLeads ==
  ASSUME \A j : (Live(j)' <=> Live(j)) /\ (Live(j) => node'[j].name = node[j].name /\ node'[j].up = node[j].up),
         NEW q \in AllPaths, NEW i
  PROVE  Leads(q, i)' <=> Leads(q, i)
<1> DEFINE T == {r \in AllPaths : \A j : Leads(r, j)' <=> Leads(r, j)}
<1>1. <<>> \in AllPaths
  BY DEF AllPaths
<1>2. <<>> \in T
  BY <1>1, LeadsNow, LeadsNext, Zenon DEF LeadsRule
<1>3. ASSUME NEW r \in AllPaths, NEW n \in Components, r \in T PROVE Append(r, n) \in T
  <2>1. ASSUME NEW j PROVE Leads(Append(r, n), j)' <=> Leads(Append(r, n), j)
    <3>1. Leads(Append(r, n), j) <=> Live(j) /\ node[j].name = n /\ Leads(r, node[j].up)
      BY LeadsNow, Zenon DEF LeadsRule
    <3>2. Leads(Append(r, n), j)' <=> Live(j)' /\ node'[j].name = n /\ Leads(r, node[j].up)'
      BY LeadsNext, Zenon DEF LeadsRule
    <3>3. \A u : Leads(r, u)' <=> Leads(r, u)
      BY <1>3, Zenon
    <3> QED BY <3>1, <3>2, <3>3, Zenon
  <2>2. Append(r, n) \in AllPaths
    BY AppendIs, Zenon
  <2> QED BY <2>1, <2>2, Zenon
<1> HIDE DEF T
<1>4. q \in T
  BY <1>2, <1>3, PathInduction, Zenon
<1> QED BY <1>4, Zenon DEF T

\* The map shows the paths in every state.
LEMMA MapStep ==
  ASSUME TreeInv, TreeInv', Shown(map), [Next]_vars
  PROVE  Shown(map)'
<1>1. CASE node' = node /\ map' = map
  <2>1. \A q \in AllPaths : \A j : Leads(q, j)' <=> Leads(q, j)
    <3>1. \A j : (Live(j)' <=> Live(j)) /\ (Live(j) => node'[j].name = node[j].name /\ node'[j].up = node[j].up)
      BY <1>1, Zenon DEF Live
    <3> QED BY <3>1, SameLeads, Zenon
  <2>2. /\ map = [q \in DOMAIN map |-> map[q]]
        /\ \A q : q \in DOMAIN map <=> q \in AllPaths /\ q # <<>> /\ \E j : Leads(q, j)
        /\ \A q \in AllPaths : \A j :
             q # <<>> /\ Leads(q, j) => map[q] = [type |-> node[j].type, data |-> node[j].data]
    BY Zenon DEF Shown
  <2>3. \A q : q \in DOMAIN map' <=> q \in AllPaths /\ q # <<>> /\ \E j : Leads(q, j)'
    BY <2>1, <2>2, <1>1, Zenon
  <2>4. \A q \in AllPaths : \A j :
          q # <<>> /\ Leads(q, j)' => map'[q] = [type |-> node'[j].type, data |-> node'[j].data]
    BY <2>1, <2>2, <1>1, Zenon
  <2> QED BY <2>2, <2>3, <2>4, <1>1, Zenon DEF Shown, AllPaths, Components
<1>2. CASE map' = Visible'
  <2>1. Shown(Visible)'
    BY VisibleNext
  <2> QED BY <2>1, <1>2, Zenon DEF Shown
<1> QED BY <1>1, <1>2, Zenon DEF Next, vars

--------------------------------------------------------------------------------
(***************************************************************************)
(* The calls that only look.                                               *)
(***************************************************************************)
\* The names in the list of a dentry are the next components of the paths below.
LEMMA ListIs ==
  ASSUME TreeInv, Shown(map), NEW q \in AllPaths, NEW i, Leads(q, i)
  PROVE  {node[j].name : j \in Kids(i)} =
           {r[Len(q) + 1] : r \in {r \in DOMAIN map : Len(r) > Len(q) /\ SubSeq(r, 1, Len(q)) = q}}
<1> DEFINE B == {r \in DOMAIN map : Len(r) > Len(q) /\ SubSeq(r, 1, Len(q)) = q}
<1>1. \A r : r \in DOMAIN map <=> r \in AllPaths /\ r # <<>> /\ \E j : Leads(r, j)
  BY Zenon DEF Shown
<1>2. ASSUME NEW j \in Kids(i) PROVE \E r \in B : r[Len(q) + 1] = node[j].name
  <2> DEFINE r == Append(q, node[j].name)
  <2>1. Live(j) /\ node[j].up = i /\ node[j].name \in Components
    BY Zenon DEF Kids, Live, TreeInv
  <2>2. Leads(r, j)
    BY <2>1, LeadsNow, Zenon DEF LeadsRule
  <2>3. /\ r \in AllPaths /\ r # <<>> /\ Len(r) > Len(q) /\ r[Len(q) + 1] = node[j].name
    BY <2>1 DEF AllPaths
  <2>4. SubSeq(r, 1, Len(q)) = q
    <3>1. Len(q) \in 0 .. Len(q) + 1 /\ Len(q) # Len(q) + 1 /\ SubSeq(q, 1, Len(q)) = q
      BY DEF AllPaths
    <3> QED BY <3>1, <2>1, FrontIs, Zenon
  <2> HIDE DEF r
  <2> QED BY <2>2, <2>3, <2>4, <1>1, Zenon
<1>3. ASSUME NEW r \in B PROVE \E j \in Kids(i) : r[Len(q) + 1] = node[j].name
  <2>1. PICK x : r \in AllPaths /\ Leads(r, x)
    BY <1>1, Zenon
  <2>2. Len(r) > Len(q) /\ SubSeq(r, 1, Len(q)) = q
    BY Zenon
  <2> HIDE DEF B
  <2>3. /\ Len(q) \in Nat /\ Len(q) + 1 \in 0 .. Len(r) /\ r[Len(q) + 1] \in Components
    BY <2>1, <2>2 DEF AllPaths
  <2>4. SubSeq(r, 1, Len(q) + 1) = Append(SubSeq(r, 1, Len(q)), r[Len(q) + 1])
    BY <2>1, <2>3 DEF AllPaths
  <2>5. PICK j : Leads(SubSeq(r, 1, Len(q) + 1), j)
    BY <2>1, <2>3, LeadsFront, Zenon
  <2>9. PICK n : n = r[Len(q) + 1]
    BY Zenon
  <2>6. n \in Components /\ Leads(Append(q, n), j)
    BY <2>2, <2>3, <2>4, <2>5, <2>9, Zenon
  <2>7. Live(j) /\ node[j].name = n /\ Leads(q, node[j].up)
    BY <2>6, LeadsNow, Zenon DEF LeadsRule
  <2>8. node[j].up = i
    BY <2>7, LeadsOne, Zenon
  <2> QED BY <2>7, <2>8, <2>9, Zenon DEF Kids, Live
<1> HIDE DEF B
<1>4. {node[j].name : j \in Kids(i)} = {r[Len(q) + 1] : r \in B}
  BY <1>2, <1>3
<1> QED BY <1>4, Zenon DEF B

\* What a path that is not the root leads to.
LEMMA FoundIs ==
  ASSUME TreeInv, Shown(map), NEW p \in Paths, p.abs, ~IsRoot(p)
  PROVE  /\ p.comps \in AllPaths /\ p.comps # <<>> /\ tmpfs_lookup(p) = Lookup(p.comps)
         /\ p.comps \in DOMAIN map <=> tmpfs_lookup(p) # Lost
         /\ tmpfs_lookup(p) # Lost =>
              /\ Leads(p.comps, tmpfs_lookup(p)) /\ Live(tmpfs_lookup(p)) /\ tmpfs_lookup(p) # Root
              /\ map[p.comps].type = node[tmpfs_lookup(p)].type
              /\ map[p.comps].data = node[tmpfs_lookup(p)].data
<1> DEFINE q == p.comps
           i == tmpfs_lookup(p)
<1>1. q \in AllPaths /\ q # <<>> /\ i = Lookup(q)
  BY PathIs, Zenon DEF IsRoot, tmpfs_lookup, AllPaths
<1> HIDE DEF q, i
<1>2. q \in DOMAIN map <=> i # Lost
  BY <1>1, LookupLeads, Zenon DEF Shown
<1>3. i # Lost => Leads(q, i) /\ Live(i) /\ i # Root
  BY <1>1, LookupLeads, LeadsLost, NodesAre, Zenon DEF Live
<1>4. i # Lost => map[q] = [type |-> node[i].type, data |-> node[i].data]
  BY <1>1, <1>3, Zenon DEF Shown
<1>5. i # Lost => map[q].type = node[i].type /\ map[q].data = node[i].data
  BY <1>4
<1> QED BY <1>1, <1>2, <1>3, <1>5, Zenon DEF q, i

\* The answers are those of the map.
LEMMA Answers ==
  ASSUME TreeInv, Shown(map)
  PROVE  AnswersAgree
<1>1. SUFFICES ASSUME NEW p \in Paths, p.abs, ~IsRoot(p), NEW q, q = p.comps,
                      NEW i, i = tmpfs_lookup(p), NEW there, there = (q \in DOMAIN map),
                      NEW names, names = {r[Len(q) + 1] : r \in {r \in DOMAIN map : Len(r) > Len(q) /\ SubSeq(r, 1, Len(q)) = q}}
               PROVE  /\ stat(p) = IF there THEN <<"OK", Len(map[q].data)>> ELSE <<"NOENT", 0>>
                      /\ readdir(p) = IF ~there THEN <<"NOENT", {}>>
                                      ELSE IF map[q].type = "DIR" THEN <<"OK", names>> ELSE <<"NOTDIR", {}>>
                      /\ there => \A n \in 0 .. 2 :
                           read(p, n) = IF map[q].data = <<>> THEN <<"INVAL", <<>>>>
                                        ELSE <<"OK", SubSeq(map[q].data, 1, Min2(n, Len(map[q].data)))>>
  BY Zenon DEF AnswersAgree
<1>2. /\ q \in AllPaths /\ (there <=> i # Lost)
      /\ i # Lost => /\ Leads(q, i) /\ Live(i) /\ i # Root
                     /\ map[q].type = node[i].type /\ map[q].data = node[i].data
  BY <1>1, FoundIs, Zenon
<1>3. stat(p) = IF there THEN <<"OK", Len(map[q].data)>> ELSE <<"NOENT", 0>>
  BY <1>1, <1>2, Zenon DEF stat
<1>4. i # Lost => {node[j].name : j \in Kids(i)} = names
  BY <1>1, <1>2, ListIs, Zenon
<1>5. readdir(p) = IF ~there THEN <<"NOENT", {}>>
                   ELSE IF map[q].type = "DIR" THEN <<"OK", names>> ELSE <<"NOTDIR", {}>>
  BY <1>1, <1>2, <1>4, Zenon DEF readdir, TypeOf
<1>6. ASSUME there, NEW n \in 0 .. 2
      PROVE  read(p, n) = IF map[q].data = <<>> THEN <<"INVAL", <<>>>>
                          ELSE <<"OK", SubSeq(map[q].data, 1, Min2(n, Len(map[q].data)))>>
  <2> DEFINE d == node[i].data
             m == Min2(n, Len(d))
  <2>1. Live(i) /\ map[q].data = d
    BY <1>2, <1>6, Zenon
  <2>2. node[i].type \in {"FILE", "DIR"} /\ (node[i].type # "FILE" => d = <<>>) /\ d \in Seq(Nat)
    <3>1. node[i] \in Dentry /\ node[i].type # "none" /\ (node[i].type = "DIR" => d = <<>>)
      BY <2>1, Zenon DEF Live, TreeInv, TypeInv
    <3>2. <<>> \in Seq(Nat) /\ Contents \subseteq Seq(Nat)
      BY TmpfsAssumption
    <3>3. node[i].type \in {"none", "FILE", "DIR"} /\ node[i].data \in Contents \cup {<<>>}
      BY <3>1, Zenon DEF Dentry
    <3> QED BY <3>1, <3>2, <3>3, Zenon
  <2>3. read(p, n) = IF node[i].type # "FILE" \/ d = <<>> THEN <<"INVAL", <<>>>>
                     ELSE <<"OK", [k \in 1 .. m |-> IF k <= Len(d) THEN d[k] ELSE 0]>>
    BY <1>1, Zenon DEF read, Clipped
  <2> HIDE DEF d
  <2>4. m \in 0 .. Len(d)
    BY <2>2 DEF Min2
  <2> HIDE DEF m
  <2>5. [k \in 1 .. m |-> IF k <= Len(d) THEN d[k] ELSE 0] = SubSeq(d, 1, m)
    <3>1. \A k \in 1 .. m : k <= Len(d)
      BY <2>2, <2>4
    <3>2. SubSeq(d, 1, m) = [k \in 1 .. m |-> d[k]]
      BY <2>2, <2>4
    <3> QED BY <3>1, <3>2, Zenon
  <2> QED BY <2>1, <2>2, <2>3, <2>5, Zenon DEF m
<1> QED BY <1>3, <1>5, <1>6, Zenon

--------------------------------------------------------------------------------
(***************************************************************************)
(* The calls that make levels.                                             *)
(***************************************************************************)
\* First components, one after the other.
LEMMA FrontLast ==
  ASSUME NEW q \in AllPaths, NEW k \in 1 .. Len(q)
  PROVE  /\ SubSeq(q, 1, k) \in AllPaths /\ Len(SubSeq(q, 1, k)) = k /\ SubSeq(q, 1, k) # <<>>
         /\ SubSeq(q, 1, k - 1) \in AllPaths /\ q[k] \in Components
         /\ SubSeq(q, 1, k) = Append(SubSeq(q, 1, k - 1), q[k])
BY DEF AllPaths

\* First components of first components.
LEMMA FrontFront ==
  ASSUME NEW q \in AllPaths, NEW k \in 0 .. Len(q), NEW l \in 0 .. k
  PROVE  SubSeq(SubSeq(q, 1, k), 1, l) = SubSeq(q, 1, l)
<1>1. Len(q) \in Nat /\ SubSeq(q, 1, k) \in AllPaths /\ Len(SubSeq(q, 1, k)) = k
  BY DEF AllPaths
<1>2. \A m \in 1 .. l : SubSeq(q, 1, k)[m] = q[m]
  BY <1>1 DEF AllPaths
<1>3. SubSeq(q, 1, l) = [m \in 1 .. l |-> q[m]]
  BY <1>1 DEF AllPaths
<1>4. SubSeq(SubSeq(q, 1, k), 1, l) = [m \in 1 .. l |-> SubSeq(q, 1, k)[m]]
  <2> DEFINE r == SubSeq(q, 1, k)
  <2>1. r \in AllPaths /\ Len(r) = k
    BY <1>1
  <2> HIDE DEF r
  <2>2. SubSeq(r, 1, l) = [m \in 1 .. l |-> r[m]]
    BY <2>1, <1>1 DEF AllPaths
  <2> QED BY <2>2, Zenon DEF r
<1> QED BY <1>2, <1>3, <1>4, Zenon

\* There are new dentries with the components of q behind the k-th.
Grew(q, types, k, g, i, id) ==
  /\ \A m \in 1 .. g - k :
       /\ id[m] \in Nodes /\ id[m] # i /\ ~Live(id[m]) /\ Live(id[m])'
       /\ node'[id[m]].type = types[k + m] /\ node'[id[m]].name = q[k + m]
       /\ node'[id[m]].up = (IF m = 1 THEN i ELSE id[m - 1]) /\ node'[id[m]].data = <<>>
  /\ \A a, b \in 1 .. g - k : id[a] = id[b] => a = b
  /\ \A j : Live(j) => Live(j)' /\ node'[j] = node[j] /\ \A m \in 1 .. g - k : node[j].up # id[m]
  /\ \A j : Live(j)' => Live(j) \/ \E m \in 1 .. g - k : j = id[m]

\* The dentries that the levels get are new.
LEMMA ExtendedGrew ==
  ASSUME NEW q, NEW types, NEW k, NEW g, NEW i, NEW id, Extended(q, types, k, g, i, id)
  PROVE  Grew(q, types, k, g, i, id)
<1>1. PICK ns \in Seq(Components) : \E kinds :
        /\ Len(ns) = g - k /\ \A m \in 1 .. g - k : ns[m] = q[k + m] /\ kinds[m] = types[k + m]
        /\ Chained(i, ns, kinds, id)
  BY Zenon DEF Extended
<1>2. PICK kinds :
        /\ Len(ns) = g - k /\ \A m \in 1 .. g - k : ns[m] = q[k + m] /\ kinds[m] = types[k + m]
        /\ Chained(i, ns, kinds, id)
  BY <1>1, Zenon
<1> DEFINE N == 1 .. Len(ns)
<1>3. Len(ns) = g - k /\ \A m \in N : ns[m] = q[k + m] /\ kinds[m] = types[k + m]
  BY <1>2, Zenon
<1>31. Chained(i, ns, kinds, id)
  BY <1>2, Zenon
<1>4. \A m \in N :
        /\ id[m] \in Nodes /\ id[m] # i /\ ~Live(id[m]) /\ Live(id[m])'
        /\ node'[id[m]].type = kinds[m] /\ node'[id[m]].name = ns[m]
        /\ node'[id[m]].up = (IF m = 1 THEN i ELSE id[m - 1]) /\ node'[id[m]].data = <<>>
  BY <1>31, Zenon DEF Chained
<1>6. \A a, b \in N : id[a] = id[b] => a = b
  BY <1>31, Zenon DEF Chained
<1>7. \A j : Live(j) => Live(j)' /\ \A m \in N : node[j].up # id[m]
  BY <1>31, Zenon DEF Chained
<1>8. \A j : Live(j)' => Live(j) \/ \E m \in N : j = id[m]
  BY <1>31, Zenon DEF Chained
<1>81. \A j \in Nodes : (\A m \in N : id[m] # j) => node'[j] = node[j]
  BY <1>31, Zenon DEF Chained
<1> HIDE DEF N
<1>5. \A m \in N :
        /\ id[m] \in Nodes /\ id[m] # i /\ ~Live(id[m]) /\ Live(id[m])'
        /\ node'[id[m]].type = types[k + m] /\ node'[id[m]].name = q[k + m]
        /\ node'[id[m]].up = (IF m = 1 THEN i ELSE id[m - 1]) /\ node'[id[m]].data = <<>>
  BY <1>3, <1>4, Zenon
<1>9. \A j : Live(j) => Live(j)' /\ node'[j] = node[j] /\ \A m \in N : node[j].up # id[m]
  <2>1. \A j : Live(j) => j \in Nodes
    BY Zenon DEF Live
  <2>2. \A j : Live(j) => \A m \in N : id[m] # j
    BY <1>4, Zenon
  <2>3. \A j : Live(j) => node'[j] = node[j]
    BY <2>1, <2>2, <1>81, Zenon
  <2> QED BY <2>3, <1>7, Zenon
<1>10. N = 1 .. g - k
  BY <1>3, Zenon DEF N
<1>11. \A m \in 1 .. g - k :
         /\ id[m] \in Nodes /\ id[m] # i /\ ~Live(id[m]) /\ Live(id[m])'
         /\ node'[id[m]].type = types[k + m] /\ node'[id[m]].name = q[k + m]
         /\ node'[id[m]].up = (IF m = 1 THEN i ELSE id[m - 1]) /\ node'[id[m]].data = <<>>
  BY <1>5, <1>10, Zenon
<1>12. \A a, b \in 1 .. g - k : id[a] = id[b] => a = b
  BY <1>6, <1>10, Zenon
<1>13. /\ \A j : Live(j) => Live(j)' /\ node'[j] = node[j] /\ \A m \in 1 .. g - k : node[j].up # id[m]
       /\ \A j : Live(j)' => Live(j) \/ \E m \in 1 .. g - k : j = id[m]
  BY <1>8, <1>9, <1>10, Zenon
<1> QED BY <1>11, <1>12, <1>13, Zenon DEF Grew

\* The new paths are those of the new levels.
GrewPaths(q, k, g, id) ==
  \A r \in AllPaths : \A j :
    Leads(r, j)' <=> Leads(r, j) \/ \E m \in 1 .. g - k : j = id[m] /\ r = SubSeq(q, 1, k + m)

\* The paths after levels were made: those that were, and the new ones.
LEMMA ExtendedLeads ==
  ASSUME TreeInv, NEW q \in AllPaths, NEW types, NEW k \in 0 .. Len(q), NEW g \in k + 1 .. Len(q),
         NEW i, Leads(SubSeq(q, 1, k), i), NEW id, Grew(q, types, k, g, i, id)
  PROVE  GrewPaths(q, k, g, id)
<1> DEFINE N == 1 .. g - k
           New(s, c) == \E m \in N : c = id[m] /\ s = SubSeq(q, 1, k + m)
           T == {s \in AllPaths : \A c : Leads(s, c)' <=> Leads(s, c) \/ New(s, c)}
<1>1. /\ \A m \in N : k + m \in 1 .. Len(q) /\ (m # 1 => m - 1 \in N) /\ (k + m) - 1 = k + (m - 1)
      /\ k \in 0 .. Len(q) /\ (1 \in N => (k + 1) - 1 = k)
  BY DEF AllPaths
<1>2. \A m \in N :
        /\ id[m] \in Nodes /\ id[m] # i /\ ~Live(id[m]) /\ Live(id[m])'
        /\ node'[id[m]].name = q[k + m]
        /\ node'[id[m]].up = (IF m = 1 THEN i ELSE id[m - 1])
  BY Zenon DEF Grew
<1>21. \A a, b \in N : id[a] = id[b] => a = b
  BY Zenon DEF Grew
<1>22. \A c : Live(c) => Live(c)' /\ node'[c] = node[c] /\ \A m \in N : node[c].up # id[m]
  BY Zenon DEF Grew
<1>23. \A c : Live(c)' => Live(c) \/ \E m \in N : c = id[m]
  BY Zenon DEF Grew
<1>3. \A m \in N : /\ SubSeq(q, 1, k + m) \in AllPaths /\ SubSeq(q, 1, k + m) # <<>>
                   /\ SubSeq(q, 1, (k + m) - 1) \in AllPaths /\ q[k + m] \in Components
                   /\ SubSeq(q, 1, k + m) = Append(SubSeq(q, 1, (k + m) - 1), q[k + m])
  BY <1>1, FrontLast, Zenon
<1>4. SubSeq(q, 1, k) \in AllPaths
  BY <1>1, LevelLeads, Zenon
<1> HIDE DEF N
<1>5. <<>> \in T
  <2>1. <<>> \in AllPaths
    BY DEF AllPaths
  <2>2. \A c : ~New(<<>>, c)
    BY <1>3, Zenon
  <2> QED BY <2>1, <2>2, LeadsNow, LeadsNext, Zenon DEF LeadsRule
<1>6. ASSUME NEW s \in AllPaths, NEW n \in Components, s \in T PROVE Append(s, n) \in T
  <2>1. \A c : Leads(s, c)' <=> Leads(s, c) \/ New(s, c)
    BY <1>6, Zenon
  <2>2. \A c : Leads(Append(s, n), c) <=> Live(c) /\ node[c].name = n /\ Leads(s, node[c].up)
    BY LeadsNow, Zenon DEF LeadsRule
  <2>3. \A c : Leads(Append(s, n), c)' <=> Live(c)' /\ node'[c].name = n /\ Leads(s, node[c].up)'
    BY LeadsNext, Zenon DEF LeadsRule
  <2>4. ASSUME NEW c, Live(c)
        PROVE  Leads(Append(s, n), c)' <=> Leads(Append(s, n), c) \/ New(Append(s, n), c)
    <3>1. Live(c)' /\ node'[c] = node[c] /\ ~New(s, node[c].up)
      BY <2>4, <1>22, Zenon
    <3>2. ~New(Append(s, n), c)
      BY <2>4, <1>2, Zenon
    <3>3. Leads(s, node[c].up)' <=> Leads(s, node[c].up)
      <4> HIDE DEF New
      <4> QED BY <2>1, <3>1, Zenon
    <3> HIDE DEF New
    <3> QED BY <2>2, <2>3, <2>4, <3>1, <3>2, <3>3, Zenon
  <2>5. ASSUME NEW m \in N
        PROVE  Leads(Append(s, n), id[m])' <=> Append(s, n) = SubSeq(q, 1, k + m)
    <3> DEFINE u == SubSeq(q, 1, (k + m) - 1)
    <3>1. Leads(Append(s, n), id[m])' <=> q[k + m] = n /\ Leads(s, node[id[m]].up)'
      BY <2>3, <1>2, Zenon
    <3>2. Append(s, n) = SubSeq(q, 1, k + m) <=> s = u /\ n = q[k + m]
      <4>1. u \in AllPaths /\ q[k + m] \in Components /\ SubSeq(q, 1, k + m) = Append(u, q[k + m])
        BY <1>3, Zenon
      <4> HIDE DEF u
      <4>2. ASSUME Append(s, n) = Append(u, q[k + m]) PROVE s = u /\ n = q[k + m]
        <5>1. Parent(Append(s, n)) = s /\ LastName(Append(s, n)) = n
          BY PartsIs, Zenon
        <5>2. Parent(Append(u, q[k + m])) = u /\ LastName(Append(u, q[k + m])) = q[k + m]
          BY <4>1, PartsIs, Zenon
        <5> QED BY <4>2, <5>1, <5>2
      <4> QED BY <4>1, <4>2, Zenon
    <3>3. CASE m = 1
      <4>1. node'[id[m]].up = i /\ u = SubSeq(q, 1, k)
        BY <3>3, <1>1, <1>2, Zenon
      <4>2. ~New(s, i)
        BY <1>2, Zenon
      <4>3. Leads(s, i) <=> s = u
        BY <4>1, <1>4, LeadsOnly, Zenon
      <4>4. Leads(s, i)' <=> s = u
        BY <4>2, <4>3, <2>1, Zenon
      <4> QED BY <3>1, <3>2, <4>1, <4>4, Zenon
    <3>4. CASE m # 1
      <4>1. node'[id[m]].up = id[m - 1] /\ m - 1 \in N /\ u = SubSeq(q, 1, k + (m - 1))
        BY <3>4, <1>1, <1>2, Zenon
      <4>2. New(s, id[m - 1]) <=> s = u
        BY <4>1, <1>21, Zenon
      <4>3. ~Leads(s, id[m - 1])
        <5>1. ~Live(id[m - 1]) /\ id[m - 1] # Root
          BY <4>1, <1>2, NodesAre, Zenon
        <5> QED BY <5>1, LeadsLive, Zenon
      <4>4. Leads(s, id[m - 1])' <=> s = u
        BY <4>2, <4>3, <2>1, Zenon
      <4> QED BY <3>1, <3>2, <4>1, <4>4, Zenon
    <3> QED BY <3>3, <3>4, Zenon
  <2>6. ASSUME NEW c
        PROVE  Leads(Append(s, n), c)' <=> Leads(Append(s, n), c) \/ New(Append(s, n), c)
    <3>1. CASE Live(c)
      BY <3>1, <2>4, Zenon
    <3>2. CASE ~Live(c) /\ Live(c)'
      <4>1. PICK m \in N : c = id[m]
        BY <3>2, <1>23, Zenon
      <4>2. New(Append(s, n), c) <=> Append(s, n) = SubSeq(q, 1, k + m)
        BY <4>1, <1>21, Zenon
      <4> QED BY <3>2, <4>1, <4>2, <2>2, <2>5, Zenon
    <3>3. CASE ~Live(c) /\ ~Live(c)'
      <4>1. ~New(Append(s, n), c)
        BY <3>3, <1>2, Zenon
      <4> QED BY <3>3, <4>1, <2>2, <2>3, Zenon
    <3> QED BY <3>1, <3>2, <3>3, Zenon
  <2>7. Append(s, n) \in AllPaths
    BY AppendIs, Zenon
  <2> QED BY <2>6, <2>7, Zenon
<1> HIDE DEF T, New
<1>7. \A r \in AllPaths : r \in T
  BY <1>5, <1>6, PathInduction, Zenon
<1> QED BY <1>7, Zenon DEF T, New, N, GrewPaths

\* Nothing was there under the names of the new levels.
LEMMA LevelsWereFree ==
  ASSUME TreeInv, NEW q \in AllPaths, NEW k \in 0 .. Len(q), NEW i, Leads(SubSeq(q, 1, k), i),
         \A j : ~(Live(j) /\ node[j].up = i /\ node[j].name = q[k + 1]),
         NEW l \in k + 1 .. Len(q), NEW c
  PROVE  ~Leads(SubSeq(q, 1, l), c)
<1>1. SUFFICES ASSUME Leads(SubSeq(q, 1, l), c) PROVE FALSE
  OBVIOUS
<1>2. /\ Len(q) \in Nat /\ k \in Nat /\ l \in 0 .. Len(q) /\ k + 1 \in 0 .. l /\ k + 1 \in 1 .. Len(q)
      /\ (k + 1) - 1 = k
  BY DEF AllPaths
<1>3. SubSeq(q, 1, l) \in AllPaths /\ Len(SubSeq(q, 1, l)) = l /\ SubSeq(q, 1, k) \in AllPaths
  BY <1>2, LevelLeads, Zenon
<1>4. PICK x : Leads(SubSeq(SubSeq(q, 1, l), 1, k + 1), x)
  BY <1>1, <1>2, <1>3, LeadsFront, Zenon
<1>5. /\ SubSeq(SubSeq(q, 1, l), 1, k + 1) = SubSeq(q, 1, k + 1)
      /\ SubSeq(q, 1, k + 1) = Append(SubSeq(q, 1, k), q[k + 1]) /\ q[k + 1] \in Components
  BY <1>2, FrontFront, FrontLast, Zenon
<1>6. Leads(Append(SubSeq(q, 1, k), q[k + 1]), x)
  BY <1>4, <1>5, Zenon
<1>7. Live(x) /\ node[x].name = q[k + 1] /\ Leads(SubSeq(q, 1, k), node[x].up)
  <2> DEFINE f == SubSeq(q, 1, k)
             n == q[k + 1]
  <2>1. f \in AllPaths /\ n \in Components /\ Leads(Append(f, n), x)
    BY <1>3, <1>5, <1>6, Zenon
  <2> HIDE DEF f, n
  <2>2. Live(x) /\ node[x].name = n /\ Leads(f, node[x].up)
    BY <2>1, LeadsLast, Zenon
  <2> QED BY <2>2, Zenon DEF f, n
<1>8. node[x].up = i
  BY <1>3, <1>7, LeadsOne, Zenon
<1> QED BY <1>7, <1>8, Zenon

\* The levels behind the k-th are directories, but the g-th is a t.
Typed(types, k, g, t) == \A m \in 1 .. g - k : types[k + m] = IF k + m = g THEN t ELSE "DIR"

\* The list of i has no such name.
Vacant(i, n) == \A j : ~(Live(j) /\ node[j].up = i /\ node[j].name = n)

\* The levels of q behind the k-th are new up to the g-th.
NewLevels(q, types, k, g, i, id, t) ==
  /\ q \in AllPaths /\ k \in 0 .. Len(q) /\ g \in k + 1 .. Len(q)
  /\ Leads(SubSeq(q, 1, k), i) /\ Grew(q, types, k, g, i, id) /\ Typed(types, k, g, t)
  /\ Vacant(i, q[k + 1])

\* The map after levels were made.
Gains(p, t) == map' = Abstract!With(p, t)

\* The levels, and no others, are new in it.
LEMMA ExtendedMap ==
  ASSUME TreeInv, Shown(map), Shown(map)', NEW q, NEW types, NEW k, NEW g, NEW i, NEW id, NEW t,
         NewLevels(q, types, k, g, i, id, t)
  PROVE  Gains(SubSeq(q, 1, g), t)
<1>. /\ q \in AllPaths /\ k \in 0 .. Len(q) /\ g \in k + 1 .. Len(q)
     /\ Leads(SubSeq(q, 1, k), i) /\ Grew(q, types, k, g, i, id) /\ Typed(types, k, g, t)
     /\ \A j : ~(Live(j) /\ node[j].up = i /\ node[j].name = q[k + 1])
  BY Zenon DEF NewLevels, Vacant
<1> DEFINE N == 1 .. g - k
           P == SubSeq(q, 1, g)
           D == DOMAIN map \cup {SubSeq(P, 1, l) : l \in 1 .. Len(P)}
<1>1. /\ Len(q) \in Nat /\ k \in Nat /\ g \in Nat /\ g \in 0 .. Len(q)
      /\ \A m \in N : k + m \in 1 .. g /\ k + m \in k + 1 .. Len(q) /\ k + m \in 1 .. Len(q)
      /\ \A l \in 1 .. g : l \in 0 .. g /\ l \in 1 .. Len(q)
                           /\ (l \in 0 .. k \/ \E m \in N : l = k + m)
  <2>1. Len(q) \in Nat /\ k \in Nat /\ g \in Nat /\ g \in 0 .. Len(q)
    BY DEF AllPaths
  <2>2. ASSUME NEW l \in 1 .. g, l \notin 0 .. k PROVE l - k \in N /\ l = k + (l - k)
    BY <2>1, <2>2
  <2>3. \A m \in N : k + m \in 1 .. g /\ k + m \in k + 1 .. Len(q) /\ k + m \in 1 .. Len(q)
    BY <2>1
  <2>4. \A l \in 1 .. g : l \in 0 .. g /\ l \in 1 .. Len(q)
    BY <2>1
  <2> HIDE DEF N
  <2> QED BY <2>1, <2>2, <2>3, <2>4, Zenon
<1>2. P \in AllPaths /\ Len(P) = g
  BY <1>1, LevelLeads, Zenon
<1>3. \A l \in 1 .. g : /\ SubSeq(P, 1, l) = SubSeq(q, 1, l) /\ SubSeq(q, 1, l) \in AllPaths
                        /\ SubSeq(q, 1, l) # <<>> /\ Len(SubSeq(q, 1, l)) = l
  BY <1>1, FrontFront, FrontLast, Zenon
<1>4. \A r \in AllPaths : \A j :
        Leads(r, j)' <=> Leads(r, j) \/ \E m \in N : j = id[m] /\ r = SubSeq(q, 1, k + m)
  <2>1. GrewPaths(q, k, g, id)
    BY ExtendedLeads, Zenon
  <2> QED BY <2>1, Zenon DEF GrewPaths
<1>5. /\ \A r : r \in DOMAIN map <=> r \in AllPaths /\ r # <<>> /\ \E j : Leads(r, j)
      /\ \A r \in AllPaths : \A j :
           r # <<>> /\ Leads(r, j) => map[r] = [type |-> node[j].type, data |-> node[j].data]
  BY Zenon DEF Shown
<1>6. /\ map' = [r \in DOMAIN map' |-> map'[r]]
      /\ \A r : r \in DOMAIN map' <=> r \in AllPaths /\ r # <<>> /\ \E j : Leads(r, j)'
      /\ \A r \in AllPaths : \A j :
           r # <<>> /\ Leads(r, j)' => map'[r] = [type |-> node'[j].type, data |-> node'[j].data]
  BY Zenon DEF Shown, AllPaths, Components
<1>7. \A m \in N : SubSeq(q, 1, k + m) \notin DOMAIN map
  BY <1>1, <1>5, LevelsWereFree, Zenon
<1>8. \A l \in 1 .. g : l \in 0 .. k => SubSeq(q, 1, l) \in DOMAIN map
  <2>1. ASSUME NEW l \in 1 .. g, l \in 0 .. k PROVE \E j : Leads(SubSeq(q, 1, l), j)
    <3>1. SubSeq(q, 1, k) \in AllPaths /\ Len(SubSeq(q, 1, k)) = k
      BY LevelLeads, Zenon
    <3>2. SubSeq(SubSeq(q, 1, k), 1, l) = SubSeq(q, 1, l)
      BY <2>1, FrontFront, Zenon
    <3> QED BY <3>1, <3>2, <2>1, LeadsFront, Zenon
  <2> QED BY <2>1, <1>3, <1>5, Zenon
<1>81. ASSUME NEW r \in D PROVE r \in DOMAIN map \/ \E m \in N : r = SubSeq(q, 1, k + m)
  <2>1. CASE r \notin DOMAIN map
    <3>1. PICK l \in 1 .. g : r = SubSeq(q, 1, l)
      BY <2>1, <1>2, <1>3, Zenon
    <3>2. l \in 0 .. k \/ \E m \in N : l = k + m
      BY <1>1, Zenon
    <3> QED BY <3>1, <3>2, <2>1, <1>8, Zenon
  <2> QED BY <2>1
<1>82. ASSUME NEW m \in N PROVE SubSeq(q, 1, k + m) \in D
  <2>1. k + m \in 1 .. g
    BY <1>1, Zenon
  <2> QED BY <2>1, <1>2, <1>3, Zenon
<1>83. DOMAIN map \subseteq D
  BY Zenon
<1> HIDE DEF N, D, P
<1>9. ASSUME NEW r PROVE r \in DOMAIN map' <=> r \in D
  <2>1. ASSUME r \in DOMAIN map' PROVE r \in D
    <3>1. PICK j : r \in AllPaths /\ r # <<>> /\ Leads(r, j)'
      BY <2>1, <1>6, Zenon
    <3>2. Leads(r, j) \/ \E m \in N : r = SubSeq(q, 1, k + m)
      BY <3>1, <1>4, Zenon
    <3> QED BY <3>1, <3>2, <1>5, <1>82, <1>83, Zenon
  <2>2. ASSUME r \in DOMAIN map PROVE r \in DOMAIN map'
    BY <2>2, <1>4, <1>5, <1>6, Zenon
  <2>3. ASSUME NEW m \in N, r = SubSeq(q, 1, k + m) PROVE r \in DOMAIN map'
    <3>1. r \in AllPaths /\ r # <<>>
      BY <2>3, <1>1, <1>3, Zenon
    <3>2. Leads(r, id[m])'
      BY <3>1, <2>3, <1>4, Zenon
    <3> QED BY <3>1, <3>2, <1>6, Zenon
  <2> QED BY <2>1, <2>2, <2>3, <1>81, Zenon
<1>10. ASSUME NEW r \in DOMAIN map PROVE map'[r] = map[r]
  <2>1. PICK j : r \in AllPaths /\ r # <<>> /\ Leads(r, j)
    BY <1>5, Zenon
  <2>2. Leads(r, j)'
    BY <2>1, <1>4, Zenon
  <2>3. node'[j] = node[j]
    <3>1. Live(j)
      BY <2>1, LeadsLost, Zenon
    <3> QED BY <3>1, Zenon DEF Grew
  <2>4. map[r] = [type |-> node[j].type, data |-> node[j].data]
    BY <2>1, <1>5, Zenon
  <2>5. map'[r] = [type |-> node'[j].type, data |-> node'[j].data]
    BY <2>1, <2>2, <1>6, Zenon
  <2> QED BY <2>3, <2>4, <2>5, Zenon
<1>11. ASSUME NEW m \in N, NEW r, r = SubSeq(q, 1, k + m)
       PROVE  map'[r] = Abstract!New(IF r = P THEN t ELSE "DIR")
  <2>1. r \in AllPaths /\ r # <<>> /\ Leads(r, id[m])'
    BY <1>11, <1>1, <1>3, <1>4, Zenon
  <2>2. node'[id[m]].type = types[k + m] /\ node'[id[m]].data = <<>>
    BY Zenon DEF Grew, N
  <2>3. r = P <=> k + m = g
    <3>1. k + m \in 1 .. g
      BY <1>1, Zenon
    <3>2. Len(SubSeq(q, 1, k + m)) = k + m
      BY <3>1, <1>3, Zenon
    <3> QED BY <3>2, <1>11, <1>2, Zenon DEF P
  <2>4. map'[r] = [type |-> node'[id[m]].type, data |-> node'[id[m]].data]
    BY <2>1, <1>6, Zenon
  <2>5. types[k + m] = IF k + m = g THEN t ELSE "DIR"
    BY Zenon DEF N, Typed
  <2> QED BY <2>2, <2>3, <2>4, <2>5, Zenon DEF Abstract!New
<1>12. ASSUME NEW r \in D
       PROVE  map'[r] = IF r \in DOMAIN map THEN map[r] ELSE Abstract!New(IF r = P THEN t ELSE "DIR")
  <2>1. r \in DOMAIN map \/ \E m \in N : r = SubSeq(q, 1, k + m)
    BY <1>81, Zenon
  <2> QED BY <2>1, <1>7, <1>10, <1>11, Zenon
<1>13. map' = [r \in D |-> IF r \in DOMAIN map THEN map[r] ELSE Abstract!New(IF r = P THEN t ELSE "DIR")]
  <2>1. DOMAIN map' = D
    BY <1>9, Zenon
  <2> QED BY <2>1, <1>6, <1>12, ZenonT(40)
<1> QED BY <1>13, Zenon DEF Abstract!With, Gains, D, P

================================================================================
