----------------------------- MODULE TmpfsRefinement ----------------------------
(***************************************************************************)
(* The dentries of src/fs/tmpfs.c are a map from paths to files and        *)
(* directories: the calls have the effects that PathMap promises, and what *)
(* stat, readdir and read answer is what the map holds, for any number of  *)
(* dentries, any paths and contents, and memory that runs out at any time. *)
(***************************************************************************)
EXTENDS TmpfsProofs

--------------------------------------------------------------------------------
(***************************************************************************)
(* What lies below a path.                                                 *)
(***************************************************************************)
\* A path lies below its own first components, and below itself.
LEMMA BelowAppend ==
  ASSUME NEW p \in AllPaths, NEW s \in AllPaths, NEW n \in Components
  PROVE  Abstract!Below(p, Append(s, n)) <=> p = Append(s, n) \/ Abstract!Below(p, s)
<1>1. Len(p) \in Nat /\ Len(s) \in Nat /\ Len(Append(s, n)) = Len(s) + 1
  BY DEF AllPaths
<1>2. CASE Len(p) = Len(s) + 1
  <2>1. Len(p) \in 0 .. Len(s) + 1 /\ ~(Len(p) <= Len(s)) /\ Len(p) <= Len(s) + 1
    BY <1>1, <1>2
  <2> QED BY <2>1, <1>1, <1>2, FrontIs, Zenon DEF Abstract!Below
<1>3. CASE Len(p) # Len(s) + 1
  <2>1. Len(p) <= Len(s) + 1 <=> Len(p) <= Len(s)
    BY <1>1, <1>3
  <2>2. Len(p) <= Len(s) => Len(p) \in 0 .. Len(s) + 1
    BY <1>1
  <2>3. p # Append(s, n)
    BY <1>1, <1>3, Zenon
  <2> QED BY <2>1, <2>2, <2>3, <1>1, <1>3, FrontIs, Zenon DEF Abstract!Below
<1> QED BY <1>2, <1>3, Zenon

\* All the components of a path.
LEMMA WholeIs ==
  ASSUME NEW p \in AllPaths
  PROVE  Len(p) \in Nat /\ SubSeq(p, 1, Len(p)) = p
BY DEF AllPaths

\* The root is below no other path.
LEMMA BelowRoot ==
  ASSUME NEW p \in AllPaths
  PROVE  Abstract!Below(p, p) /\ (p # <<>> => ~Abstract!Below(p, <<>>))
BY DEF AllPaths, Abstract!Below

--------------------------------------------------------------------------------
(***************************************************************************)
(* The calls that remove.                                                  *)
(***************************************************************************)
\* The paths are those that were, except p and those below it.
Lacks(p) ==
  \A r \in AllPaths : \A j : Leads(r, j)' <=> Leads(r, j) /\ ~Abstract!Below(p, r)

\* What is below a dentry that is freed cannot be reached any more.
LEMMA RemovedLeads ==
  ASSUME TreeInv, NEW p \in AllPaths, p # <<>>, NEW x, Leads(p, x), Removed(x)
  PROVE  Lacks(p)
<1> DEFINE T == {r \in AllPaths : \A j : Leads(r, j)' <=> Leads(r, j) /\ ~Abstract!Below(p, r)}
<1>1. <<>> \in T
  <2>1. <<>> \in AllPaths
    BY DEF AllPaths
  <2> QED BY <2>1, BelowRoot, LeadsNow, LeadsNext, Zenon DEF LeadsRule
<1>2. ASSUME NEW s \in AllPaths, NEW n \in Components, s \in T PROVE Append(s, n) \in T
  <2> DEFINE r == Append(s, n)
  <2>1. \A j : Leads(s, j)' <=> Leads(s, j) /\ ~Abstract!Below(p, s)
    BY <1>2, Zenon
  <2>2. \A j : Leads(r, j) <=> Live(j) /\ node[j].name = n /\ Leads(s, node[j].up)
    BY LeadsNow, Zenon DEF LeadsRule
  <2>3. \A j : Leads(r, j)' <=> Live(j)' /\ node'[j].name = n /\ Leads(s, node[j].up)'
    BY LeadsNext, Zenon DEF LeadsRule
  <2>4. r \in AllPaths /\ (Abstract!Below(p, r) <=> p = r \/ Abstract!Below(p, s))
    BY AppendIs, BelowAppend, Zenon
  <2> HIDE DEF r
  <2>5. ASSUME NEW j, Live(j)' PROVE Leads(r, j)' <=> Leads(r, j) /\ ~Abstract!Below(p, r)
    <3>1. /\ Live(j) /\ j # x /\ node'[j].name = node[j].name
          /\ node'[j].up = IF node[j].up = x THEN Lost ELSE node[j].up
      BY <2>5, Zenon DEF Removed
    <3>2. CASE node[j].up = x
      <4>1. ~Leads(s, Lost)'
        BY <2>1, LeadsLost, Zenon
      <4>2. Leads(s, x) => Abstract!Below(p, s)
        BY LeadsOnly, BelowRoot, Zenon
      <4> QED BY <4>1, <4>2, <3>1, <3>2, <2>2, <2>3, <2>4, Zenon
    <3>3. CASE node[j].up # x
      <4>1. p = r => ~Leads(r, j)
        BY <3>1, LeadsOne, Zenon
      <4> QED BY <4>1, <3>1, <3>3, <2>1, <2>2, <2>3, <2>4, <2>5, Zenon
    <3> QED BY <3>2, <3>3, Zenon
  <2>6. ASSUME NEW j, ~Live(j)' PROVE Leads(r, j)' <=> Leads(r, j) /\ ~Abstract!Below(p, r)
    <3>1. Live(j) => j = x
      BY <2>6, Zenon DEF Removed
    <3>2. Leads(r, j) => r = p
      BY <3>1, <2>2, <2>4, LeadsOnly, Zenon
    <3> QED BY <3>2, <2>3, <2>4, <2>6, Zenon
  <2> QED BY <2>4, <2>5, <2>6, Zenon DEF r
<1> HIDE DEF T
<1>3. \A r \in AllPaths : r \in T
  BY <1>1, <1>2, PathInduction, Zenon
<1> QED BY <1>3, Zenon DEF T, Lacks

\* The map without what was removed.
LEMMA RemovedMap ==
  ASSUME TreeInv, Shown(map), Shown(map)', NEW p \in AllPaths, p # <<>>, NEW x, Leads(p, x), Removed(x)
  PROVE  map' = Abstract!Without(Abstract!Under(p))
<1> DEFINE D == DOMAIN map \ Abstract!Under(p)
<1>1. \A r \in AllPaths : \A j : Leads(r, j)' <=> Leads(r, j) /\ ~Abstract!Below(p, r)
  BY RemovedLeads, Zenon DEF Lacks
<1>2. /\ \A r : r \in DOMAIN map <=> r \in AllPaths /\ r # <<>> /\ \E j : Leads(r, j)
      /\ \A r \in AllPaths : \A j :
           r # <<>> /\ Leads(r, j) => map[r] = [type |-> node[j].type, data |-> node[j].data]
  BY Zenon DEF Shown
<1>3. /\ map' = [r \in DOMAIN map' |-> map'[r]]
      /\ \A r : r \in DOMAIN map' <=> r \in AllPaths /\ r # <<>> /\ \E j : Leads(r, j)'
      /\ \A r \in AllPaths : \A j :
           r # <<>> /\ Leads(r, j)' => map'[r] = [type |-> node'[j].type, data |-> node'[j].data]
  BY Zenon DEF Shown, AllPaths, Components
<1>4. \A r : r \in D <=> r \in DOMAIN map /\ ~Abstract!Below(p, r)
  BY Zenon DEF Abstract!Under
<1> HIDE DEF D
<1>5. \A r : r \in DOMAIN map' <=> r \in D
  BY <1>1, <1>2, <1>3, <1>4, Zenon
<1>6. ASSUME NEW r \in D PROVE map'[r] = map[r]
  <2>1. PICK j : r \in AllPaths /\ r # <<>> /\ Leads(r, j) /\ Leads(r, j)'
    BY <1>1, <1>2, <1>4, Zenon
  <2>2. Live(j)'
    BY <2>1, LostNext, Zenon
  <2>3. node'[j].type = node[j].type /\ node'[j].data = node[j].data
    BY <2>2, Zenon DEF Removed
  <2>4. map[r] = [type |-> node[j].type, data |-> node[j].data]
    BY <2>1, <1>2, Zenon
  <2>5. map'[r] = [type |-> node'[j].type, data |-> node'[j].data]
    BY <2>1, <1>3, Zenon
  <2> QED BY <2>3, <2>4, <2>5, Zenon
<1>7. map' = [r \in D |-> map[r]]
  <2>1. DOMAIN map' = D
    BY <1>5, Zenon
  <2> QED BY <2>1, <1>3, <1>6, Zenon
<1> QED BY <1>7, Zenon DEF Abstract!Without, D

\* Nothing is below a directory with an empty list.
LEMMA EmptyIs ==
  ASSUME TreeInv, Shown(map), NEW p \in AllPaths, p # <<>>, NEW x, Leads(p, x), Kids(x) = {}
  PROVE  Abstract!Under(p) = {p}
<1>1. \A r : r \in DOMAIN map <=> r \in AllPaths /\ r # <<>> /\ \E j : Leads(r, j)
  BY Zenon DEF Shown
<1>2. p \in Abstract!Under(p)
  BY <1>1, BelowRoot, Zenon DEF Abstract!Under
<1>3. ASSUME NEW r \in Abstract!Under(p), r # p PROVE FALSE
  <2>1. r \in DOMAIN map /\ r \in AllPaths /\ Len(p) <= Len(r) /\ SubSeq(r, 1, Len(p)) = p
    BY <1>1, Zenon DEF Abstract!Under, Abstract!Below
  <2>2. Len(r) > Len(p)
    <3>1. Len(r) \in Nat /\ Len(p) \in Nat /\ SubSeq(r, 1, Len(r)) = r
      BY <2>1, WholeIs, Zenon
    <3>2. Len(p) # Len(r)
      BY <3>1, <2>1, <1>3, Zenon
    <3>3. Len(p) <= Len(r)
      BY <2>1, Zenon
    <3> QED BY <3>1, <3>2, <3>3
  <2>3. r[Len(p) + 1] \in {node[j].name : j \in Kids(x)}
    <3>1. r[Len(p) + 1] \in {s[Len(p) + 1] : s \in {s \in DOMAIN map : Len(s) > Len(p) /\ SubSeq(s, 1, Len(p)) = p}}
      BY <2>1, <2>2, Zenon
    <3> QED BY <3>1, ListIs, Zenon
  <2> QED BY <2>3, Zenon
<1> QED BY <1>2, <1>3, Zenon

--------------------------------------------------------------------------------
(***************************************************************************)
(* rename.                                                                 *)
(***************************************************************************)
\* The components of one path behind another.
LEMMA CatAt ==
  ASSUME NEW p \in AllPaths, NEW t \in AllPaths
  PROVE  /\ p \o t \in AllPaths /\ p \o <<>> = p
         /\ Len(p \o t) = Len(p) + Len(t) /\ Len(p) \in Nat /\ Len(t) \in Nat
         /\ \A k \in 1 .. Len(p) : (p \o t)[k] = p[k]
         /\ \A k \in 1 .. Len(t) : (p \o t)[Len(p) + k] = t[k]
         /\ t = [k \in 1 .. Len(t) |-> t[k]] /\ p = [k \in 1 .. Len(p) |-> p[k]]
         /\ p \o t = [k \in 1 .. Len(p \o t) |-> (p \o t)[k]]
<1>1. /\ p \o t \in AllPaths /\ p \o <<>> = p
      /\ Len(p \o t) = Len(p) + Len(t) /\ Len(p) \in Nat /\ Len(t) \in Nat
      /\ \A k \in 1 .. Len(p) : (p \o t)[k] = p[k]
      /\ \A k \in 1 .. Len(t) : (p \o t)[Len(p) + k] = t[k]
  BY DEF AllPaths
<1>2. \A w \in AllPaths : w = [k \in 1 .. Len(w) |-> w[k]]
  BY DEF AllPaths
<1> QED BY <1>1, <1>2, Zenon

\* One path behind another.
LEMMA CatIs ==
  ASSUME NEW p \in AllPaths, NEW t \in AllPaths
  PROVE  /\ p \o t \in AllPaths /\ p \o <<>> = p
         /\ p \o t = p => t = <<>>
         /\ p # <<>> => p \o t # <<>>
         /\ Abstract!Below(p, p \o t)
         /\ SubSeq(p \o t, Len(p) + 1, Len(p \o t)) = t
<1>1. /\ p \o t \in AllPaths /\ p \o <<>> = p
      /\ Len(p \o t) = Len(p) + Len(t) /\ Len(p) \in Nat /\ Len(t) \in Nat
      /\ \A k \in 1 .. Len(p) : (p \o t)[k] = p[k]
      /\ \A k \in 1 .. Len(t) : (p \o t)[Len(p) + k] = t[k]
      /\ t = [k \in 1 .. Len(t) |-> t[k]] /\ p = [k \in 1 .. Len(p) |-> p[k]]
  BY CatAt, Zenon
<1>2. p \o t = p => t = <<>>
  BY <1>1 DEF AllPaths
<1>3. p # <<>> => p \o t # <<>>
  BY <1>1 DEF AllPaths
<1> DEFINE r == p \o t
<1> HIDE DEF r
<1>4. r \in AllPaths /\ Len(r) = Len(p) + Len(t)
  BY <1>1, Zenon DEF r
<1>5. SubSeq(r, 1, Len(p)) = [k \in 1 .. Len(p) |-> r[k]]
  BY <1>1, <1>4 DEF AllPaths
<1>6. SubSeq(r, Len(p) + 1, Len(r)) = [k \in 1 .. Len(t) |-> r[Len(p) + k]]
  BY <1>1, <1>4 DEF AllPaths
<1>7. Len(p) <= Len(r)
  BY <1>1, <1>4
<1>8. SubSeq(r, 1, Len(p)) = p
  BY <1>1, <1>5, Zenon DEF r
<1>9. SubSeq(r, Len(p) + 1, Len(r)) = t
  BY <1>1, <1>6, Zenon DEF r
<1> QED BY <1>1, <1>2, <1>3, <1>7, <1>8, <1>9, Zenon DEF r, Abstract!Below

\* A path with one more component behind another.
LEMMA CatAppend ==
  ASSUME NEW p \in AllPaths, NEW t \in AllPaths, NEW c \in Components
  PROVE  p \o Append(t, c) = Append(p \o t, c)
BY DEF AllPaths

\* What is below a path has the rest behind it.
LEMMA BelowCat ==
  ASSUME NEW p \in AllPaths, NEW r \in AllPaths, Abstract!Below(p, r)
  PROVE  /\ SubSeq(r, Len(p) + 1, Len(r)) \in AllPaths
         /\ r = p \o SubSeq(r, Len(p) + 1, Len(r))
<1> DEFINE t == SubSeq(r, Len(p) + 1, Len(r))
<1>1. Len(p) <= Len(r) /\ SubSeq(r, 1, Len(p)) = p
  BY Zenon DEF Abstract!Below
<1>2. Len(p) \in Nat /\ Len(r) \in Nat
  BY WholeIs, Zenon
<1>3. t \in AllPaths
  BY <1>1, <1>2 DEF AllPaths
<1>4. /\ Len(t) = Len(r) - Len(p) /\ \A k \in 1 .. Len(r) - Len(p) : t[k] = r[Len(p) + k]
      /\ \A k \in 1 .. Len(p) : p[k] = r[k]
  BY <1>1, <1>2 DEF AllPaths
<1> HIDE DEF t
<1> DEFINE w == p \o t
<1>5. /\ w = [k \in 1 .. Len(w) |-> w[k]] /\ r = [k \in 1 .. Len(r) |-> r[k]]
      /\ Len(w) = Len(p) + Len(t)
      /\ \A k \in 1 .. Len(p) : w[k] = p[k]
      /\ \A k \in 1 .. Len(t) : w[Len(p) + k] = t[k]
  BY <1>3, CatAt, Zenon
<1>6. r = w
  <2> HIDE DEF w
  <2>1. Len(w) = Len(r)
    BY <1>2, <1>4, <1>5
  <2>2. ASSUME NEW k \in 1 .. Len(r) PROVE w[k] = r[k]
    <3>1. CASE k \in 1 .. Len(p)
      BY <3>1, <1>4, <1>5, Zenon
    <3>2. CASE k \notin 1 .. Len(p)
      <4>1. PICK m \in 1 .. Len(r) - Len(p) : Len(p) + m = k
        <5>1. k - Len(p) \in 1 .. Len(r) - Len(p) /\ Len(p) + (k - Len(p)) = k
          BY <3>2, <1>2
        <5> QED BY <5>1, Zenon
      <4> QED BY <4>1, <1>4, <1>5, Zenon
    <3> QED BY <3>1, <3>2
  <2> QED BY <2>1, <2>2, <1>5, Zenon
<1> QED BY <1>3, <1>6, Zenon DEF t

\* Dentry j was under p and is under q now, at path r.
Came(p, q, r, j) ==
  ~Abstract!Below(p, q) /\ \E t \in AllPaths : r = q \o t /\ Leads(p \o t, j)

\* The same from the path before, s: j is what was moved, or is below it.
CameNext(p, q, s, n, j) ==
  \/ ~Abstract!Below(p, q) /\ Append(s, n) = q /\ Leads(p, j)
  \/ Live(j) /\ node[j].name = n /\ Came(p, q, s, node[j].up)

\* How the next component of a path that came follows from the one before it.
LEMMA CameAppend ==
  ASSUME NEW p \in AllPaths, NEW q \in AllPaths, q # <<>>, NEW s \in AllPaths, NEW n \in Components, NEW j
  PROVE  Came(p, q, Append(s, n), j) <=> CameNext(p, q, s, n, j)
<1>1. <<>> \in AllPaths /\ p \o <<>> = p /\ q \o <<>> = q
  BY AppendIs, CatIs, Zenon
<1>2. ASSUME Came(p, q, Append(s, n), j)
      PROVE  \/ ~Abstract!Below(p, q) /\ Append(s, n) = q /\ Leads(p, j)
             \/ Live(j) /\ node[j].name = n /\ Came(p, q, s, node[j].up)
  <2>1. PICK t \in AllPaths : Append(s, n) = q \o t /\ Leads(p \o t, j)
    BY <1>2, Zenon DEF Came
  <2>2. ~Abstract!Below(p, q)
    BY <1>2, Zenon DEF Came
  <2>3. CASE t = <<>>
    BY <2>1, <2>2, <2>3, <1>1, Zenon
  <2>4. CASE t # <<>>
    <3>1. PICK u \in AllPaths, c \in Components : t = Append(u, c)
      BY <2>4, LastOf, Zenon
    <3>2. /\ q \o t = Append(q \o u, c) /\ p \o t = Append(p \o u, c)
          /\ q \o u \in AllPaths /\ p \o u \in AllPaths
      <4>1. q \o Append(u, c) = Append(q \o u, c) /\ p \o Append(u, c) = Append(p \o u, c)
        BY CatAppend, Zenon
      <4>2. q \o u \in AllPaths /\ p \o u \in AllPaths
        BY CatIs, Zenon
      <4> QED BY <3>1, <4>1, <4>2, Zenon
    <3>3. s = q \o u /\ n = c
      <4> DEFINE v == q \o u
      <4>1. Append(s, n) = Append(v, c) /\ v \in AllPaths
        BY <2>1, <3>2, Zenon
      <4> HIDE DEF v
      <4>2. Parent(Append(s, n)) = s /\ LastName(Append(s, n)) = n
        BY PartsIs, Zenon
      <4>3. Parent(Append(v, c)) = v /\ LastName(Append(v, c)) = c
        BY <4>1, PartsIs, Zenon
      <4> QED BY <4>1, <4>2, <4>3, Zenon DEF v
    <3>4. Live(j) /\ node[j].name = c /\ Leads(p \o u, node[j].up)
      <4> DEFINE v == p \o u
                 w == p \o t
      <4>1. Leads(w, j) /\ v \in AllPaths /\ w = Append(v, c)
        BY <2>1, <3>2, Zenon
      <4> HIDE DEF v, w
      <4>2. Live(j) /\ node[j].name = c /\ Leads(v, node[j].up)
        BY <4>1, LeadsLast, Zenon
      <4> QED BY <4>2, Zenon DEF v
    <3>5. Came(p, q, s, node[j].up)
      BY <2>2, <3>3, <3>4, Zenon DEF Came
    <3> QED BY <3>3, <3>4, <3>5, Zenon
  <2> QED BY <2>3, <2>4, Zenon
<1>3. ASSUME ~Abstract!Below(p, q), Append(s, n) = q, Leads(p, j) PROVE Came(p, q, Append(s, n), j)
  BY <1>1, <1>3, Zenon DEF Came
<1>4. ASSUME Live(j), node[j].name = n, Came(p, q, s, node[j].up) PROVE Came(p, q, Append(s, n), j)
  <2>1. PICK t \in AllPaths : s = q \o t /\ Leads(p \o t, node[j].up)
    BY <1>4, Zenon DEF Came
  <2>2. /\ q \o Append(t, n) = Append(q \o t, n) /\ p \o Append(t, n) = Append(p \o t, n)
        /\ p \o t \in AllPaths /\ Append(t, n) \in AllPaths
    <3>1. q \o Append(t, n) = Append(q \o t, n) /\ p \o Append(t, n) = Append(p \o t, n)
      BY CatAppend, Zenon
    <3>2. p \o t \in AllPaths /\ Append(t, n) \in AllPaths
      BY CatIs, AppendIs, Zenon
    <3> QED BY <3>1, <3>2, Zenon
  <2>3. Leads(Append(p \o t, n), j)
    <3> DEFINE v == p \o t
    <3>1. v \in AllPaths /\ Leads(v, node[j].up)
      BY <2>1, <2>2, Zenon
    <3> HIDE DEF v
    <3>2. Leads(Append(v, n), j)
      BY <3>1, <1>4, LeadsNow, Zenon DEF LeadsRule
    <3> QED BY <3>2, Zenon DEF v
  <2>4. Append(s, n) = q \o Append(t, n) /\ Leads(p \o Append(t, n), j)
    BY <2>1, <2>2, <2>3, Zenon
  <2>5. ~Abstract!Below(p, q)
    BY <1>4, Zenon DEF Came
  <2> QED BY <2>2, <2>4, <2>5, Zenon DEF Came
<1> QED BY <1>2, <1>3, <1>4, Zenon DEF CameNext

\* The paths after a rename: those that were, without p, q and what was below
\* them, and what came from p to q.
Moves(p, q) ==
  \A r \in AllPaths : \A j :
    Leads(r, j)' <=> \/ Leads(r, j) /\ ~Abstract!Below(p, r) /\ ~Abstract!Below(q, r)
                     \/ Came(p, q, r, j)

\* i, found under p, has taken the place of x under q, the name n in the list of
\* up.
Takes(p, i, u, up, n, q, x) ==
  /\ p \in AllPaths /\ p # <<>> /\ Leads(p, i) /\ Live(i)
  /\ u \in AllPaths /\ Leads(u, up) /\ n \in Components /\ q = Append(u, n)
  /\ x = Lost \/ Leads(q, x)
  /\ x # i /\ (\A j : Leads(q, j) => j = x) /\ Shifted(i, n, up, x)

\* The dentry of p has become the one of q: its own list goes with it.
LEMMA ShiftedLeads ==
  ASSUME TreeInv, NEW p, NEW i, NEW u, NEW up, NEW n, NEW q, NEW x, Takes(p, i, u, up, n, q, x)
  PROVE  Moves(p, q)
<1>. /\ p \in AllPaths /\ p # <<>> /\ Leads(p, i) /\ Live(i)
     /\ u \in AllPaths /\ Leads(u, up) /\ n \in Components /\ q = Append(u, n)
     /\ x = Lost \/ Leads(q, x)
     /\ x # i /\ (\A j : Leads(q, j) => j = x) /\ Shifted(i, n, up, x)
  BY Zenon DEF Takes
<1> DEFINE B(r) == Abstract!Below(p, r)
           C(r) == Abstract!Below(q, r)
           V(r, j) == Came(p, q, r, j)
           T == {r \in AllPaths : \A j : Leads(r, j)' <=> (Leads(r, j) /\ ~B(r) /\ ~C(r)) \/ V(r, j)}
<1>1. q \in AllPaths /\ q # <<>> /\ <<>> \in AllPaths
  BY AppendIs, Zenon
<1>2. B(p) /\ C(q) /\ ~B(<<>>) /\ ~C(<<>>)
  BY <1>1, BelowRoot, Zenon
<1>3. p # q /\ (B(q) <=> B(u)) /\ ~C(u)
  <2>1. p # q
    BY Zenon
  <2>2. ~C(u)
    BY DEF Abstract!Below, AllPaths
  <2> QED BY <2>1, <2>2, BelowAppend, Zenon
<1>4. ASSUME NEW t \in AllPaths PROVE B(p \o t) /\ p \o t \in AllPaths /\ p \o t # <<>> /\ q \o t # <<>>
  BY <1>1, CatIs, Zenon
<1>5. ASSUME NEW r, NEW j, V(r, j) PROVE ~B(q) /\ r # <<>> /\ \E t \in AllPaths : B(t) /\ t # <<>> /\ Leads(t, j)
  BY <1>5, <1>4, Zenon DEF Came
<1>6. <<>> \in T
  BY <1>1, <1>2, <1>5, LeadsNow, LeadsNext, Zenon DEF LeadsRule
<1>7. ASSUME NEW s \in AllPaths, NEW m \in Components, s \in T PROVE Append(s, m) \in T
  <2> DEFINE r == Append(s, m)
  <2>1. \A j : Leads(s, j)' <=> (Leads(s, j) /\ ~B(s) /\ ~C(s)) \/ V(s, j)
    BY <1>7, Zenon
  <2>2. \A j : Leads(r, j) <=> Live(j) /\ node[j].name = m /\ Leads(s, node[j].up)
    BY LeadsNow, Zenon DEF LeadsRule
  <2>3. \A j : Leads(r, j)' <=> Live(j)' /\ node'[j].name = m /\ Leads(s, node[j].up)'
    BY LeadsNext, Zenon DEF LeadsRule
  <2>4. r \in AllPaths /\ (B(r) <=> p = r \/ B(s)) /\ (C(r) <=> q = r \/ C(s))
    BY <1>1, AppendIs, BelowAppend, Zenon
  <2>5. ASSUME NEW j
        PROVE  V(r, j) <=> \/ ~B(q) /\ r = q /\ Leads(p, j)
                           \/ Live(j) /\ node[j].name = m /\ V(s, node[j].up)
    <3>1. Came(p, q, r, j) <=> CameNext(p, q, s, m, j)
      BY <1>1, CameAppend, Zenon
    <3> QED BY <3>1, Zenon DEF CameNext
  <2>6. ~Leads(s, Lost)' /\ ~V(s, Lost)
    <3>1. ~V(s, Lost)
      BY <1>5, LeadsLost, Zenon
    <3> QED BY <3>1, <2>1, LeadsLost, Zenon
  <2>7. r = q <=> s = u /\ m = n
    <3>1. Parent(Append(s, m)) = s /\ LastName(Append(s, m)) = m /\ Parent(Append(u, n)) = u /\ LastName(Append(u, n)) = n
      BY PartsIs, Zenon
    <3>2. r = Append(s, m) /\ q = Append(u, n)
      BY Zenon
    <3> HIDE DEF r
    <3> QED BY <3>1, <3>2, Zenon
  <2> HIDE DEF r, B, C, V
  <2>8. Leads(r, i)' <=> (Leads(r, i) /\ ~B(r) /\ ~C(r)) \/ V(r, i)
    <3>1. Live(i)' /\ node'[i].name = n /\ node'[i].up = up
      BY Zenon DEF Shifted
    <3>2. Leads(s, up) <=> s = u
      BY LeadsOnly, Zenon
    <3>3. ~V(s, up)
      <4>1. ASSUME V(s, up) PROVE B(u) /\ ~B(q)
        <5>1. PICK t \in AllPaths : B(t) /\ t # <<>> /\ Leads(t, up)
          BY <4>1, <1>5, Zenon
        <5>2. t = u
          BY <5>1, LeadsOnly, Zenon
        <5> QED BY <4>1, <5>1, <5>2, <1>5, Zenon
      <4> QED BY <4>1, <1>3, Zenon
    <3>4. Leads(s, up)' <=> s = u /\ ~B(u)
      BY <3>2, <3>3, <2>1, <1>3, Zenon
    <3>5. ~(Leads(r, i) /\ ~B(r))
      BY <2>4, LeadsOnly, Zenon
    <3>6. ~V(s, node[i].up)
      <4>1. ASSUME V(s, node[i].up) PROVE FALSE
        <5>1. PICK t \in AllPaths : B(t) /\ t # <<>> /\ Leads(t, node[i].up)
          BY <4>1, <1>5, Zenon
        <5>2. PICK f \in AllPaths, c \in Components : p = Append(f, c) /\ Len(p) = Len(f) + 1
          BY LastOf, Zenon
        <5>3. Leads(f, node[i].up)
          BY <5>2, LeadsLast, Zenon
        <5>4. B(f)
          BY <5>1, <5>3, LeadsOnly, Zenon
        <5>5. Len(f) \in Nat /\ Len(p) <= Len(f)
          BY <5>4, WholeIs, Zenon DEF B, Abstract!Below
        <5> QED BY <5>2, <5>5
      <4> QED BY <4>1
    <3> QED BY <3>1, <3>4, <3>5, <3>6, <2>3, <2>5, <2>7, <1>3, Zenon
  <2>9. ASSUME NEW j, ~Live(j)'
        PROVE  Leads(r, j)' <=> (Leads(r, j) /\ ~B(r) /\ ~C(r)) \/ V(r, j)
    <3>1. Live(j) => j = x /\ x # Lost
      BY <2>9, NodesAre, Zenon DEF Shifted, Live
    <3>2. Leads(r, j) => C(r)
      BY <3>1, <2>2, <2>4, <1>1, <1>2, LeadsOnly, Zenon
    <3>3. ~V(r, j)
      <4>1. ASSUME V(r, j) PROVE FALSE
        <5>1. PICK t \in AllPaths : B(t) /\ t # <<>> /\ Leads(t, j)
          BY <4>1, <1>5, Zenon
        <5>2. Live(j)
          BY <5>1, LeadsLost, Zenon
        <5>3. t = q
          BY <5>1, <5>2, <3>1, <1>1, LeadsOnly, Zenon
        <5> QED BY <4>1, <5>1, <5>3, <1>5, Zenon
      <4> QED BY <4>1
    <3> QED BY <3>2, <3>3, <2>3, <2>9, Zenon
  <2>10. ASSUME NEW j, Live(j)', j # i
         PROVE  Leads(r, j)' <=> (Leads(r, j) /\ ~B(r) /\ ~C(r)) \/ V(r, j)
    <3>1. /\ Live(j) /\ j # x /\ node'[j].name = node[j].name
          /\ node'[j].up = IF node[j].up = x THEN Lost ELSE node[j].up
      BY <2>10, Zenon DEF Shifted
    <3>2. ~Leads(p, j) /\ ~Leads(q, j)
      BY <2>10, <3>1, LeadsOne, Zenon
    <3>3. V(r, j) <=> node[j].name = m /\ V(s, node[j].up)
      BY <2>5, <3>1, <3>2, Zenon
    <3>4. CASE node[j].up = x
      <4>1. ~Leads(r, j)'
        BY <2>3, <2>6, <3>1, <3>4, Zenon
      <4>2. Leads(s, x) => C(s)
        BY <1>1, <1>2, LeadsLost, LeadsOnly, Zenon
      <4>3. ~V(s, x)
        <5>1. ASSUME V(s, x) PROVE FALSE
          <6>1. PICK t \in AllPaths : B(t) /\ t # <<>> /\ Leads(t, x)
            BY <5>1, <1>5, Zenon
          <6>2. x # Lost
            BY <6>1, LeadsLost, Zenon
          <6>3. t = q
            BY <6>1, <6>2, <1>1, LeadsOnly, Zenon
          <6> QED BY <5>1, <6>1, <6>3, <1>5, Zenon
        <5> QED BY <5>1
      <4> QED BY <4>1, <4>2, <4>3, <3>3, <3>4, <2>2, <2>4, Zenon
    <3>5. CASE node[j].up # x
      <4>1. Leads(r, j)' <=> /\ node[j].name = m
                             /\ (Leads(s, node[j].up) /\ ~B(s) /\ ~C(s)) \/ V(s, node[j].up)
        BY <2>1, <2>3, <2>10, <3>1, <3>5, Zenon
      <4>2. Leads(r, j) /\ ~B(r) /\ ~C(r) <=> Leads(r, j) /\ ~B(s) /\ ~C(s)
        BY <2>4, <3>2, Zenon
      <4> QED BY <4>1, <4>2, <3>1, <3>3, <2>2, Zenon
    <3> QED BY <3>4, <3>5, Zenon
  <2>11. \A j : Leads(r, j)' <=> (Leads(r, j) /\ ~B(r) /\ ~C(r)) \/ V(r, j)
    BY <2>8, <2>9, <2>10, Zenon
  <2> QED BY <2>4, <2>11, Zenon DEF r
<1> HIDE DEF T, B, C, V
<1>8. \A r \in AllPaths : r \in T
  BY <1>6, <1>7, PathInduction, Zenon
<1>9. \A r \in AllPaths : \A j : Leads(r, j)' <=> (Leads(r, j) /\ ~B(r) /\ ~C(r)) \/ V(r, j)
  BY <1>8, Zenon DEF T
<1> QED BY <1>9, Zenon DEF Moves, B, C, V

\* The map after a rename.
LEMMA MovedMap ==
  ASSUME TreeInv, Shown(map), Shown(map)', NEW p \in AllPaths, p # <<>>, NEW q \in AllPaths, q # <<>>,
         Moves(p, q), \A j : Live(j)' => node'[j].type = node[j].type /\ node'[j].data = node[j].data
  PROVE  map' = Abstract!Moved(p, q)
<1> DEFINE kept == DOMAIN map \ (Abstract!Under(p) \cup Abstract!Under(q))
           came == IF Abstract!Below(p, q) THEN {}
                   ELSE {q \o SubSeq(r, Len(p) + 1, Len(r)) : r \in Abstract!Under(p)}
           from(r) == p \o SubSeq(r, Len(q) + 1, Len(r))
<1>1. \A r \in AllPaths : \A j :
        Leads(r, j)' <=> \/ Leads(r, j) /\ ~Abstract!Below(p, r) /\ ~Abstract!Below(q, r)
                         \/ Came(p, q, r, j)
  BY Zenon DEF Moves
<1>2. /\ \A r : r \in DOMAIN map <=> r \in AllPaths /\ r # <<>> /\ \E j : Leads(r, j)
      /\ \A r \in AllPaths : \A j :
           r # <<>> /\ Leads(r, j) => map[r] = [type |-> node[j].type, data |-> node[j].data]
  BY Zenon DEF Shown
<1>3. /\ map' = [r \in DOMAIN map' |-> map'[r]]
      /\ \A r : r \in DOMAIN map' <=> r \in AllPaths /\ r # <<>> /\ \E j : Leads(r, j)'
      /\ \A r \in AllPaths : \A j :
           r # <<>> /\ Leads(r, j)' => map'[r] = [type |-> node'[j].type, data |-> node'[j].data]
  BY Zenon DEF Shown, AllPaths, Components
<1>4. \A r : r \in kept <=> r \in DOMAIN map /\ ~Abstract!Below(p, r) /\ ~Abstract!Below(q, r)
  BY Zenon DEF Abstract!Under
<1>5. \A r : r \in came => ~Abstract!Below(p, q) /\ \E t \in Abstract!Under(p) : r = q \o SubSeq(t, Len(p) + 1, Len(t))
  BY Zenon
<1>6. ASSUME NEW t \in Abstract!Under(p), ~Abstract!Below(p, q) PROVE q \o SubSeq(t, Len(p) + 1, Len(t)) \in came
  BY <1>6, Zenon
<1> HIDE DEF kept, came
<1>7. ASSUME NEW r \in came
      PROVE  /\ r \in AllPaths /\ r # <<>> /\ Abstract!Below(q, r) /\ from(r) \in AllPaths /\ from(r) # <<>>
             /\ \E j : Leads(from(r), j) /\ Came(p, q, r, j)
  <2>1. PICK s \in Abstract!Under(p) : r = q \o SubSeq(s, Len(p) + 1, Len(s))
    BY <1>5, Zenon
  <2> DEFINE t == SubSeq(s, Len(p) + 1, Len(s))
  <2>2. ~Abstract!Below(p, q) /\ s \in AllPaths /\ Abstract!Below(p, s) /\ \E j : Leads(s, j)
    BY <1>2, <1>5, Zenon DEF Abstract!Under
  <2>3. t \in AllPaths /\ s = p \o t /\ r = q \o t
    BY <2>1, <2>2, BelowCat, Zenon
  <2> HIDE DEF t
  <2>4. q \o t \in AllPaths /\ q \o t # <<>> /\ Abstract!Below(q, q \o t) /\ SubSeq(q \o t, Len(q) + 1, Len(q \o t)) = t
    BY <2>3, CatIs, Zenon
  <2>5. from(r) = s /\ s # <<>>
    <3>1. p \o t # <<>>
      BY <2>3, CatIs, Zenon
    <3> QED BY <3>1, <2>3, <2>4, Zenon
  <2> HIDE DEF from
  <2>6. \A j : Leads(s, j) => Came(p, q, r, j)
    BY <2>2, <2>3, Zenon DEF Came
  <2> QED BY <2>2, <2>3, <2>4, <2>5, <2>6, Zenon
<1>8. ASSUME NEW r, NEW j, Came(p, q, r, j) PROVE r \in came
  <2>1. PICK t \in AllPaths : r = q \o t /\ Leads(p \o t, j)
    BY <1>8, Zenon DEF Came
  <2>2. /\ p \o t \in AllPaths /\ p \o t # <<>> /\ Abstract!Below(p, p \o t)
        /\ SubSeq(p \o t, Len(p) + 1, Len(p \o t)) = t
    BY CatIs, Zenon
  <2>3. p \o t \in Abstract!Under(p)
    BY <2>1, <2>2, <1>2, Zenon DEF Abstract!Under
  <2>4. q \o SubSeq(p \o t, Len(p) + 1, Len(p \o t)) \in came
    BY <2>3, <1>6, <1>8, Zenon DEF Came
  <2> QED BY <2>1, <2>2, <2>4, Zenon
<1> HIDE DEF from
<1>9. \A r : r \in DOMAIN map' <=> r \in kept \cup came
  <2>1. ASSUME NEW r \in DOMAIN map' PROVE r \in kept \cup came
    BY <1>1, <1>2, <1>3, <1>4, <1>8, Zenon
  <2>2. ASSUME NEW r \in kept PROVE r \in DOMAIN map'
    BY <1>1, <1>2, <1>3, <1>4, Zenon
  <2>3. ASSUME NEW r \in came PROVE r \in DOMAIN map'
    BY <1>1, <1>3, <1>7, Zenon
  <2> QED BY <2>1, <2>2, <2>3, Zenon
<1>10. ASSUME NEW r \in AllPaths, r # <<>>, NEW s \in AllPaths, s # <<>>, NEW j, Leads(s, j), Leads(r, j)'
       PROVE  map'[r] = map[s]
  <2>1. Live(j)'
    BY <1>10, LostNext, Zenon
  <2>2. node'[j].type = node[j].type /\ node'[j].data = node[j].data
    BY <2>1, Zenon
  <2>3. map[s] = [type |-> node[j].type, data |-> node[j].data]
    BY <1>10, <1>2, Zenon
  <2>4. map'[r] = [type |-> node'[j].type, data |-> node'[j].data]
    BY <1>10, <1>3, Zenon
  <2> QED BY <2>2, <2>3, <2>4, Zenon
<1>11. ASSUME NEW r \in came PROVE map'[r] = map[from(r)]
  <2>1. PICK j : Leads(from(r), j) /\ Came(p, q, r, j)
    BY <1>7, Zenon
  <2>2. /\ r \in AllPaths /\ r # <<>> /\ from(r) \in AllPaths /\ from(r) # <<>> /\ Leads(r, j)'
    BY <2>1, <1>1, <1>7, Zenon
  <2> QED BY <2>1, <2>2, <1>10, Zenon
<1>12. ASSUME NEW r \in kept PROVE map'[r] = map[r]
  <2>1. PICK j : r \in AllPaths /\ r # <<>> /\ Leads(r, j) /\ Leads(r, j)'
    BY <1>1, <1>2, <1>4, Zenon
  <2> QED BY <2>1, <1>10, Zenon
<1>13. map' = [r \in kept \cup came |-> IF r \in came THEN map[from(r)] ELSE map[r]]
  <2>1. DOMAIN map' = kept \cup came
    BY <1>9, Zenon
  <2> QED BY <2>1, <1>3, <1>11, <1>12, Zenon
<1> QED BY <1>13, Zenon DEF Abstract!Moved, kept, came, from

--------------------------------------------------------------------------------
(***************************************************************************)
(* Every call has the effect that the map promises.                        *)
(***************************************************************************)
\* The ends of a call that leave the dentries alone.
LEMMA Ends ==
  ASSUME heap \in {"ok", "held"}
  PROVE  /\ heap' = heap /\ res' # "none" => Abstract!Fate /\ Abstract!Waits
         /\ Spin => Abstract!Fate /\ Abstract!Waits /\ res' = "none" /\ node' = node
         /\ NoMem => Abstract!Fate /\ Abstract!Waits /\ res' = "NOMEM"
         /\ heap = "ok" /\ heap' = "hung" /\ res' = "none" => Abstract!Fate
BY Zenon DEF Abstract!Fate, Abstract!Waits, Spin, NoMem

\* unlink.
LEMMA UnlinkStep ==
  ASSUME TreeInv, Shown(map), Shown(map)', heap \in {"ok", "held"}, node' = node => map' = map,
         NEW p \in Paths, unlink(p)
  PROVE  Abstract!Unlink(p)
<1>. PICK i : i = tmpfs_lookup(p)
  BY Zenon
<1>1. \/ Answer("INVAL") \/ Answer("NOENT") \/ Answer("NOTEMPTY") \/ Spin
      \/ /\ p.abs /\ ~IsRoot(p) /\ i # Lost /\ ~Busy(i)
         /\ node' = tmpfs_free_dentry(i) /\ res' = "OK" /\ heap' = heap
  BY Zenon DEF unlink
<1>2. CASE \/ Answer("INVAL") \/ Answer("NOENT") \/ Answer("NOTEMPTY") \/ Spin
  <2>1. Abstract!Fate /\ Abstract!Waits /\ res' # "OK" /\ node' = node
    BY <1>2, Ends, Zenon DEF Answer
  <2> QED BY <2>1, Zenon DEF Abstract!Unlink
<1>3. CASE /\ p.abs /\ ~IsRoot(p) /\ i # Lost /\ ~Busy(i)
           /\ node' = tmpfs_free_dentry(i) /\ res' = "OK" /\ heap' = heap
  <2>1. /\ p.comps \in AllPaths /\ p.comps # <<>> /\ p.comps \in DOMAIN map
        /\ Leads(p.comps, i) /\ Live(i) /\ i # Root /\ map[p.comps].type = node[i].type
    BY <1>3, FoundIs, Zenon
  <2>2. Removed(i)
    BY <1>3, <2>1, FreedTree, Zenon DEF Live
  <2> DEFINE q == p.comps
  <2>3. q \in AllPaths /\ q # <<>> /\ Leads(q, i)
    BY <2>1, Zenon
  <2> HIDE DEF q
  <2>4. map' = Abstract!Without(Abstract!Under(q))
    BY <2>2, <2>3, RemovedMap, Zenon
  <2>5. node[i].type = "DIR" => Abstract!Under(q) = {q}
    <3>1. node[i].type = "DIR" => Kids(i) = {}
      BY <1>3, <2>1, Zenon DEF Busy, TypeOf
    <3> QED BY <3>1, <2>3, EmptyIs, Zenon
  <2>6. Abstract!Fate /\ Abstract!Waits
    BY <1>3, Ends, Zenon
  <2> QED BY <1>3, <2>1, <2>4, <2>5, <2>6, Zenon DEF Abstract!Unlink, q
<1> QED BY <1>1, <1>2, <1>3, Zenon

\* write.
LEMMA WriteStep ==
  ASSUME TreeInv, Shown(map), Shown(map)', heap \in {"ok", "held"}, node' = node => map' = map,
         NEW p \in Paths, NEW d, write(p, d)
  PROVE  Abstract!Write(p, d)
<1>. PICK i : i = tmpfs_lookup(p)
  BY Zenon
<1>1. /\ Handed(p)
      /\ \/ Answer("INVAL") \/ Spin \/ (NoMem /\ node' = node)
         \/ /\ node[i].type = "FILE" /\ heap = "ok" /\ node' = [node EXCEPT ![i].data = d] /\ res' = "OK"
            /\ heap' = IF d = <<>> THEN "held" ELSE heap
         \/ heap = "ok" /\ heap' = "wild" /\ res' = "none" /\ node' = node
  BY Zenon DEF write
<1>2. /\ p.comps \in AllPaths /\ p.comps # <<>> /\ p.comps \in DOMAIN map
      /\ Leads(p.comps, i) /\ Live(i) /\ map[p.comps].type = node[i].type
  BY <1>1, FoundIs, Zenon DEF Handed
<1>3. CASE Answer("INVAL") \/ Spin \/ (NoMem /\ node' = node)
  <2>1. Abstract!Fate /\ Abstract!Waits /\ res' # "OK" /\ node' = node
    BY <1>3, Ends, Zenon DEF Answer
  <2> QED BY <2>1, <1>2, Zenon DEF Abstract!Write
<1>4. CASE heap = "ok" /\ heap' = "wild" /\ res' = "none" /\ node' = node
  BY <1>4, <1>2, Zenon DEF Abstract!Write, Abstract!Waits
<1>5. CASE /\ node[i].type = "FILE" /\ heap = "ok" /\ node' = [node EXCEPT ![i].data = d] /\ res' = "OK"
           /\ heap' = IF d = <<>> THEN "held" ELSE heap
  <2> DEFINE q == p.comps
  <2>1. map' = [map EXCEPT ![q].data = d]
    <3>1. node \in [Nodes -> Dentry] /\ i \in Nodes
      BY <1>2, Zenon DEF TreeInv, TypeInv, Live
    <3>2. /\ node'[i].type = node[i].type /\ node'[i].up = node[i].up
          /\ node'[i].name = node[i].name /\ node'[i].data = d
      BY <1>5, <3>1 DEF Dentry
    <3>3. \A j \in Nodes : j # i => node'[j] = node[j]
      BY <1>5, <3>1, Zenon
    <3>4. \A j : (Live(j)' <=> Live(j)) /\ (Live(j) => node'[j].name = node[j].name /\ node'[j].up = node[j].up)
      BY <3>2, <3>3, Zenon DEF Live
    <3>5. \A r \in AllPaths : \A j : Leads(r, j)' <=> Leads(r, j)
      BY <3>4, SameLeads, Zenon
    <3>6. /\ map = [r \in DOMAIN map |-> map[r]]
          /\ \A r : r \in DOMAIN map <=> r \in AllPaths /\ r # <<>> /\ \E j : Leads(r, j)
          /\ \A r \in AllPaths : \A j :
               r # <<>> /\ Leads(r, j) => map[r] = [type |-> node[j].type, data |-> node[j].data]
      BY Zenon DEF Shown
    <3>7. /\ map' = [r \in DOMAIN map' |-> map'[r]]
          /\ \A r : r \in DOMAIN map' <=> r \in AllPaths /\ r # <<>> /\ \E j : Leads(r, j)'
          /\ \A r \in AllPaths : \A j :
               r # <<>> /\ Leads(r, j)' => map'[r] = [type |-> node'[j].type, data |-> node'[j].data]
      BY Zenon DEF Shown, AllPaths, Components
    <3>8. \A r : r \in DOMAIN map' <=> r \in DOMAIN map
      BY <3>5, <3>6, <3>7, Zenon
    <3>9. q \in AllPaths /\ q # <<>> /\ q \in DOMAIN map /\ Leads(q, i)
      BY <1>2, Zenon
    <3> HIDE DEF q
    <3>10. map[q] = [type |-> node[i].type, data |-> node[i].data] /\ map'[q] = [type |-> node[i].type, data |-> d]
      <4>1. map[q] = [type |-> node[i].type, data |-> node[i].data]
        BY <3>6, <3>9, Zenon
      <4>2. map'[q] = [type |-> node'[i].type, data |-> node'[i].data]
        BY <3>5, <3>7, <3>9, Zenon
      <4> QED BY <4>1, <4>2, <3>2, Zenon
    <3>11. ASSUME NEW r \in DOMAIN map, r # q PROVE map'[r] = map[r]
      <4>1. PICK j : r \in AllPaths /\ r # <<>> /\ Leads(r, j) /\ Leads(r, j)'
        BY <3>5, <3>6, Zenon
      <4>2. j # i
        BY <4>1, <3>9, <3>11, LeadsOnly, Zenon
      <4>3. Live(j)
        BY <4>1, LeadsLost, Zenon
      <4>4. node'[j] = node[j]
        BY <4>2, <4>3, <3>3, Zenon DEF Live
      <4>5. map[r] = [type |-> node[j].type, data |-> node[j].data]
        BY <4>1, <3>6, Zenon
      <4>6. map'[r] = [type |-> node'[j].type, data |-> node'[j].data]
        BY <4>1, <3>7, Zenon
      <4> QED BY <4>4, <4>5, <4>6, Zenon
    <3>12. [map[q] EXCEPT !.data = d] = map'[q]
      BY <3>10
    <3>13. DOMAIN map' = DOMAIN map
      BY <3>8, Zenon
    <3>14. [map EXCEPT ![q].data = d] = [r \in DOMAIN map |-> IF r = q THEN map'[q] ELSE map[r]]
      BY <3>6, <3>9, <3>12, Zenon
    <3>15. map' = [r \in DOMAIN map |-> IF r = q THEN map'[q] ELSE map[r]]
      BY <3>7, <3>11, <3>13, Zenon
    <3> QED BY <3>14, <3>15, Zenon
  <2>2. Abstract!Waits
    BY <1>5, Zenon DEF Abstract!Waits
  <2> QED BY <1>2, <1>5, <2>1, <2>2, Zenon DEF Abstract!Write
<1> QED BY <1>1, <1>3, <1>4, <1>5, Zenon

\* Level g is behind the k-th of l, up to the n-th.
Between(k, g, n, l) ==
  /\ g \in k + 1 .. l /\ k < l /\ (g < n => g < l) /\ (g < l => g \in 1 .. l - 1)
  /\ (~(g < l) => g = l)
  /\ \A m \in 1 .. g - k : k + m \in 1 .. l /\ (g < l => k + m # l)

\* Where it is.
LEMMA LevelBetween ==
  ASSUME NEW l \in Nat, NEW k \in 0 .. l, NEW n \in 0 .. l, NEW g \in k + 1 .. n
  PROVE  Between(k, g, n, l)
BY DEF Between

\* The levels that creat and mkdir make.
LEMMA LevelsStep ==
  ASSUME TreeInv, Shown(map), Shown(map)', heap \in {"ok", "held"}, node' = node => map' = map,
         NEW p \in Paths, p.abs, ~IsRoot(p), NEW types \in Seq({"FILE", "DIR"}),
         Len(types) = Len(p.comps), MakeLevels(p, types),
         NEW t, \A m \in 1 .. Len(p.comps) : types[m] = IF m = Len(p.comps) THEN t ELSE "DIR"
  PROVE  Abstract!Make(p, t) /\ (res' = "OK" => (map' = map /\ p.comps \in DOMAIN map)
                                                \/ map' = Abstract!With(p.comps, t))
<1>. PICK q : q = p.comps
  BY Zenon
<1>. PICK k : k = Depth(q)
  BY Zenon
<1>. PICK n : n = Short(q)
  BY Zenon
<1>. PICK i : i = Only(Walk(q)[k])
  BY Zenon
<1>1. LevelsMade(q, types, k, n, i)
  BY MakeLevelsIs, Zenon
<1>2. q \in AllPaths /\ q # <<>> /\ Len(q) \in Nat
  BY PathIs, Zenon DEF AllPaths, IsRoot
<1>3. /\ k \in 0 .. Len(q) /\ i \in Walk(q)[k]
      /\ k < Len(q) => \A j : ~(Live(j) /\ node[j].up = i /\ node[j].name = q[k + 1])
  BY <1>2, LastLevel, Zenon
<1>4. n \in 0 .. Len(q)
  BY <1>2, ShortIs, Zenon
<1>5. Leads(SubSeq(q, 1, k), i)
  BY <1>2, <1>3, LevelLeads, Zenon
<1>6. SubSeq(q, 1, Len(q)) = q
  BY <1>2, WholeIs, Zenon
<1>7. /\ Far(q, n) => /\ Abstract!Fate /\ res' \in {"OK", "TOOLONG"}
                     /\ (res' = "OK" <=> ~(n < Len(q)))
      /\ heap = "ok" /\ Stop => Abstract!Fate /\ res' \in {"NOMEM", "none"}
      /\ Spin => Abstract!Fate /\ res' = "none" /\ node' = node
  BY Ends, Zenon DEF Far, Stop
<1>8. CASE node' = node /\ n <= k /\ Far(q, n)
  <2>1. res' = "OK" => k = Len(q)
    <3>1. ~(n < Len(q)) => k = Len(q)
      BY <1>2, <1>3, <1>4, <1>8
    <3> QED BY <3>1, <1>7, <1>8, Zenon
  <2>2. res' = "OK" => q \in DOMAIN map
    <3>1. \A r : r \in AllPaths /\ r # <<>> /\ (\E j : Leads(r, j)) => r \in DOMAIN map
      BY Zenon DEF Shown
    <3> QED BY <3>1, <2>1, <1>2, <1>5, <1>6, Zenon
  <2> QED BY <2>2, <1>7, <1>8, Zenon DEF Abstract!Make
<1>9. CASE Spin \/ (heap = "ok" /\ node' = node /\ Stop)
  BY <1>7, <1>9, Zenon DEF Abstract!Make
<1>10. ASSUME heap = "ok", NEW g \in k + 1 .. n, NEW id, Extended(q, types, k, g, i, id),
              (g = n /\ Far(q, n)) \/ (g < n /\ Stop)
       PROVE  /\ Abstract!Make(p, t)
              /\ res' = "OK" => (map' = map /\ p.comps \in DOMAIN map) \/ map' = Abstract!With(p.comps, t)
  <2>1. /\ g \in k + 1 .. Len(q) /\ k < Len(q) /\ (g < n => g < Len(q)) /\ (g < Len(q) => g \in 1 .. Len(q) - 1)
        /\ (~(g < Len(q)) => g = Len(q))
        /\ \A m \in 1 .. g - k : k + m \in 1 .. Len(q) /\ (g < Len(q) => k + m # Len(q))
    <3>1. Between(k, g, n, Len(q))
      BY <1>2, <1>3, <1>4, LevelBetween, Zenon
    <3> QED BY <3>1, Zenon DEF Between
  <2>2. Grew(q, types, k, g, i, id)
    BY <1>10, ExtendedGrew, Zenon
  <2>3. /\ q \in AllPaths /\ k \in 0 .. Len(q) /\ g \in k + 1 .. Len(q)
        /\ Leads(SubSeq(q, 1, k), i) /\ Vacant(i, q[k + 1])
    BY <2>1, <1>2, <1>3, <1>5, Zenon DEF Vacant
  <2>4. CASE g < Len(q)
    <3>1. Typed(types, k, g, "DIR")
      BY <2>1, <2>4, Zenon DEF Typed
    <3>2. NewLevels(q, types, k, g, i, id, "DIR")
      BY <3>1, <2>2, <2>3, Zenon DEF NewLevels
    <3>3. Gains(SubSeq(q, 1, g), "DIR")
      BY <3>2, ExtendedMap, Zenon
    <3>4. Abstract!Fate /\ res' \in {"NOMEM", "TOOLONG", "none"}
      BY <1>7, <1>10, <2>4, Zenon
    <3>5. \E l \in 1 .. Len(p.comps) - 1 : map' = Abstract!With(SubSeq(p.comps, 1, l), "DIR")
      BY <3>3, <2>1, <2>4, Zenon DEF Gains
    <3> QED BY <3>4, <3>5, Zenon DEF Abstract!Make
  <2>5. CASE ~(g < Len(q))
    <3>1. Typed(types, k, g, t)
      BY <2>1, <2>5, Zenon DEF Typed
    <3>2. NewLevels(q, types, k, g, i, id, t)
      BY <3>1, <2>2, <2>3, Zenon DEF NewLevels
    <3>3. map' = Abstract!With(q, t)
      <4>1. Gains(SubSeq(q, 1, g), t)
        BY <3>2, ExtendedMap, Zenon
      <4> QED BY <4>1, <2>1, <2>5, <1>6, Zenon DEF Gains
    <3>4. Far(q, n) /\ ~(n < Len(q))
      BY <1>10, <2>1, <2>5, Zenon
    <3>5. Abstract!Fate /\ res' = "OK"
      BY <3>4, <1>7, Zenon
    <3> QED BY <3>3, <3>5, Zenon DEF Abstract!Make
  <2> QED BY <2>4, <2>5, Zenon
<1> QED BY <1>1, <1>8, <1>9, <1>10, Zenon DEF LevelsMade

\* creat.
LEMMA CreatStep ==
  ASSUME TreeInv, Shown(map), Shown(map)', heap \in {"ok", "held"}, node' = node => map' = map,
         NEW p \in Paths, creat(p)
  PROVE  Abstract!Creat(p)
<1> DEFINE types == [k \in DOMAIN p.comps |->
                      IF k = Len(p.comps) /\ ~p.slash THEN "FILE" ELSE "DIR"]
           t == IF p.slash THEN "DIR" ELSE "FILE"
<1>1. \/ Answer("INVAL")
      \/ p.abs /\ ~IsRoot(p) /\ tmpfs_lookup(p) # Lost /\ (Answer("ISDIR") \/ Answer("OK"))
      \/ p.abs /\ ~IsRoot(p) /\ MakeLevels(p, types)
  BY Zenon DEF creat
<1>2. types \in Seq({"FILE", "DIR"}) /\ Len(types) = Len(p.comps)
  BY PathIs
<1>3. \A m \in 1 .. Len(p.comps) : types[m] = IF m = Len(p.comps) THEN t ELSE "DIR"
  <2>1. DOMAIN p.comps = 1 .. Len(p.comps)
    BY PathIs
  <2> QED BY <2>1, Zenon
<1> HIDE DEF types, t
<1>4. Abstract!Make(p, t)
  <2>1. CASE Answer("INVAL")
    BY <2>1, Ends, Zenon DEF Answer, Abstract!Make
  <2>2. CASE p.abs /\ ~IsRoot(p) /\ tmpfs_lookup(p) # Lost /\ (Answer("ISDIR") \/ Answer("OK"))
    <3>1. p.comps \in DOMAIN map
      BY <2>2, FoundIs, Zenon
    <3> QED BY <3>1, <2>2, Ends, Zenon DEF Answer, Abstract!Make
  <2>3. CASE p.abs /\ ~IsRoot(p) /\ MakeLevels(p, types)
    BY <2>3, <1>2, <1>3, LevelsStep, Zenon
  <2> QED BY <1>1, <2>1, <2>2, <2>3, Zenon
<1> QED BY <1>4, Zenon DEF Abstract!Creat, t

\* mkdir: what it finds under the name is a directory.
LEMMA MkdirStep ==
  ASSUME TreeInv, Shown(map), Shown(map)', heap \in {"ok", "held"}, node' = node => map' = map,
         NEW p \in Paths, mkdir(p)
  PROVE  Abstract!Mkdir(p)
<1> DEFINE types == [k \in DOMAIN p.comps |-> "DIR"]
           Dirs == \A k \in 1 .. Len(p.comps) : \A i \in Walk(p.comps)[k] : TypeOf(i) = "DIR"
<1>1. \/ Answer("INVAL") \/ Answer("NOTDIR")
      \/ p.abs /\ ~IsRoot(p) /\ Dirs /\ MakeLevels(p, types)
  BY Zenon DEF mkdir
<1>2. types \in Seq({"FILE", "DIR"}) /\ Len(types) = Len(p.comps)
  BY PathIs
<1>3. \A m \in 1 .. Len(p.comps) : types[m] = IF m = Len(p.comps) THEN "DIR" ELSE "DIR"
  <2>1. DOMAIN p.comps = 1 .. Len(p.comps)
    BY PathIs
  <2> QED BY <2>1, Zenon
<1> HIDE DEF types
<1>4. CASE Answer("INVAL") \/ Answer("NOTDIR")
  BY <1>4, Ends, Zenon DEF Answer, Abstract!Make, Abstract!Mkdir
<1>5. CASE p.abs /\ ~IsRoot(p) /\ Dirs /\ MakeLevels(p, types)
  <2>1. /\ Abstract!Make(p, "DIR")
        /\ res' = "OK" => (map' = map /\ p.comps \in DOMAIN map) \/ map' = Abstract!With(p.comps, "DIR")
    BY <1>2, <1>3, <1>5, LevelsStep, Zenon
  <2>2. p.comps \in AllPaths /\ p.comps # <<>> /\ Len(p.comps) \in 1 .. Len(p.comps)
    BY <1>5, PathIs DEF IsRoot, AllPaths
  <2>3. p.comps \in DOMAIN map => map[p.comps].type = "DIR"
    <3>. PICK i : i = tmpfs_lookup(p)
      BY Zenon
    <3>1. ASSUME p.comps \in DOMAIN map
          PROVE  Leads(p.comps, i) /\ i # Root /\ map[p.comps].type = node[i].type
      BY <1>5, <3>1, FoundIs, Zenon
    <3>2. Leads(p.comps, i) => TypeOf(i) = "DIR"
      BY <1>5, <2>2, Zenon DEF Leads
    <3> QED BY <3>1, <3>2, Zenon DEF TypeOf
  <2>4. SubSeq(p.comps, 1, Len(p.comps)) = p.comps
    BY <2>2, WholeIs, Zenon
  <2>5. map' = Abstract!With(p.comps, "DIR") => map'[p.comps].type = "DIR"
    <3>1. p.comps \in DOMAIN map \cup {SubSeq(p.comps, 1, k) : k \in 1 .. Len(p.comps)}
      BY <2>2, <2>4, Zenon
    <3>2. Abstract!New("DIR").type = "DIR"
      BY DEF Abstract!New
    <3>3. Abstract!With(p.comps, "DIR")[p.comps]
            = IF p.comps \in DOMAIN map THEN map[p.comps] ELSE Abstract!New("DIR")
      BY <3>1, Zenon DEF Abstract!With
    <3> QED BY <3>2, <3>3, <2>3, Zenon
  <2> QED BY <2>1, <2>3, <2>5, Zenon DEF Abstract!Mkdir
<1> QED BY <1>1, <1>4, <1>5, Zenon

\* rename.
LEMMA RenameStep ==
  ASSUME TreeInv, Shown(map), Shown(map)', heap \in {"ok", "held"}, node' = node => map' = map,
         NEW p \in Paths, NEW q \in Paths, rename(p, q)
  PROVE  Abstract!Rename(p, q)
<1>. PICK i : i = tmpfs_lookup(p)
  BY Zenon
<1>. PICK n : n = Len(q.comps)
  BY Zenon
<1>. PICK u : u = SubSeq(q.comps, 1, n - 1)
  BY Zenon
<1>. PICK up : up = Lookup(u)
  BY Zenon
<1>. PICK x : x = Child(up, q.comps[n])
  BY Zenon
<1>. PICK a, b, c : a = p.comps /\ b = q.comps /\ c = b[n]
  BY Zenon
<1> DEFINE Found == /\ p.abs /\ ~IsRoot(p) /\ Live(i) /\ n \in Nat /\ n # 0 /\ c \in Components \ TooLong
                    /\ (up = Root \/ Live(up)) /\ up # Lost /\ x # up
                    /\ x = Lost \/ (Live(x) /\ node[x].up = up /\ node[x].name = c)
                    /\ \A j : Live(j) /\ node[j].up = up /\ node[j].name = c => j = x
           Wild == /\ heap = "ok" /\ heap' = "wild" /\ res' = "none" /\ node' = node
                   /\ x # Lost /\ x \in {i, node[i].up}
           Gone == NoMem /\ (IF x = Lost THEN node' = node ELSE TreeInv' /\ Removed(x))
           Done == /\ heap = "ok" /\ res' = "OK" /\ heap' = heap /\ x # i
                   /\ Shifted(i, c, up, x)
<1>1. \/ /\ node' = node
         /\ (UNCHANGED heap /\ res' \in {"INVAL", "NOENT", "NOTDIR", "NOTEMPTY"}) \/ Spin \/ NoMem
      \/ Found /\ (Wild \/ Gone \/ Done)
  <2>1. RenameEnds(p, q, i, n, up, x)
    BY RenameIs, Zenon
  <2> QED BY <2>1, Zenon DEF RenameEnds
<1>2. CASE /\ node' = node
           /\ (UNCHANGED heap /\ res' \in {"INVAL", "NOENT", "NOTDIR", "NOTEMPTY"}) \/ Spin \/ NoMem
  <2>1. Abstract!Fate /\ Abstract!Waits /\ res' # "OK"
    BY <1>2, Ends, Zenon
  <2> QED BY <2>1, <1>2, Zenon DEF Abstract!Rename
<1>3. ASSUME Found
      PROVE  /\ a \in AllPaths /\ a # <<>> /\ Leads(a, i)
             /\ b \in AllPaths /\ b # <<>> /\ u \in AllPaths /\ b = Append(u, c) /\ Leads(u, up)
  <2>1. i # Lost
    BY <1>3, NodesAre, Zenon DEF Live
  <2>2. a \in AllPaths /\ a # <<>> /\ Leads(a, i)
    <3>1. a \in AllPaths /\ a # <<>> /\ i = Lookup(a)
      BY <1>3, PathIs, Zenon DEF IsRoot, tmpfs_lookup, AllPaths
    <3> QED BY <2>1, <3>1, LookupLeads, Zenon
  <2>3. b \in AllPaths /\ n = Len(b) /\ n \in 1 .. Len(b)
    <3>1. b \in AllPaths /\ n = Len(b)
      BY PathIs, Zenon DEF AllPaths
    <3>2. n \in Nat /\ n # 0
      BY <1>3, Zenon
    <3> QED BY <3>1, <3>2
  <2>4. /\ SubSeq(b, 1, n) # <<>> /\ SubSeq(b, 1, n - 1) \in AllPaths
        /\ SubSeq(b, 1, n) = Append(SubSeq(b, 1, n - 1), b[n])
    BY <2>3, FrontLast, Zenon
  <2>5. SubSeq(b, 1, n) = b
    BY <2>3, WholeIs, Zenon
  <2>6. u \in AllPaths
    BY <2>4, Zenon
  <2>7. Leads(u, up)
    BY <2>6, <1>3, LookupLeads, Zenon
  <2> QED BY <2>2, <2>3, <2>4, <2>5, <2>6, <2>7, Zenon
<1>4. ASSUME Found PROVE (x = Lost \/ Leads(b, x)) /\ \A j : Leads(b, j) => j = x
  <2>1. /\ u \in AllPaths /\ c \in Components /\ b = Append(u, c) /\ Leads(u, up)
        /\ x = Lost \/ (Live(x) /\ node[x].up = up /\ node[x].name = c)
        /\ \A j : Live(j) /\ node[j].up = up /\ node[j].name = c => j = x
    BY <1>3, <1>4, Zenon
  <2> HIDE DEF Found
  <2>2. \A j : Leads(Append(u, c), j) <=> Live(j) /\ node[j].name = c /\ Leads(u, node[j].up)
    BY <2>1, LeadsNow, ZenonT(40) DEF LeadsRule
  <2>3. ASSUME NEW j, Leads(b, j) PROVE j = x
    <3>1. Live(j) /\ node[j].name = c /\ Leads(u, node[j].up)
      BY <2>1, <2>2, <2>3, Zenon
    <3>2. node[j].up = up
      BY <2>1, <3>1, LeadsOne, Zenon
    <3> QED BY <2>1, <3>1, <3>2, Zenon
  <2>4. x = Lost \/ Leads(b, x)
    BY <2>1, <2>2, Zenon
  <2> QED BY <2>3, <2>4, Zenon
<1> HIDE DEF Found
<1>5. CASE Found /\ Wild
  <2>1. Leads(b, x) /\ x \in {i, node[i].up}
    BY <1>4, <1>5, Zenon
  <2>2. x = i => a = b
    BY <2>1, <1>3, <1>5, LeadsOnly, Zenon
  <2>3. x = node[i].up => a = Append(b, a[Len(a)])
    <3>1. PICK f \in AllPaths, m \in Components : a = Append(f, m)
      BY <1>3, <1>5, LastOf, ZenonT(40)
    <3>2. Leads(f, node[i].up)
      BY <3>1, <1>3, <1>5, LeadsLast, Zenon
    <3>3. a[Len(a)] = m
      BY <3>1, PartsIs, Zenon DEF LastName
    <3>4. x = node[i].up => f = b
      BY <2>1, <3>2, <1>3, <1>5, LeadsOnly, Zenon
    <3> QED BY <3>1, <3>3, <3>4, Zenon
  <2>4. a = b \/ a = Append(b, a[Len(a)])
    BY <2>1, <2>2, <2>3, Zenon
  <2>5. heap' = "wild" /\ map' = map /\ res' = "none"
    BY <1>5, Zenon
  <2> QED BY <2>4, <2>5, Zenon DEF Abstract!Rename, Abstract!Waits
<1>6. CASE Found /\ Gone
  <2>1. Abstract!Fate /\ Abstract!Waits /\ res' = "NOMEM"
    BY <1>6, Ends, Zenon
  <2>2. CASE x = Lost
    <3>1. map' = map
      BY <2>2, <1>6, Zenon
    <3> QED BY <2>1, <3>1, Zenon DEF Abstract!Rename
  <2>3. CASE x # Lost
    <3>1. Removed(x) /\ Leads(b, x)
      BY <2>3, <1>4, <1>6, Zenon
    <3>2. map' = Abstract!Without(Abstract!Under(b))
      BY <3>1, <1>3, <1>6, RemovedMap, Zenon
    <3> QED BY <2>1, <3>2, Zenon DEF Abstract!Rename
  <2> QED BY <2>2, <2>3, Zenon
<1>7. CASE Found /\ Done
  <2>1. Abstract!Fate /\ Abstract!Waits
    BY <1>7, Ends, Zenon
  <2>2. Live(i) /\ c \in Components /\ x # i /\ Shifted(i, c, up, x)
    BY <1>7, Zenon DEF Found
  <2>21. /\ a \in AllPaths /\ a # <<>> /\ Leads(a, i) /\ u \in AllPaths /\ Leads(u, up)
         /\ b = Append(u, c) /\ (x = Lost \/ Leads(b, x)) /\ \A j : Leads(b, j) => j = x
    BY <1>3, <1>4, <1>7, Zenon
  <2>22. Takes(a, i, u, up, c, b, x)
    BY <2>2, <2>21, Zenon DEF Takes
  <2>3. Moves(a, b)
    BY <2>22, ShiftedLeads, Zenon
  <2>4. \A j : Live(j)' => node'[j].type = node[j].type /\ node'[j].data = node[j].data
    BY <2>2, Zenon DEF Shifted
  <2>5. map' = Abstract!Moved(a, b)
    BY <2>3, <2>4, <1>3, <1>7, MovedMap, Zenon
  <2>6. a # b
    BY <2>2, <1>3, <1>4, <1>7, Zenon
  <2> QED BY <2>1, <2>5, <2>6, <1>7, Zenon DEF Abstract!Rename
<1> QED BY <1>1, <1>2, <1>5, <1>6, <1>7, Zenon

--------------------------------------------------------------------------------
(***************************************************************************)
(* Theorems.                                                               *)
(***************************************************************************)
\* The tree, and the map that shows it.
PathInv == TreeInv /\ Shown(map)

\* In every state the map shows what the paths lead to.
LEMMA Maps == Spec => []PathInv
<1>1. Init => PathInv
  <2> SUFFICES ASSUME Init PROVE PathInv
    OBVIOUS
  <2>1. TreeInv
    BY TreeInit, Zenon
  <2>2. \A j : ~Live(j)
    <3>1. \A j \in Nodes : node[j].type = "none"
      BY DEF Init, Free
    <3> QED BY <3>1, Zenon DEF Live
  <2>3. map = [q \in DOMAIN map |-> map[q]] /\ DOMAIN map = {}
    BY DEF Init
  <2>4. \A q \in AllPaths : \A j : q # <<>> => ~Leads(q, j)
    BY <2>2, LeadsLost, Zenon
  <2> QED BY <2>1, <2>3, <2>4, Zenon DEF PathInv, Shown
<1>2. PathInv /\ [Next]_vars => PathInv'
  <2> SUFFICES ASSUME PathInv, [Next]_vars PROVE PathInv'
    OBVIOUS
  <2>1. TreeInv'
    BY TreeStep, Zenon DEF PathInv
  <2> QED BY <2>1, MapStep, Zenon DEF PathInv
<1> QED BY <1>1, <1>2, PTL DEF Spec

\* Whatever calls came before, stat, readdir and read answer what the map says
\* of the path: the calls of tmpfs that only look agree with those that change.
THEOREM PathAnswers == Spec => []AnswersAgree
<1>1. PathInv => AnswersAgree
  BY Answers, Zenon DEF PathInv
<1> QED BY <1>1, Maps, PTL

\* The dentries implement the map from paths to files and directories, for any
\* number of dentries, any paths and contents: every call of tmpfs has the effect
\* on the map that PathMap promises, also where memory runs out on the way.
THEOREM PathRefinement == Spec => ImplementsPaths
<1>1. Init => Abstract!Init
  BY Zenon DEF Init, Abstract!Init
<1>2. PathInv /\ PathInv' /\ [Next]_vars => [Abstract!Next]_(Abstract!vars)
  <2> SUFFICES ASSUME PathInv, PathInv', [Next]_vars PROVE [Abstract!Next]_(Abstract!vars)
    OBVIOUS
  <2>1. TreeInv /\ Shown(map) /\ Shown(map)'
    BY Zenon DEF PathInv
  <2>2. CASE UNCHANGED vars
    BY <2>2, Zenon DEF vars, Abstract!vars
  <2>3. CASE Next
    <3>1. heap \in {"ok", "held"} /\ (node' = node => map' = map)
      BY <2>3, Zenon DEF Next
    <3>2. PICK p \in Paths :
            \/ creat(p) /\ call' = "creat"
            \/ mkdir(p) /\ call' = "mkdir"
            \/ unlink(p) /\ call' = "unlink"
            \/ \E q \in Paths : rename(p, q) /\ call' = "rename"
            \/ \E d \in Contents : write(p, d) /\ call' = "write"
      BY <2>3, Zenon DEF Next
    <3>3. creat(p) => Abstract!Creat(p)
      BY <2>1, <3>1, CreatStep, Zenon
    <3>4. mkdir(p) => Abstract!Mkdir(p)
      BY <2>1, <3>1, MkdirStep, Zenon
    <3>5. unlink(p) => Abstract!Unlink(p)
      BY <2>1, <3>1, UnlinkStep, Zenon
    <3>6. ASSUME NEW q \in Paths, rename(p, q) PROVE Abstract!Rename(p, q)
      BY <2>1, <3>1, <3>6, RenameStep, Zenon
    <3>7. ASSUME NEW d \in Contents, write(p, d) PROVE Abstract!Write(p, d)
      BY <2>1, <3>1, <3>7, WriteStep, Zenon
    <3>8. Abstract!Next
      BY <3>1, <3>2, <3>3, <3>4, <3>5, <3>6, <3>7, Zenon DEF Abstract!Next
    <3> QED BY <3>8, Zenon
  <2> QED BY <2>2, <2>3, Zenon
<1> QED BY <1>1, <1>2, Maps, PTL DEF Spec, ImplementsPaths, Abstract!Spec

================================================================================
