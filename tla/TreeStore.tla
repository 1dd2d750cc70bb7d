------------------------------- MODULE TreeStore --------------------------------
(***************************************************************************)
(* What FatFs promises of names: a tree of files and directories, a        *)
(* current directory, and calls that change the tree in one place or       *)
(* answer why not.  A node of the tree is its path with what it is; the    *)
(* root is the empty path and no node.  out is the last call: op, path,    *)
(* to (of a rename), the answer res and the data it returned.              *)
(***************************************************************************)
EXTENDS Integers, Sequences, FiniteSets

CONSTANTS Key(_), IsDots(_), Up(_)   \* the name, "." or "..", and ".." of a component

VARIABLES
  tree,
  cwd,     \* path of the current directory, or Lost
  free,    \* number of free clusters
  out

vars == <<tree, cwd, free, out>>

NoPath == <<<<>>>>
Lost == <<<<>>>>

Node(p) == CHOOSE n \in tree : n.path = p
Exists(p) == \E n \in tree : n.path = p
IsDir(p) == p = <<>> \/ \E n \in tree : n.path = p /\ n.attr = "dir"
Parent(p) == IF p = <<>> THEN p ELSE SubSeq(p, 1, Len(p) - 1)
Under(p, q) == Len(q) >= Len(p) /\ SubSeq(q, 1, Len(p)) = p
Moved(q, p, to) == to \o SubSeq(q, Len(p) + 1, Len(q))

\* The path that a path given to a call means; every component but the last
\* must be a directory.
Enter(p, comp) ==
  IF p = NoPath \/ ~IsDir(p) THEN NoPath
  ELSE IF ~IsDots(comp) THEN Append(p, Key(comp))
  ELSE IF Up(comp) THEN Parent(p) ELSE p

RECURSIVE Resolve(_, _)
Resolve(p, comps) ==
  IF comps = <<>> THEN p ELSE Resolve(Enter(p, Head(comps)), Tail(comps))

Meant(path) == Resolve(IF path.abs THEN <<>> ELSE cwd, path.comps)

\* The last component is "." or "..", or there is none.
Dots(path) == path.comps = <<>> \/ IsDots(path.comps[Len(path.comps)])

\* No last component, or dots that were not found, being in the root directory.
NoName(path) ==
  \/ path.comps = <<>>
  \/ Dots(path) /\ Meant([path EXCEPT !.comps = SubSeq(@, 1, Len(@) - 1)]) = <<>>

\* Why there is nothing at a path.
Missing(path) == IF Meant(path) = NoPath THEN "FR_NO_PATH" ELSE "FR_NO_FILE"

Same == tree' = tree /\ cwd' = cwd

--------------------------------------------------------------------------------
\* A directory cannot take an entry when the volume is full (a name may need two
\* clusters, and a new directory one more), when it is a root directory of fixed
\* size, or when the numbers of short names are used up.
Refused(c, path) ==
  /\ c.res = "FR_DENIED" /\ Same
  /\ free < 3 \/ Parent(Meant(path)) = <<>> \/ path.comps[Len(path.comps)].loss

Stat(c) ==
  LET p == Meant(c.path)
  IN  /\ Same
      /\ IF NoName(c.path) THEN c.res = "FR_INVALID_NAME"
         ELSE IF p = NoPath \/ ~(Dots(c.path) \/ Exists(p)) THEN c.res = Missing(c.path)
         ELSE c.res = "FR_OK" /\ c.data.attr = (IF Dots(c.path) THEN "dir" ELSE Node(p).attr)
              /\ ~Dots(c.path) => c.data.size = Node(p).size

Creat(c) ==
  LET p == Meant(c.path)
  IN  IF NoName(c.path) THEN Same /\ c.res = "FR_INVALID_NAME"
      ELSE IF p = NoPath THEN Same /\ c.res = "FR_NO_PATH"
      ELSE IF Dots(c.path) \/ Exists(p) THEN Same /\ c.res = "FR_EXIST"
      ELSE \/ Refused(c, c.path)
           \/ /\ c.res = "FR_DISK_ERR" /\ cwd' = cwd
              /\ tree' = tree \cup {[path |-> p, attr |-> "file", size |-> 0, clust |-> 0]}

\* The first missing directory of the path is made, and then the answer is an
\* error; FR_OK means that nothing was to be made.
Mkdir(c) ==
  LET at(k) == [c.path EXCEPT !.comps = SubSeq(@, 1, k)]
      bad(k) == Dots(at(k)) \/ Meant(at(k)) = NoPath \/ ~Exists(Meant(at(k)))
      levels == {k \in 1 .. Len(c.path.comps) : bad(k)}
      first == at(CHOOSE k \in levels : \A j \in levels : k <= j)
  IN  IF c.path.comps = <<>> THEN Same /\ c.res = "FR_INVALID_NAME"
      ELSE IF levels = {} THEN Same /\ c.res = "FR_OK"
      ELSE IF Meant(first) = NoPath THEN Same /\ c.res = "FR_NO_PATH"
      ELSE IF Dots(first) THEN Same /\ c.res = "FR_INVALID_NAME"
      ELSE \/ Refused(c, first)
           \/ /\ c.res = "FR_DISK_ERR" /\ cwd' = cwd
              /\ \E n \in tree' : /\ n.path = Meant(first) /\ n.attr = "dir"
                                  /\ tree' = tree \cup {n}
                                  /\ \A m \in tree : m.clust # n.clust

Unlink(c) ==
  LET p == Meant(c.path)
  IN  IF p = NoPath THEN Same /\ c.res = "FR_NO_PATH"
      ELSE IF Dots(c.path) THEN Same /\ c.res = "FR_INVALID_NAME"
      ELSE IF ~Exists(p) THEN Same /\ c.res = "FR_NO_FILE"
      ELSE IF Node(p).attr = "rdo" \/ p = cwd \/ \E n \in tree : n.path # p /\ Under(p, n.path)
             THEN Same /\ c.res = "FR_DENIED"
      ELSE c.res = "FR_DISK_ERR" /\ cwd' = cwd /\ tree' = tree \ {Node(p)}

\* A directory that is moved below itself is gone from the tree.
Rename(c) ==
  LET p == Meant(c.path)
      q == Meant(c.to)
      kept == {n \in tree : ~Under(p, n.path)}
      carried == {[n EXCEPT !.path = Moved(@, p, q)] : n \in tree \ kept}
      below == p # q /\ Under(p, q)
  IN  IF p = NoPath THEN Same /\ c.res = "FR_NO_PATH"
      ELSE IF Dots(c.path) THEN Same /\ c.res = "FR_INVALID_NAME"
      ELSE IF ~Exists(p) THEN Same /\ c.res = "FR_NO_FILE"
      ELSE IF q = NoPath THEN Same /\ c.res = "FR_NO_PATH"
      ELSE IF Dots(c.to) THEN Same /\ c.res \in {"FR_INVALID_NAME", "FR_EXIST"}
      ELSE IF Exists(q) /\ p # q THEN Same /\ c.res = "FR_EXIST"
      ELSE \/ Refused(c, c.to)
           \/ /\ c.res = "FR_DISK_ERR"
              /\ tree' = kept \cup IF below THEN {} ELSE carried
              /\ cwd' = IF cwd = Lost \/ ~Under(p, cwd) THEN cwd
                        ELSE IF below THEN Lost ELSE Moved(cwd, p, q)

Readdir(c) ==
  LET p == Meant(c.path)
      in == {n \in tree : n.path # <<>> /\ Parent(n.path) = p}
  IN  /\ Same
      /\ IF p = NoPath \/ ~IsDir(p) THEN c.res = "FR_NO_PATH"
         ELSE /\ c.res = "FR_OK" /\ Len(c.data) = Cardinality(in)
              /\ {<<c.data[i].fname, c.data[i].attr, c.data[i].size>> : i \in DOMAIN c.data}
                   = {<<n.path[Len(n.path)], n.attr, n.size>> : n \in in}

Chdir(c) ==
  LET p == Meant(c.path)
  IN  /\ tree' = tree
      /\ IF p = NoPath \/ ~IsDir(p) THEN cwd' = cwd /\ c.res = "FR_NO_PATH"
         ELSE cwd' = p /\ c.res = "FR_OK"

RECURSIVE Cells(_)
Cells(p) == IF p = <<>> THEN 0 ELSE 1 + Len(Head(p)) + Cells(Tail(p))

\* The path, if the buffer has room for it; the NUL behind it is then written
\* too, behind the buffer when the path just fits.
Getcwd(c) ==
  /\ Same
  /\ IF Cells(cwd) > c.path THEN c.res = "FR_NOT_ENOUGH_CORE"
     ELSE /\ c.res = "FR_OK" /\ c.data.path = cwd
          /\ c.data.last = IF cwd = <<>> THEN 1 ELSE Cells(cwd)

Getfree(c) == Same /\ c.res = "FR_OK" /\ c.data = free

\* Whatever a call does in a lost current directory, the tree does not grow.
Adrift(c) == tree' \subseteq tree

Does(c) ==
  IF cwd = Lost /\ (c.op = "getcwd" \/ (c.op # "getfree" /\ ~c.path.abs)
                    \/ (c.op = "rename" /\ ~c.to.abs)) THEN Adrift(c)
  ELSE CASE c.op = "stat"    -> Stat(c)
         [] c.op = "creat"   -> Creat(c)
         [] c.op = "mkdir"   -> Mkdir(c)
         [] c.op = "unlink"  -> Unlink(c)
         [] c.op = "rename"  -> Rename(c)
         [] c.op = "readdir" -> Readdir(c)
         [] c.op = "chdir"   -> Chdir(c)
         [] c.op = "getcwd"  -> Getcwd(c)
         [] c.op = "getfree" -> Getfree(c)

Init == cwd = <<>>
Spec == Init /\ [][Does(out')]_vars

================================================================================
