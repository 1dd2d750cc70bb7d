--------------------------------- MODULE PathMap --------------------------------
(***************************************************************************)
(* What an in-memory file system promises its caller: a map from paths to  *)
(* files and directories.  A call that succeeds has its effect on the      *)
(* paths it names and on what lies below them, and on nothing else; a call *)
(* that fails has none, except where memory ran out on the way.            *)
(***************************************************************************)
EXTENDS Integers, Sequences

CONSTANTS
  Paths,      \* paths of the calls: [abs, comps, slash]
  Contents    \* what is written: sequences, the empty one included

VARIABLES
  map,    \* components -> [type, data]; the root is not in it
  heap,   \* "ok", "held" (its lock is left held), "hung" (a call waits for
          \* the lock), "wild" (a call goes on with freed memory)
  call,   \* the last call
  res     \* its answer

vars == <<map, heap, call, res>>

Below(p, q) == Len(p) <= Len(q) /\ SubSeq(q, 1, Len(p)) = p
Under(p) == {q \in DOMAIN map : Below(p, q)}
Without(S) == [q \in DOMAIN map \ S |-> map[q]]
New(t) == [type |-> t, data |-> <<>>]

\* Every level of p exists, the levels that are new are directories; t is the
\* type of the last.
With(p, t) ==
  [q \in DOMAIN map \cup {SubSeq(p, 1, k) : k \in 1 .. Len(p)} |->
     IF q \in DOMAIN map THEN map[q] ELSE New(IF q = p THEN t ELSE "DIR")]

\* What is under p is under q instead, and nothing else is.  Moved below itself
\* it cannot be reached any more.
Moved(p, q) ==
  LET kept == DOMAIN map \ (Under(p) \cup Under(q))
      came == IF Below(p, q) THEN {} ELSE {q \o SubSeq(r, Len(p) + 1, Len(r)) : r \in Under(p)}
  IN  [r \in kept \cup came |->
         IF r \in came THEN map[p \o SubSeq(r, Len(q) + 1, Len(r))] ELSE map[r]]

Init == map = << >> /\ heap = "ok" /\ call = "none" /\ res = "OK"

\* Only a call that finds no memory leaves the lock held, and only a call that
\* hangs gives no answer.
Fate == /\ heap' = "held" /\ heap # "held" => res' = "NOMEM"
        /\ heap' = "hung" <=> res' = "none"
        /\ heap' # "wild" /\ (heap' = "ok" => heap = "ok")

\* A call that makes nothing hangs only where the lock was left held before it.
Waits == heap' = "hung" => heap = "held"

Make(p, t) ==
  /\ Fate
  /\ \/ map' = map /\ (res' = "OK" => p.comps \in DOMAIN map)
     \/ /\ res' = "OK" /\ map' = With(p.comps, t)
     \/ /\ res' \in {"NOMEM", "TOOLONG", "none"}
        /\ \E k \in 1 .. Len(p.comps) - 1 : map' = With(SubSeq(p.comps, 1, k), "DIR")

Creat(p) == Make(p, IF p.slash THEN "DIR" ELSE "FILE")
Mkdir(p) == Make(p, "DIR") /\ (res' = "OK" => map'[p.comps].type = "DIR")

Unlink(p) ==
  /\ Fate /\ Waits
  /\ \/ res' # "OK" /\ map' = map
     \/ /\ res' = "OK" /\ p.comps \in DOMAIN map /\ map' = Without(Under(p.comps))
        /\ map[p.comps].type = "DIR" => Under(p.comps) = {p.comps}

\* Freed memory is used when a node takes its own place, or that of the file it
\* is in.
Rename(p, q) ==
  /\ Waits
  /\ \/ Fate /\ res' # "OK" /\ map' = map
     \/ Fate /\ res' = "OK" /\ p.comps # q.comps /\ map' = Moved(p.comps, q.comps)
     \/ Fate /\ res' = "NOMEM" /\ map' = Without(Under(q.comps))
     \/ /\ heap' = "wild" /\ map' = map /\ res' = "none"
        /\ p.comps = q.comps \/ p.comps = Append(q.comps, p.comps[Len(p.comps)])

\* An empty file is as good as one that finds no memory.
Write(p, d) ==
  /\ p.comps \in DOMAIN map /\ Waits
  /\ \/ res' # "OK" /\ map' = map /\ (heap' # "wild" => Fate)
     \/ /\ res' = "OK" /\ map' = [map EXCEPT ![p.comps].data = d]
        /\ map[p.comps].type = "FILE" /\ heap' = IF d = <<>> THEN "held" ELSE heap

Next ==
  /\ heap \in {"ok", "held"}
  /\ \E p \in Paths :
       \/ Creat(p) /\ call' = "creat"
       \/ Mkdir(p) /\ call' = "mkdir"
       \/ Unlink(p) /\ call' = "unlink"
       \/ \E q \in Paths : Rename(p, q) /\ call' = "rename"
       \/ \E d \in Contents : Write(p, d) /\ call' = "write"

Spec == Init /\ [][Next]_vars

================================================================================
