--------------------------------- MODULE BitSet ---------------------------------
(***************************************************************************)
(* What the bitmap of src/bitmap.c promises: a set of used positions below *)
(* Size, and a first-fit search for runs of free ones.                     *)
(***************************************************************************)
EXTENDS Integers, FiniteSets

CONSTANT Size

VARIABLES used, ret

Positions == 0 .. Size - 1
Run(i, n) == i .. i + n - 1
Least(S) == IF S = {} THEN -1 ELSE CHOOSE i \in S : \A j \in S : i <= j

FreeRuns(count, start) ==
  {i \in start .. Size - count : count > 0 /\ Run(i, count) \cap used = {}}

\* A value is returned to the caller that asked with these arguments.
Returned(call, args, val) == [call |-> call, args |-> args, val |-> val]

Init == used = {} /\ ret = Returned("none", <<>>, 0)

\* bitmap_set, bitmap_clear and the *_range operations.
Mark(start, count) ==
  used' = used \cup (Run(start, count) \cap Positions) /\ UNCHANGED ret

Unmark(start, count) ==
  used' = used \ Run(start, count) /\ UNCHANGED ret

Alloc(count, start) ==
  /\ ret' = Returned("alloc", <<count, start>>, Least(FreeRuns(count, start)))
  /\ used' = IF ret'.val = -1 THEN used ELSE used \cup Run(ret'.val, count)

\* The searches and the count change nothing.
Query(start) ==
  /\ \/ ret' = Returned("zero", <<start>>, Least({b \in Positions \ used : b >= start}))
     \/ ret' = Returned("set", <<start>>, Least({b \in used : b >= start}))
     \/ ret' = Returned("count", <<>>, Cardinality(used))
  /\ UNCHANGED used

Next ==
  \E start, count \in 0 .. Size :
    Mark(start, count) \/ Unmark(start, count) \/ Alloc(count, start) \/ Query(start)

Spec == Init /\ [][Next]_<<used, ret>>

================================================================================
