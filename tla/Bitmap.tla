--------------------------------- MODULE Bitmap ---------------------------------
(***************************************************************************)
(* src/bitmap.c: a bitmap of Size bits in words of W bits.  A word is the  *)
(* set of its set bits; size_t arithmetic is modulo SizeT.                 *)
(***************************************************************************)
EXTENDS Integers, FiniteSets, FiniteSetsExt

CONSTANTS
  Size,     \* bmp->size
  W,        \* bits of a word (64 in the code)
  SizeT,    \* 2^64 in the code
  Counts    \* lengths asked of bitmap_alloc_range and the *_range operations

\* What the code guarantees of them.
ASSUME BitmapAssumption ==
  /\ Size \in Nat \ {0} /\ W \in Nat \ {0} /\ SizeT \in Nat /\ SizeT > 2 * Size
  /\ Counts \subseteq 0 .. SizeT - 1

VARIABLES
  map,      \* bmp->map
  ret       \* the last call that returned a value: its name, arguments and value

bitmapVars == <<map, ret>>

total_words == (Size + W - 1) \div W
Words == 0 .. total_words - 1
FullWord == 0 .. W - 1
Starts == 0 .. Size

\* The last word is masked when size is no multiple of the word.
ValidBits(i) ==
  IF i = total_words - 1 /\ Size % W # 0 THEN 0 .. (Size % W) - 1 ELSE FullWord

Returned(call, args, val) == [call |-> call, args |-> args, val |-> val]

bitmap_init == [i \in Words |-> {}]

BitmapInit == map = bitmap_init /\ ret = Returned("none", <<>>, 0)

bitmap_test(m, bit) == bit < Size /\ bit % W \in m[bit \div W]

bitmap_set(m, bit) ==
  IF bit >= Size THEN m ELSE [m EXCEPT ![bit \div W] = @ \cup {bit % W}]

bitmap_clear(m, bit) ==
  IF bit >= Size THEN m ELSE [m EXCEPT ![bit \div W] = @ \ {bit % W}]

\* The positions a search visits, in order: words from that of start on that
\* are not skipped as a whole, from the bit of start on in the first of them.
\* Mutant: the bit of start is where the search begins in every word.
Visited_everyWord(m, start, skip) ==
  {b \in 0 .. Size - 1 :
     /\ b \div W >= start \div W
     /\ m[b \div W] # skip
     /\ b % W >= start % W}

Visited(m, start, skip) ==
  {b \in 0 .. Size - 1 :
     /\ b \div W >= start \div W
     /\ m[b \div W] # skip
     /\ b \div W = start \div W => b % W >= start % W}

FirstOf(S) == IF S = {} THEN -1 ELSE Min(S)

bitmap_find_first_zero(m, start) ==
  FirstOf({b \in Visited(m, start, FullWord) : b % W \notin m[b \div W]})

bitmap_find_first_set(m, start) ==
  FirstOf({b \in Visited(m, start, {}) : b % W \in m[b \div W]})

(***************************************************************************)
(* bitmap_alloc_range.  The loop runs while i <= size - count, in size_t;  *)
(* bits at or beyond size read as clear.                                   *)
(***************************************************************************)
LastStart(count) == (Size - count) % SizeT

FreeRun(m, i, count) == \A j \in 0 .. count - 1 : ~bitmap_test(m, (i + j) % SizeT)

bitmap_alloc_range(m, count, start) ==
  IF count = 0 THEN -1
  ELSE FirstOf({i \in start .. LastStart(count) : FreeRun(m, i, count)})

Bits(m) == UNION {{i * W + b : b \in m[i]} : i \in Words}

\* for (...) bitmap_set / bitmap_clear(bmp, start + i)
SetAll(m, start, count) ==
  LET after[n \in 0 .. count] == IF n = 0 THEN m ELSE bitmap_set(after[n - 1], start + (n - 1))
  IN  after[count]

ClearAll(m, start, count) ==
  LET after[n \in 0 .. count] == IF n = 0 THEN m ELSE bitmap_clear(after[n - 1], start + (n - 1))
  IN  after[count]

bitmap_count_set(m) ==
  LET counted[n \in 0 .. total_words] ==
        IF n = 0 THEN 0 ELSE counted[n - 1] + Cardinality(m[n - 1] \cap ValidBits(n - 1))
  IN  counted[total_words]

(***************************************************************************)
(* The operations a caller may invoke.                                     *)
(***************************************************************************)
SetBit(bit) == map' = bitmap_set(map, bit) /\ UNCHANGED ret

ClearBit(bit) == map' = bitmap_clear(map, bit) /\ UNCHANGED ret

SetRange(start, count) == map' = SetAll(map, start, count) /\ UNCHANGED ret

\* bitmap_free_range and bitmap_clear_range: the test of start + i against
\* size is the one bitmap_clear repeats.
FreeRange(start, count) == map' = ClearAll(map, start, count) /\ UNCHANGED ret

AllocRange(count, start) ==
  /\ ret' = Returned("alloc", <<count, start>>, bitmap_alloc_range(map, count, start))
  /\ map' = IF ret'.val = -1 THEN map ELSE SetAll(map, ret'.val, count)

Search(start) ==
  /\ \/ ret' = Returned("zero", <<start>>, bitmap_find_first_zero(map, start))
     \/ ret' = Returned("set", <<start>>, bitmap_find_first_set(map, start))
     \/ ret' = Returned("count", <<>>, bitmap_count_set(map))
  /\ UNCHANGED map

BitmapNext ==
  \/ \E bit \in Starts : SetBit(bit) \/ ClearBit(bit) \/ Search(bit)
  \/ \E start \in Starts, count \in Counts :
       SetRange(start, count) \/ FreeRange(start, count) \/ AllocRange(count, start)

BitmapSpec == BitmapInit /\ [][BitmapNext]_bitmapVars

--------------------------------------------------------------------------------
(***************************************************************************)
(* Properties.                                                             *)
(***************************************************************************)
\* Every operation of src/bitmap.c does to the set of used positions what the
\* abstract first-fit set does, with the same result: words, partial last word
\* and searches that start inside a word included.
Abstract == INSTANCE BitSet WITH used <- Bits(map)
ImplementsBitSet == Abstract!Spec

================================================================================
