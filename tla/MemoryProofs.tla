--------------------------------- MODULE MemoryProofs --------------------------
(***************************************************************************)
(* The heap hands out no page twice and loses none, for any memory size,   *)
(* number of CPUs and sizes; no two processors are started on one stack,   *)
(* for any table of processors; and the page bitmap under the heap is a    *)
(* first-fit set of bits, for any number of bits and any size of a word.   *)
(*                                                                         *)
(* The heap's inductive invariant says what the bitmap and the mappings    *)
(* are at every place in the critical section of mm_spinlock: what they    *)
(* should be between calls, plus or minus the area the holder works on.    *)
(* The stacks' one says that the slots are filled as smp_init counted them *)
(* and that a processor past the trampoline has the stack of its slot. The *)
(* bitmap's says that its words are arrays of bits; the rest is what the   *)
(* scans find: the first word, and in it the first bit, is the first       *)
(* position.                                                               *)
(***************************************************************************)
EXTENDS Heap, SmpStart, Bitmap, FiniteSetTheorems, WellFoundedInduction, TLAPS

--------------------------------------------------------------------------------
(***************************************************************************)
(* Numbers and rounding.                                                   *)
(***************************************************************************)
\* Every set of numbers has a least one.
LEMMA LeastNat ==
  ASSUME NEW T, T \subseteq Nat, T # {}
  PROVE  \E x \in T : \A y \in T : x <= y
<1> DEFINE R == OpToRel(<, Nat)
<1>1. IsWellFoundedOn(R, Nat)
  BY NatLessThanWellFounded, Zenon
<1>2. \A x, y \in Nat : x < y => <<x, y>> \in R
  BY DEF OpToRel
<1> HIDE DEF R
<1>3. PICK x \in T : \A y \in T : <<y, x>> \notin R
  BY <1>1, WFMin, Zenon
<1>4. \A y \in T : ~(y < x)
  BY <1>2, <1>3, Zenon
<1> QED BY <1>4

\* A word starts where the one before it ends.
LEMMA WordStep ==
  ASSUME NEW w \in Nat, w > 0, NEW i \in Nat, NEW j \in Nat, i < j
  PROVE  i * w + w <= j * w
OBVIOUS

\* Quotient and remainder make up the number.
LEMMA Parts ==
  ASSUME NEW w \in Nat, w > 0, NEW b \in Nat
  PROVE  b = w * (b \div w) + (b % w)
OBVIOUS

\* Quotient and remainder.
LEMMA Divided ==
  ASSUME NEW w \in Nat, w > 0, NEW b \in Nat
  PROVE  b \div w \in Nat /\ b % w \in 0 .. w - 1 /\ b = (b \div w) * w + (b % w)
<1>1. b % w \in 0 .. w - 1
  OBVIOUS
<1>2. b \div w \in Int /\ b \div w >= 0
  OBVIOUS
<1>3. b = w * (b \div w) + (b % w)
  BY Parts
<1>4. w * (b \div w) = (b \div w) * w
  BY <1>2
<1> QED BY <1>1, <1>2, <1>3, <1>4

\* They are the only ones.
LEMMA OneQuotient ==
  ASSUME NEW w \in Nat, w > 0, NEW i \in Nat, NEW j \in Nat,
         NEW r \in 0 .. w - 1, NEW s \in 0 .. w - 1, i * w + r = j * w + s
  PROVE  i = j /\ r = s
<1>1. CASE i < j
  BY WordStep, <1>1
<1>2. CASE j < i
  BY WordStep, <1>2
<1> QED BY <1>1, <1>2


\* w is such a function up to n: b at 0, H of its value at d[x] elsewhere.
UpTo(w, n, b, H, d) ==
  /\ w \in [0 .. n -> Nat]
  /\ \A x \in 0 .. n : w[x] = IF x = 0 THEN b ELSE H[w[d[x]]]

\* f is one everywhere.
Everywhere(f, b, H, d) ==
  f \in [Nat -> Nat] /\ \A x \in Nat : f[x] = IF x = 0 THEN b ELSE H[f[d[x]]]

\* d[x] is a number below x.
Smaller(d) == d \in [Nat -> Nat] /\ \A x \in Nat : x # 0 => d[x] < x

\* A function on the numbers can be defined by what it is at a smaller number.
LEMMA Recursion ==
  ASSUME NEW b \in Nat, NEW H \in [Nat -> Nat], NEW d, Smaller(d)
  PROVE  \E f : Everywhere(f, b, H, d)
<1> d \in [Nat -> Nat] /\ \A x \in Nat : x # 0 => d[x] < x
  BY Zenon DEF Smaller
<1> DEFINE Good(w, n) == UpTo(w, n, b, H, d)
<1>0. \A n \in Nat : \A x \in 0 .. n : x \in Nat /\ (x # 0 => d[x] \in 0 .. n /\ d[x] \in 0 .. x - 1)
  OBVIOUS
<1>1. \A n \in Nat : \E w : Good(w, n)
  <2> DEFINE T == {n \in Nat : ~\E w : Good(w, n)}
  <2>1. SUFFICES ASSUME T # {} PROVE FALSE
    BY Zenon
  <2>2. PICK k \in T : \A j \in T : k <= j
    BY <2>1, LeastNat, Zenon
  <2>3. CASE k = 0
    <3> DEFINE e == [x \in 0 .. 0 |-> b]
    <3>1. Good(e, 0)
      BY DEF UpTo
    <3> QED BY <2>2, <2>3, <3>1, Zenon
  <2>4. CASE k # 0
    <3>1. k \in Nat /\ k - 1 \in Nat /\ ~(k <= k - 1)
      BY <2>2, <2>4
    <3>2. PICK w : Good(w, k - 1)
      BY <2>2, <3>1, Zenon
    <3> DEFINE e == [x \in 0 .. k |-> IF x = k THEN H[w[d[k]]] ELSE w[x]]
    <3>3. \A x \in 0 .. k : x # k => x \in 0 .. k - 1
      BY <3>1
    <3>4. d[k] \in 0 .. k - 1
      BY <1>0, <2>4, <3>1
    <3>5. e \in [0 .. k -> Nat]
      <4>1. w \in [0 .. k - 1 -> Nat]
        BY <3>2, Zenon DEF UpTo
      <4>2. H[w[d[k]]] \in Nat
        BY <3>4, <4>1, Zenon
      <4>3. \A x \in 0 .. k : x # k => w[x] \in Nat
        BY <3>3, <4>1, Zenon
      <4> QED BY <4>2, <4>3, Zenon
    <3>6. ASSUME NEW x \in 0 .. k
          PROVE  e[x] = IF x = 0 THEN b ELSE H[e[d[x]]]
      <4>1. x # 0 => d[x] \in 0 .. k /\ d[x] # k
        BY <3>1
      <4>2. CASE x = k
        <5>1. e[x] = H[w[d[k]]] /\ e[d[x]] = w[d[x]]
          BY <2>4, <4>1, <4>2, Zenon
        <5> QED BY <2>4, <4>2, <5>1, Zenon
      <4>3. CASE x # k
        <5>1. x \in 0 .. k - 1 /\ e[x] = w[x]
          BY <3>3, <4>3, Zenon
        <5>2. w[x] = IF x = 0 THEN b ELSE H[w[d[x]]]
          BY <3>2, <5>1, Zenon DEF UpTo
        <5>3. x # 0 => e[d[x]] = w[d[x]]
          BY <4>1, Zenon
        <5> QED BY <5>1, <5>2, <5>3, Zenon
      <4> QED BY <4>2, <4>3, Zenon
    <3>7. Good(e, k)
      BY <3>5, <3>6, Zenon DEF UpTo
    <3> QED BY <2>2, <3>7, Zenon
  <2> QED BY <2>3, <2>4, Zenon
<1>2. \A n, m \in Nat : \A w, v : Good(w, n) /\ Good(v, m) => \A z \in 0 .. n : z \in 0 .. m => w[z] = v[z]
  <2> SUFFICES ASSUME NEW n \in Nat, NEW m \in Nat, NEW w, NEW v, Good(w, n), Good(v, m)
               PROVE  \A z \in 0 .. n : z \in 0 .. m => w[z] = v[z]
    OBVIOUS
  <2> DEFINE T == {x \in Nat : x \in 0 .. n /\ x \in 0 .. m /\ w[x] # v[x]}
  <2>1. SUFFICES ASSUME T # {} PROVE FALSE
    BY <1>0, Zenon
  <2>2. PICK x \in T : \A y \in T : x <= y
    <3>1. T \subseteq Nat
      BY Zenon
    <3> QED BY <2>1, <3>1, LeastNat, Zenon
  <2>3. /\ w[x] = IF x = 0 THEN b ELSE H[w[d[x]]]
        /\ v[x] = IF x = 0 THEN b ELSE H[v[d[x]]]
    BY <2>2, Zenon DEF UpTo
  <2>4. x # 0 /\ w[d[x]] # v[d[x]]
    BY <2>2, <2>3, Zenon
  <2>5. d[x] \in Nat /\ d[x] \in 0 .. n /\ d[x] \in 0 .. m /\ ~(x <= d[x])
    <3>1. x \in Nat /\ x \in 0 .. n /\ x \in 0 .. m
      BY <2>2, Zenon
    <3>2. d[x] \in Nat /\ d[x] < x
      BY <2>4, <3>1, Zenon
    <3> QED BY <3>1, <3>2
  <2> QED BY <2>2, <2>4, <2>5, Zenon
<1> DEFINE Chosen(x) == CHOOSE w : Good(w, x)
           f == [x \in Nat |-> Chosen(x)[x]]
<1>3. \A x \in Nat : Good(Chosen(x), x)
  BY <1>1, Zenon
<1>4. \A x \in Nat : x \in 0 .. x
  OBVIOUS
<1>5. f \in [Nat -> Nat]
  BY <1>3, <1>4, Zenon DEF UpTo
<1>6. ASSUME NEW x \in Nat
      PROVE  f[x] = IF x = 0 THEN b ELSE H[f[d[x]]]
  <2>1. Chosen(x)[x] = IF x = 0 THEN b ELSE H[Chosen(x)[d[x]]]
    BY <1>3, <1>4, Zenon DEF UpTo
  <2>2. CASE x # 0
    <3>1. d[x] \in Nat /\ d[x] \in 0 .. x /\ d[x] \in 0 .. d[x]
      BY <2>2
    <3>2. Good(Chosen(x), x) /\ Good(Chosen(d[x]), d[x])
      BY <1>3, <3>1, Zenon
    <3> HIDE DEF Chosen
    <3>3. Chosen(x)[d[x]] = Chosen(d[x])[d[x]]
      <4>1. PICK y, w, v : y = d[x] /\ w = Chosen(x) /\ v = Chosen(d[x])
        BY Zenon
      <4>2. y \in Nat /\ Good(w, x) /\ Good(v, y) /\ y \in 0 .. x /\ y \in 0 .. y
        BY <3>1, <3>2, <4>1, Zenon
      <4>3. w[y] = v[y]
        BY <1>2, <4>2
      <4> QED BY <4>1, <4>3, Zenon
    <3>4. f[x] = Chosen(x)[x] /\ f[d[x]] = Chosen(d[x])[d[x]]
      BY <3>1, Zenon
    <3> QED BY <2>1, <2>2, <3>3, <3>4, Zenon
  <2>3. CASE x = 0
    BY <2>1, <2>3, Zenon
  <2> QED BY <2>2, <2>3, Zenon
<1> HIDE DEF f
<1> QED BY <1>5, <1>6, Zenon DEF Everywhere

\* fls of src/inc/page.h is defined everywhere.
LEMMA FlsIs ==
  /\ fls[0] = 0
  /\ \A x \in Nat : x # 0 => fls[x] = 1 + fls[x \div 2]
<1> DEFINE F(f, x) == IF x = 0 THEN 0 ELSE 1 + f[x \div 2]
           d == [x \in Nat |-> x \div 2]
           H == [y \in Nat |-> 1 + y]
<1>0. 0 \in Nat
  OBVIOUS
<1>1. H \in [Nat -> Nat] /\ Smaller(d)
  BY DEF Smaller
<1>2. \E f : Everywhere(f, 0, H, d)
  <2> HIDE DEF d, H
  <2> QED BY <1>1, <1>0, Recursion, Zenon
<1>3. PICK f \in [Nat -> Nat] : \A x \in Nat : f[x] = IF x = 0 THEN 0 ELSE H[f[d[x]]]
  BY <1>2, Zenon DEF Everywhere
<1>4. \A x \in Nat : f[x] = F(f, x)
  <2>1. \A x \in Nat : d[x] = x \div 2 /\ d[x] \in Nat
    BY <1>1, Zenon DEF Smaller
  <2>2. \A x \in Nat : H[f[d[x]]] = 1 + f[d[x]]
    BY <2>1, Zenon
  <2> QED BY <1>3, <2>1, <2>2, Zenon
<1>5. f = [x \in Nat |-> F(f, x)]
  BY <1>4, Zenon
<1>6. fls = [x \in Nat |-> F(fls, x)]
  BY <1>5, Zenon DEF fls
<1>7. \A x \in Nat : fls[x] = F(fls, x)
  BY <1>6, Zenon
<1> QED BY <1>7, <1>0, Zenon

\* And so is order_to_pages.
LEMMA PagesIs ==
  /\ order_to_pages[0] = 1
  /\ \A k \in Nat : k # 0 => order_to_pages[k] = 2 * order_to_pages[k - 1]
<1> DEFINE F(f, x) == IF x = 0 THEN 1 ELSE 2 * f[x - 1]
           d == [x \in Nat |-> IF x = 0 THEN 0 ELSE x - 1]
           H == [y \in Nat |-> 2 * y]
<1>1. H \in [Nat -> Nat] /\ Smaller(d)
  BY DEF Smaller
<1>2. \E f : Everywhere(f, 1, H, d)
  <2> HIDE DEF d, H
  <2>1. PICK b : b = 1
    BY Zenon
  <2>2. b \in Nat
    BY <2>1
  <2>3. \E f : Everywhere(f, b, H, d)
    BY <1>1, <2>2, Recursion, Zenon
  <2> QED BY <2>1, <2>3, Zenon
<1>3. PICK f \in [Nat -> Nat] : \A x \in Nat : f[x] = IF x = 0 THEN 1 ELSE H[f[d[x]]]
  BY <1>2, Zenon DEF Everywhere
<1>4. \A x \in Nat : f[x] = F(f, x)
  <2>1. \A x \in Nat : d[x] \in Nat /\ (x # 0 => d[x] = x - 1)
    BY <1>1, Zenon DEF Smaller
  <2>2. \A x \in Nat : H[f[d[x]]] = 2 * f[d[x]]
    BY <2>1, Zenon
  <2> QED BY <1>3, <2>1, <2>2, Zenon
<1>5. f = [x \in Nat |-> F(f, x)]
  BY <1>4, Zenon
<1>6. order_to_pages = [x \in Nat |-> F(order_to_pages, x)]
  BY <1>5, Zenon DEF order_to_pages
<1>7. \A x \in Nat : order_to_pages[x] = F(order_to_pages, x)
  BY <1>6, Zenon
<1>8. 0 \in Nat
  OBVIOUS
<1> QED BY <1>7, <1>8, Zenon

\* fls is a number.
LEMMA FlsNat == \A x \in Nat : fls[x] \in Nat
<1> DEFINE T == {x \in Nat : fls[x] \notin Nat}
<1>1. SUFFICES ASSUME T # {} PROVE FALSE
  BY Zenon
<1>2. PICK x \in T : \A y \in T : x <= y
  <2>1. T \subseteq Nat
    BY Zenon
  <2> QED BY <1>1, <2>1, LeastNat, Zenon
<1>3. x \in Nat /\ x # 0 /\ x \div 2 \in Nat /\ ~(x <= x \div 2)
  BY <1>2, FlsIs
<1>4. fls[x \div 2] \in Nat /\ fls[x] = 1 + fls[x \div 2]
  BY <1>2, <1>3, FlsIs, Zenon
<1>5. fls[x] \in Nat
  BY <1>4
<1> QED BY <1>2, <1>5, Zenon

\* fls undoes order_to_pages: the order of a power of two pages is its exponent.
LEMMA OrderOf == \A k \in Nat : order_to_pages[k] \in Nat \ {0} /\ fls[order_to_pages[k] - 1] = k
<1> DEFINE P(k) == order_to_pages[k] \in Nat \ {0} /\ fls[order_to_pages[k] - 1] = k
           T == {k \in Nat : ~P(k)}
<1>1. SUFFICES ASSUME T # {} PROVE FALSE
  BY Zenon
<1>2. PICK k \in T : \A j \in T : k <= j
  <2>1. T \subseteq Nat
    BY Zenon
  <2> QED BY <1>1, <2>1, LeastNat, Zenon
<1>3. CASE k = 0
  <2>1. P(0)
    BY PagesIs, FlsIs
  <2> QED BY <1>2, <1>3, <2>1, Zenon
<1>4. CASE k # 0
  <2>1. k \in Nat /\ k - 1 \in Nat /\ ~(k <= k - 1)
    BY <1>2, <1>4
  <2>2. P(k - 1) /\ order_to_pages[k] = 2 * order_to_pages[k - 1]
    BY <1>2, <1>4, <2>1, PagesIs, Zenon
  <2>3. PICK p, q : p = order_to_pages[k - 1] /\ q = order_to_pages[k]
    BY Zenon
  <2>4. p \in Nat \ {0} /\ fls[p - 1] = k - 1 /\ q = 2 * p
    BY <2>2, <2>3, Zenon
  <2>5. q \in Nat \ {0} /\ q - 1 \in Nat /\ q - 1 # 0 /\ (q - 1) \div 2 = p - 1
    BY <2>4
  <2>6. fls[q - 1] = 1 + fls[p - 1]
    BY <2>5, FlsIs, Zenon
  <2>7. fls[q - 1] = k
    BY <2>1, <2>4, <2>6
  <2> QED BY <1>2, <2>3, <2>5, <2>7, Zenon
<1> QED BY <1>3, <1>4, Zenon

\* The order of a request.
LEMMA OrderNat == \A s \in Nat : size_to_order(s) \in Nat
<1> SUFFICES ASSUME NEW s \in Nat PROVE size_to_order(s) \in Nat
  OBVIOUS
<1>1. CASE s = 0
  BY <1>1 DEF size_to_order
<1>2. CASE s # 0
  <2> DEFINE q == (s + PageBytes - 1) \div PageBytes
  <2>1. PageBytes \in Nat /\ PageBytes > 0 /\ s + PageBytes - 1 \in Nat /\ s + PageBytes - 1 >= PageBytes
    BY <1>2, HeapAssumption
  <2>2. q \in Nat /\ q > 0
    <3>1. PICK a, r : a = q /\ r = (s + PageBytes - 1) % PageBytes
      BY Zenon
    <3>2. a \in Nat /\ r \in 0 .. PageBytes - 1 /\ s + PageBytes - 1 = a * PageBytes + r
      BY <2>1, <3>1, Divided, Zenon
    <3>3. CASE a = 0
      <4>1. a * PageBytes = 0
        BY <2>1, <3>3
      <4> QED BY <2>1, <3>2, <4>1
    <3> QED BY <3>1, <3>2, <3>3
  <2> HIDE DEF q
  <2>3. q - 1 \in Nat
    BY <2>2
  <2>4. fls[q - 1] \in Nat
    BY <2>3, FlsNat, Zenon
  <2> QED BY <1>2, <2>4, Zenon DEF size_to_order, q
<1> QED BY <1>1, <1>2, Zenon

\* The rounding that kfree repeats (size_to_order of whole pages) gives back the
\* length kmalloc took.
THEOREM RoundedOnce ==
  \A n \in Lengths : n \in 1 .. NPages /\ order_to_pages[size_to_order(n * PageBytes)] = n
<1> SUFFICES ASSUME NEW n \in Lengths
             PROVE  n \in 1 .. NPages /\ order_to_pages[size_to_order(n * PageBytes)] = n
  OBVIOUS
<1>0. PageBytes \in Nat /\ PageBytes > 0 /\ NPages \in Nat /\ Sizes \subseteq Nat
  BY HeapAssumption
<1>1. PICK k \in Nat : n = order_to_pages[k]
  BY <1>0, OrderNat, Zenon DEF Lengths
<1>2. n \in Nat \ {0} /\ fls[n - 1] = k
  BY <1>1, OrderOf, Zenon
<1>3. n <= NPages
  BY SizesFit
<1>4. /\ n * PageBytes \in Nat /\ n * PageBytes # 0
      /\ n * PageBytes + PageBytes - 1 = n * PageBytes + (PageBytes - 1)
      /\ PageBytes - 1 \in 0 .. PageBytes - 1
  BY <1>0, <1>2
<1>5. (n * PageBytes + PageBytes - 1) \div PageBytes = n
  <2>1. n * PageBytes + (PageBytes - 1) \in Nat
    BY <1>0, <1>4
  <2>2. PICK b, q, r : /\ b = n * PageBytes + (PageBytes - 1)
                       /\ q = b \div PageBytes /\ r = b % PageBytes
    BY Zenon
  <2>3. q \in Nat /\ r \in 0 .. PageBytes - 1 /\ b = q * PageBytes + r
    BY <1>0, <2>1, <2>2, Divided, Zenon
  <2>4. q = n
    BY <1>0, <1>2, <1>4, <2>2, <2>3, OneQuotient
  <2> QED BY <1>4, <2>2, <2>4, Zenon
<1>6. size_to_order(n * PageBytes) = fls[n - 1]
  BY <1>4, <1>5, Zenon DEF size_to_order
<1>7. n \in 1 .. NPages
  BY <1>0, <1>2, <1>3
<1> QED BY <1>1, <1>2, <1>6, <1>7, Zenon

--------------------------------------------------------------------------------
(***************************************************************************)
(* The heap.                                                               *)
(***************************************************************************)
Inside == {"scan", "mark", "map", "fault", "record", "find", "unmap"}

Types ==
  /\ mm_spinlock \in Contexts \cup {NoOne}
  /\ at \in [Contexts -> Out \cup {"lock", "flock"} \cup Inside]
  /\ req \in [Contexts -> Sizes \cup {0}]
  /\ rng \in [Contexts -> [start : Nat, n : Nat]]
  /\ done \in [Contexts -> Nat]
  /\ pool \in Nat /\ IsFiniteSet(areas)
  /\ areas \subseteq [start : Nat, n : Lengths]
  /\ bits \subseteq Pages

\* Only the holder is in the critical section.
Exclusive == \A x \in Contexts : at[x] \in Inside => mm_spinlock = x

\* Nobody holds or gives up what is not on vmap_area_list, and nobody gives up
\* what another one holds or gives up.
Givers == {x \in Contexts : at[x] \in {"flock", "find"}}
Handed ==
  /\ owned \subseteq areas
  /\ \A x \in Givers : rng[x] \in areas \ owned
  /\ \A x, y \in Givers : x # y => rng[x] # rng[y]

Live == UNION {AreaPages(a) : a \in areas}
Fixed == (0 .. Reserved - 1) \cup TablePages

Apart ==
  /\ \A a, b \in areas : a # b => AreaPages(a) \cap AreaPages(b) = {}
  /\ \A a \in areas : AreaPages(a) \cap Fixed = {} /\ AreaPages(a) \subseteq Pages

Counted == Cardinality(areas) + pool = PoolSize
Clean == bits = Fixed \cup Live /\ mapped = Live /\ Counted

\* The area the holder is working on, apart from everything else.
Fresh(x) ==
  /\ rng[x].n \in Lengths /\ AreaPages(rng[x]) \subseteq Pages
  /\ AreaPages(rng[x]) \cap (Fixed \cup Live) = {}

Stage(x) ==
  /\ at[x] \in {"scan", "find"} => Clean
  /\ at[x] = "mark" => Clean /\ Fresh(x)
  /\ at[x] = "map" =>
       /\ Fresh(x) /\ done[x] < rng[x].n /\ Counted
       /\ bits = Fixed \cup Live \cup AreaPages(rng[x])
       /\ mapped = Live \cup AreaPages(Area(rng[x].start, done[x]))
  /\ at[x] = "record" =>
       /\ Fresh(x) /\ Counted
       /\ bits = Fixed \cup Live \cup AreaPages(rng[x])
       /\ mapped = Live \cup AreaPages(rng[x])
  /\ at[x] = "unmap" =>
       /\ Fresh(x) /\ Cardinality(areas) + pool + 1 = PoolSize
       /\ bits = Fixed \cup Live /\ mapped = Live \cup AreaPages(rng[x])

\* What the calls leave behind in done.
Reset == \A x \in Contexts : at[x] \in Out \cup {"lock", "scan", "mark"} => done[x] = 0

InLock ==
  /\ mm_spinlock = NoOne => Clean
  /\ \A x \in Contexts : mm_spinlock = x => Stage(x)

HeapInv == Types /\ Exclusive /\ Handed /\ Apart /\ Reset /\ InLock

--------------------------------------------------------------------------------
(***************************************************************************)
(* Lemmas on the operators.                                                *)
(***************************************************************************)

\* NoOne, the value of a free mm_spinlock, is no context.
LEMMA NoOneElse == NoOne \notin Contexts
  BY Zenon DEF NoOne, Contexts

\* A nonempty set of natural numbers has a least element, which Min is.
LEMMA MinIn ==
  ASSUME NEW T, T \subseteq Nat, T # {}
  PROVE  Min(T) \in T
<1>1. PICK m \in T : \A n \in T : ~(<<n, m>> \in OpToRel(<, Nat))
  BY WFMin, NatLessThanWellFounded, Zenon
<1>2. \A n \in T : ~(n < m)
  BY <1>1, Zenon DEF OpToRel
<1>3. \A n \in T : m =< n
  BY <1>2
<1> QED BY <1>3, Zenon DEF Min

\* The run alloc_pages takes lies in memory and is clear.
LEMMA RunFits ==
  ASSUME NEW n \in 1 .. NPages, Fits(n) # {}
  PROVE  /\ Min(Fits(n)) \in Nat
         /\ AreaPages(Area(Min(Fits(n)), n)) \subseteq Pages
         /\ AreaPages(Area(Min(Fits(n)), n)) \cap bits = {}
<1>1. Min(Fits(n)) \in Fits(n)
  BY MinIn, HeapAssumption DEF Fits
<1>2. PICK i \in 0 .. NPages - n :
        i = Min(Fits(n)) /\ AreaPages(Area(i, n)) \cap bits = {}
  BY <1>1, Zenon DEF Fits
<1>3. i \in Nat /\ AreaPages(Area(i, n)) \subseteq Pages
  BY HeapAssumption DEF AreaPages, Area, Pages
<1> QED BY <1>2, <1>3, Zenon

\* An area starts with a page of its own.
LEMMA FirstPage ==
  ASSUME NEW a \in [start : Nat, n : Lengths]
  PROVE  a.start \in AreaPages(a) /\ a.n \in 1 .. NPages
  BY RoundedOnce, HeapAssumption DEF AreaPages

--------------------------------------------------------------------------------
(***************************************************************************)
(* Every step keeps the invariant.                                         *)
(***************************************************************************)

\* A step that leaves the heap alone leaves what the heap should be alone.
LEMMA HeapFrame ==
  ASSUME UNCHANGED heap
  PROVE  Fixed' = Fixed /\ Live' = Live /\ Clean' = Clean /\ Apart' = Apart
  BY DEF heap, Fixed, TablePages, Live, Clean, Counted, Apart

\* A call of kmalloc, before it takes mm_spinlock.
LEMMA kmalloc_step ==
  ASSUME HeapInv, NEW x \in Contexts, NEW size \in Sizes, kmalloc(x, size)
  PROVE  HeapInv'
<1>1. UNCHANGED heap /\ UNCHANGED <<mm_spinlock, rng, done>> /\ at[x] \in Out
      /\ at' = [at EXCEPT ![x] = "lock"] /\ req' = [req EXCEPT ![x] = size]
  BY Zenon DEF kmalloc, Go
<1>2. Types'
  BY <1>1, Zenon DEF HeapInv, Types, heap
<1>3. Exclusive' /\ Reset'
  BY <1>1, Zenon DEF HeapInv, Types, Exclusive, Reset, Inside, Out
<1>4. Handed'
  BY <1>1, Zenon DEF HeapInv, Types, Handed, Givers, heap
<1>5. InLock'
  <2>1. ASSUME NEW y \in Contexts, mm_spinlock' = y
        PROVE  Stage(y)'
    BY <1>1, <2>1, HeapFrame, ZenonT(40) DEF HeapInv, Types, InLock, Stage, Fresh, Counted, heap
  <2> QED BY <1>1, <2>1, HeapFrame, Zenon DEF HeapInv, InLock
<1> QED BY <1>1, <1>2, <1>3, <1>4, <1>5, HeapFrame, Zenon DEF HeapInv

\* kmalloc takes mm_spinlock.
LEMMA kmallocLock_step ==
  ASSUME HeapInv, NEW x \in Contexts, kmallocLock(x)
  PROVE  HeapInv'
<1>1. UNCHANGED heap /\ UNCHANGED <<req, rng, done>> /\ at[x] = "lock"
      /\ mm_spinlock = NoOne /\ mm_spinlock' = x /\ at' = [at EXCEPT ![x] = "scan"]
  BY DEF kmallocLock, At, Go
<1>2. Types'
  BY <1>1, Zenon DEF HeapInv, Types, Inside, heap
<1>3. Exclusive' /\ Reset'
  BY <1>1, NoOneElse, Zenon DEF HeapInv, Types, Exclusive, Reset, Inside, Out
<1>4. Handed'
  BY <1>1, Zenon DEF HeapInv, Types, Handed, Givers, heap
<1>5. InLock'
  BY <1>1, HeapFrame, NoOneElse, Zenon DEF HeapInv, Types, InLock, Stage
<1> QED BY <1>1, <1>2, <1>3, <1>4, <1>5, HeapFrame, Zenon DEF HeapInv

\* A call that returns NULL with mm_spinlock held leaves the heap alone.
LEMMA QuietReturn ==
  ASSUME HeapInv, NEW x \in Contexts, at[x] \in {"scan", "record"},
         UNCHANGED heap, UNCHANGED mm_spinlock,
         at' = [at EXCEPT ![x] = "null"], req' = [req EXCEPT ![x] = 0],
         rng' = [rng EXCEPT ![x] = NoArea], done' = [done EXCEPT ![x] = 0]
  PROVE  HeapInv'
<1>1. mm_spinlock = x
  BY Zenon DEF HeapInv, Exclusive, Inside
<1>2. Types'
  BY DEF HeapInv, Types, Out, NoArea, Area, heap
<1>3. Exclusive' /\ Reset'
  BY DEF HeapInv, Types, Exclusive, Reset, Inside, Out
<1>4. Handed'
  BY DEF HeapInv, Types, Handed, Givers, heap
<1>5. InLock'
  BY <1>1, NoOneElse, Zenon DEF HeapInv, Types, InLock, Stage
<1> QED BY <1>2, <1>3, <1>4, <1>5, HeapFrame, Zenon DEF HeapInv

\* kmalloc gives up for want of pages (or of a size) with mm_spinlock held.
LEMMA kmallocFails_step ==
  ASSUME HeapInv, NEW x \in Contexts, kmallocFails(x)
  PROVE  HeapInv'
<1>1. /\ UNCHANGED heap /\ UNCHANGED mm_spinlock /\ at[x] = "scan"
      /\ at' = [at EXCEPT ![x] = "null"] /\ req' = [req EXCEPT ![x] = 0]
      /\ rng' = [rng EXCEPT ![x] = NoArea] /\ done' = [done EXCEPT ![x] = 0]
  BY DEF kmallocFails, At, Go, Return
<1> QED BY <1>1, QuietReturn, Zenon

\* kmalloc finds a run of pages: it is apart from everything in use.
LEMMA kmallocScan_step ==
  ASSUME HeapInv, NEW x \in Contexts, kmallocScan(x)
  PROVE  HeapInv'
<1>1. PICK a : /\ UNCHANGED heap /\ UNCHANGED <<mm_spinlock, req, done>>
               /\ at[x] = "scan" /\ req[x] # 0 /\ Fits(Wanted(x)) # {}
               /\ a = Area(Min(Fits(Wanted(x))), Wanted(x))
               /\ rng' = [rng EXCEPT ![x] = a] /\ at' = [at EXCEPT ![x] = "mark"]
  BY Zenon DEF kmallocScan, At, Go
<1>2. mm_spinlock = x /\ Clean
  BY <1>1, Zenon DEF HeapInv, Exclusive, Inside, InLock, Stage
<1>3. Wanted(x) \in Lengths /\ Wanted(x) \in 1 .. NPages
  BY <1>1, RoundedOnce, Zenon DEF HeapInv, Types, Wanted, Lengths
<1>4. /\ a \in [start : Nat, n : Nat] /\ a.n \in Lengths
      /\ AreaPages(a) \subseteq Pages /\ AreaPages(a) \cap bits = {}
  BY <1>1, <1>3, RunFits DEF Area
<1>5. Types'
  BY <1>1, <1>4, Zenon DEF HeapInv, Types, Inside, heap
<1>6. Exclusive' /\ Reset'
  BY <1>1, <1>2, Zenon DEF HeapInv, Types, Exclusive, Reset, Inside, Out
<1>7. Handed'
  BY <1>1 DEF HeapInv, Types, Handed, Givers, heap
<1>8. Fresh(x)'
  <2>1. rng'[x] = a
    BY <1>1, Zenon DEF HeapInv, Types
  <2> QED BY <1>1, <1>2, <1>4, <2>1, HeapFrame, Zenon DEF Fresh, Clean
<1>9. InLock'
  BY <1>1, <1>2, <1>8, HeapFrame, NoOneElse, Zenon DEF HeapInv, Types, InLock, Stage
<1> QED BY <1>1, <1>5, <1>6, <1>7, <1>9, HeapFrame, Zenon DEF HeapInv

\* alloc_pages marks the run.
LEMMA kmallocMark_step ==
  ASSUME HeapInv, NEW x \in Contexts, kmallocMark(x)
  PROVE  HeapInv'
<1>1. /\ UNCHANGED <<mm_spinlock, tables, mapped, areas, pool, owned, req, rng, done>>
      /\ at[x] = "mark" /\ at' = [at EXCEPT ![x] = "map"]
      /\ bits' = bits \cup AreaPages(rng[x])
  BY Zenon DEF kmallocMark, At, Go
<1>2. mm_spinlock = x /\ Clean /\ Fresh(x) /\ done[x] = 0
  BY <1>1, Zenon DEF HeapInv, Exclusive, Inside, InLock, Stage, Reset
<1>3. Types'
  BY <1>1, <1>2, Zenon DEF HeapInv, Types, Inside, Fresh
<1>4. Exclusive' /\ Reset'
  BY <1>1, <1>2, Zenon DEF HeapInv, Types, Exclusive, Reset, Inside, Out
<1>5. Handed'
  BY <1>1, Zenon DEF HeapInv, Types, Handed, Givers
<1>6. Fixed' = Fixed /\ Live' = Live /\ Counted' = Counted /\ Apart' = Apart
  BY <1>1 DEF Fixed, TablePages, Live, Counted, Apart
<1>7. rng[x].n > 0 /\ rng[x].start \in Nat
  BY <1>2, RoundedOnce DEF HeapInv, Types, Fresh
<1>8. AreaPages(Area(rng[x].start, 0)) = {}
  BY <1>7 DEF AreaPages, Area
<1>9. InLock'
  BY <1>1, <1>2, <1>6, <1>7, <1>8, NoOneElse, ZenonT(40) DEF HeapInv, Types, InLock, Stage,
     Clean, Fresh
<1> QED BY <1>3, <1>4, <1>5, <1>6, <1>9 DEF HeapInv

\* map_page_range takes a page for a missing page table: a page not in use.
LEMMA MapTable_step ==
  ASSUME HeapInv, NEW x \in Contexts, MapTable(x)
  PROVE  HeapInv'
<1>1. PICK p : /\ UNCHANGED <<mm_spinlock, mapped, areas, pool, owned, at, req, rng, done>>
               /\ at[x] = "map" /\ Fits(1) # {} /\ p = Min(Fits(1))
               /\ tables' = [r \in DOMAIN tables \cup {Region(NextPage(x))} |->
                               IF r \in DOMAIN tables THEN tables[r] ELSE p]
               /\ Region(NextPage(x)) \notin DOMAIN tables
               /\ bits' = bits \cup {p}
  BY DEF MapTable, At
<1>2. p \in Pages \ bits
  <2>1. p \in AreaPages(Area(p, 1)) /\ AreaPages(Area(p, 1)) \subseteq Pages
        /\ AreaPages(Area(p, 1)) \cap bits = {}
    <3>1. 1 \in 1 .. NPages
      BY HeapAssumption
    <3>2. p \in Nat /\ AreaPages(Area(p, 1)) \subseteq Pages
          /\ AreaPages(Area(p, 1)) \cap bits = {}
      BY <1>1, <3>1, RunFits
    <3> QED BY <3>2 DEF AreaPages, Area
  <2> QED BY <2>1
<1>3. /\ mm_spinlock = x /\ Fresh(x) /\ done[x] < rng[x].n /\ Counted
      /\ bits = Fixed \cup Live \cup AreaPages(rng[x])
      /\ mapped = Live \cup AreaPages(Area(rng[x].start, done[x]))
  BY <1>1, Zenon DEF HeapInv, Exclusive, Inside, InLock, Stage
<1>4. Fixed' = Fixed \cup {p}
  <2>1. TablePages' = TablePages \cup {p}
    BY <1>1, Zenon DEF TablePages
  <2> QED BY <2>1 DEF Fixed
<1>5. Live' = Live /\ Counted' = Counted
  BY <1>1 DEF Live, Counted
<1>6. Types'
  BY <1>1, <1>2, Zenon DEF HeapInv, Types
<1>7. Exclusive' /\ Reset' /\ Handed'
  BY <1>1 DEF HeapInv, Exclusive, Reset, Handed, Givers
<1>8. Apart'
  <2>1. \A a \in areas : p \notin AreaPages(a)
    BY <1>2, <1>3 DEF Live
  <2> QED BY <1>1, <1>4, <2>1, Zenon DEF HeapInv, Apart
<1>9. Fresh(x)'
  BY <1>1, <1>2, <1>3, <1>4, <1>5, Zenon DEF Fresh
<1>10. bits' = Fixed' \cup Live' \cup AreaPages(rng'[x])
  BY <1>1, <1>3, <1>4, <1>5, Zenon
<1>11. InLock'
  BY <1>1, <1>3, <1>5, <1>9, <1>10, NoOneElse, Zenon DEF InLock, Stage
<1> QED BY <1>6, <1>7, <1>8, <1>11, Zenon DEF HeapInv

\* There is no page for a page table: the CPU stops with mm_spinlock held.
LEMMA MapTableFaults_step ==
  ASSUME HeapInv, NEW x \in Contexts, MapTableFaults(x)
  PROVE  HeapInv'
<1>1. /\ UNCHANGED heap /\ UNCHANGED <<mm_spinlock, req, rng, done>>
      /\ at[x] = "map" /\ at' = [at EXCEPT ![x] = "fault"]
  BY DEF MapTableFaults, At, Go
<1>2. mm_spinlock = x
  BY <1>1, Zenon DEF HeapInv, Exclusive, Inside
<1>3. Types'
  BY <1>1, Zenon DEF HeapInv, Types, Inside, heap
<1>4. Exclusive' /\ Reset'
  BY <1>1, <1>2 DEF HeapInv, Types, Exclusive, Reset, Inside, Out
<1>5. Handed'
  BY <1>1, Zenon DEF HeapInv, Types, Handed, Givers, heap
<1>6. InLock'
  BY <1>1, <1>2, NoOneElse, Zenon DEF HeapInv, Types, InLock, Stage
<1> QED BY <1>1, <1>3, <1>4, <1>5, <1>6, HeapFrame, Zenon DEF HeapInv

\* map_page_range maps the next page of the run.
LEMMA MapPage_step ==
  ASSUME HeapInv, NEW x \in Contexts, MapPage(x)
  PROVE  HeapInv'
<1>1. /\ UNCHANGED <<mm_spinlock, bits, tables, areas, pool, owned, req, rng>>
      /\ at[x] = "map" /\ mapped' = mapped \cup {rng[x].start + done[x]}
      /\ done' = [done EXCEPT ![x] = done[x] + 1]
      /\ at' = [at EXCEPT ![x] = IF done[x] + 1 = rng[x].n THEN "record" ELSE "map"]
  BY Zenon DEF MapPage, At, Go, NextPage, HeapInv, Types
<1>2. /\ mm_spinlock = x /\ Fresh(x) /\ done[x] < rng[x].n /\ Counted
      /\ bits = Fixed \cup Live \cup AreaPages(rng[x])
      /\ mapped = Live \cup AreaPages(Area(rng[x].start, done[x]))
  BY <1>1, Zenon DEF HeapInv, Exclusive, Inside, InLock, Stage
<1>3. Types'
  BY <1>1 DEF HeapInv, Types, Inside
<1>4. Exclusive' /\ Reset'
  BY <1>1, <1>2, Zenon DEF HeapInv, Types, Exclusive, Reset, Inside, Out
<1>5. Handed'
  BY <1>1 DEF HeapInv, Types, Handed, Givers
<1>6. Fixed' = Fixed /\ Live' = Live /\ Counted' = Counted /\ Apart' = Apart
  BY <1>1 DEF Fixed, TablePages, Live, Counted, Apart
<1>7. PICK s \in Nat, n \in Nat, d \in Nat : s = rng[x].start /\ n = rng[x].n /\ d = done[x]
  BY Zenon DEF HeapInv, Types
<1>8. AreaPages(Area(s, d + 1)) = AreaPages(Area(s, d)) \cup {s + d}
  BY DEF AreaPages, Area
<1>9. rng[x] = Area(s, n)
  BY <1>7, Zenon DEF HeapInv, Types, Area
<1>10. done'[x] = d + 1 /\ at'[x] = IF d + 1 = n THEN "record" ELSE "map"
  BY <1>1, <1>7, Zenon DEF HeapInv, Types
<1>11. mapped' = Live' \cup AreaPages(Area(s, d + 1))
  BY <1>1, <1>2, <1>6, <1>7, <1>8, Zenon
<1>12. Fresh(x)'
  BY <1>1, <1>2, <1>6, Zenon DEF Fresh
<1>13. d + 1 # n => d + 1 < n
  BY <1>2, <1>7
<1>14. Stage(x)'
  <2>1. rng'[x] = rng[x] /\ bits' = Fixed' \cup Live' \cup AreaPages(rng'[x])
    BY <1>1, <1>2, <1>6, Zenon
  <2>2. CASE d + 1 = n
    <3>1. at'[x] = "record" /\ mapped' = Live' \cup AreaPages(rng'[x])
      BY <1>9, <1>10, <1>11, <2>1, <2>2
    <3> QED BY <1>2, <1>6, <1>12, <2>1, <3>1, Zenon DEF Stage
  <2>3. CASE d + 1 # n
    <3>1. at'[x] = "map" /\ rng'[x].start = s /\ rng'[x].n = n /\ done'[x] = d + 1 /\ d + 1 < n
      BY <1>7, <1>10, <1>13, <2>1, <2>3
    <3> QED BY <1>2, <1>6, <1>11, <1>12, <2>1, <3>1 DEF Stage
  <2> QED BY <2>2, <2>3, Zenon
<1>15. InLock'
  BY <1>1, <1>2, <1>14, NoOneElse, Zenon DEF InLock
<1> QED BY <1>3, <1>4, <1>5, <1>6, <1>15, Zenon DEF HeapInv

\* There is no descriptor left: kmalloc gives up with mm_spinlock held.
LEMMA RecordFails_step ==
  ASSUME HeapInv, NEW x \in Contexts, RecordFails(x)
  PROVE  HeapInv'
<1>1. /\ UNCHANGED heap /\ UNCHANGED mm_spinlock /\ at[x] = "record"
      /\ at' = [at EXCEPT ![x] = "null"] /\ req' = [req EXCEPT ![x] = 0]
      /\ rng' = [rng EXCEPT ![x] = NoArea] /\ done' = [done EXCEPT ![x] = 0]
  BY DEF RecordFails, At, Go, Return
<1> QED BY <1>1, QuietReturn, Zenon

\* __vmap_area_alloc puts the area on vmap_area_list and kmalloc returns it.
LEMMA Record_step ==
  ASSUME HeapInv, NEW x \in Contexts, Record(x)
  PROVE  HeapInv'
<1>1. PICK a : /\ a = rng[x] /\ at[x] = "record" /\ UNCHANGED <<bits, tables, mapped>>
               /\ pool > 0 /\ pool' = pool - 1 /\ mm_spinlock' = NoOne
               /\ areas' = areas \cup {a} /\ owned' = owned \cup {a}
               /\ at' = [at EXCEPT ![x] = "idle"] /\ req' = [req EXCEPT ![x] = 0]
               /\ rng' = [rng EXCEPT ![x] = NoArea] /\ done' = [done EXCEPT ![x] = 0]
  BY Zenon DEF Record, At, Unlock, Return, Go
<1>2. /\ mm_spinlock = x /\ Fresh(x) /\ Counted
      /\ bits = Fixed \cup Live \cup AreaPages(a)
      /\ mapped = Live \cup AreaPages(a)
  BY <1>1, Zenon DEF HeapInv, Exclusive, Inside, InLock, Stage
<1>3. /\ a \in [start : Nat, n : Lengths] /\ AreaPages(a) \subseteq Pages
      /\ AreaPages(a) \cap (Fixed \cup Live) = {}
  BY <1>1, <1>2, Zenon DEF HeapInv, Types, Fresh
<1>4. a \notin areas
  BY <1>3, FirstPage, Zenon DEF Live
<1>5. IsFiniteSet(areas') /\ Cardinality(areas') = Cardinality(areas) + 1
      /\ Cardinality(areas) \in Nat
  BY <1>1, <1>4, FS_AddElement, FS_CardinalityType, Zenon DEF HeapInv, Types
<1>6. Types'
  BY <1>1, <1>3, <1>5 DEF HeapInv, Types, Out, NoArea, Area
<1>7. Exclusive' /\ Reset'
  BY <1>1, <1>2, Zenon DEF HeapInv, Types, Exclusive, Reset, Inside, Out
<1>8. Handed'
  <2>1. Givers' = Givers /\ x \notin Givers
    BY <1>1, Zenon DEF HeapInv, Types, Givers
  <2>2. \A y \in Givers : rng'[y] = rng[y] /\ rng[y] # a
    BY <1>1, <1>4, <2>1, Zenon DEF HeapInv, Types, Handed, Givers
  <2> QED BY <1>1, <2>1, <2>2 DEF HeapInv, Handed
<1>9. Fixed' = Fixed /\ Live' = Live \cup AreaPages(a)
  BY <1>1, Zenon DEF Fixed, TablePages, Live
<1>10. Apart'
  <2>1. \A b \in areas : AreaPages(a) \cap AreaPages(b) = {}
    BY <1>3, Zenon DEF Live
  <2> QED BY <1>1, <1>3, <1>9, <2>1, Zenon DEF HeapInv, Apart
<1>11. Clean'
  <2>1. Counted'
    BY <1>1, <1>2, <1>5, HeapAssumption, SMTT(30) DEF HeapInv, Types, Counted
  <2> QED BY <1>1, <1>2, <1>9, <2>1, Zenon DEF Clean
<1>12. InLock'
  BY <1>1, <1>11, NoOneElse DEF InLock
<1> QED BY <1>6, <1>7, <1>8, <1>10, <1>12, Zenon DEF HeapInv

\* A call of kfree, before it takes mm_spinlock: the caller gives the area up.
LEMMA kfree_step ==
  ASSUME HeapInv, NEW x \in Contexts, NEW a \in owned, kfree(x, a)
  PROVE  HeapInv'
<1>1. /\ UNCHANGED <<mm_spinlock, bits, tables, mapped, areas, pool, req, done>>
      /\ at[x] \in Out /\ at' = [at EXCEPT ![x] = "flock"]
      /\ owned' = owned \ {a} /\ rng' = [rng EXCEPT ![x] = a]
  BY DEF kfree, Go
<1>2. a \in areas /\ a \in [start : Nat, n : Nat]
  <2>1. Lengths \subseteq Nat
    BY RoundedOnce, HeapAssumption
  <2> QED BY <2>1, Zenon DEF HeapInv, Handed, Types
<1>3. Types'
  BY <1>1, <1>2, Zenon DEF HeapInv, Types
<1>4. Exclusive' /\ Reset'
  BY <1>1, Zenon DEF HeapInv, Types, Exclusive, Reset, Inside, Out
<1>5. Handed'
  <2>1. Givers' = Givers \cup {x} /\ x \notin Givers
    BY <1>1, Zenon DEF HeapInv, Types, Givers, Out
  <2>2. rng'[x] = a /\ \A y \in Givers : rng'[y] = rng[y] /\ rng[y] # a
    BY <1>1, <2>1 DEF HeapInv, Types, Handed, Givers
  <2> QED BY <1>1, <1>2, <2>1, <2>2 DEF HeapInv, Handed
<1>6. Fixed' = Fixed /\ Live' = Live /\ Clean' = Clean /\ Apart' = Apart
      /\ Counted' = Counted
  BY <1>1 DEF Fixed, TablePages, Live, Clean, Counted, Apart
<1>7. InLock'
  <2>1. ASSUME NEW y \in Contexts, mm_spinlock' = y
        PROVE  Stage(y)'
    <3>1. CASE y = x
      BY <1>1, <3>1, Zenon DEF HeapInv, Types, Stage
    <3>2. CASE y # x
      BY <1>1, <1>6, <2>1, <3>2, ZenonT(60) DEF HeapInv, Types, InLock, Stage, Fresh
    <3> QED BY <3>1, <3>2
  <2> QED BY <1>1, <1>6, <2>1, Zenon DEF HeapInv, InLock
<1> QED BY <1>3, <1>4, <1>5, <1>6, <1>7, Zenon DEF HeapInv

\* kfree takes mm_spinlock.
LEMMA kfreeLock_step ==
  ASSUME HeapInv, NEW x \in Contexts, kfreeLock(x)
  PROVE  HeapInv'
<1>1. /\ UNCHANGED heap /\ UNCHANGED <<req, rng, done>> /\ at[x] = "flock"
      /\ mm_spinlock = NoOne /\ mm_spinlock' = x /\ at' = [at EXCEPT ![x] = "find"]
  BY DEF kfreeLock, At, Go
<1>2. Types'
  BY <1>1, Zenon DEF HeapInv, Types, Inside, heap
<1>3. Exclusive' /\ Reset'
  BY <1>1, NoOneElse, Zenon DEF HeapInv, Types, Exclusive, Reset, Inside, Out
<1>4. Handed'
  BY <1>1, ZenonT(40) DEF HeapInv, Types, Handed, Givers, heap
<1>5. InLock'
  BY <1>1, HeapFrame, NoOneElse, Zenon DEF HeapInv, Types, InLock, Stage
<1> QED BY <1>1, <1>2, <1>3, <1>4, <1>5, HeapFrame, Zenon DEF HeapInv

\* kfree takes the area off vmap_area_list and clears exactly its pages.
LEMMA kfreePages_step ==
  ASSUME HeapInv, NEW x \in Contexts, kfreePages(x)
  PROVE  HeapInv'
<1>1. PICK a \in areas :
        /\ at[x] = "find" /\ a.start = rng[x].start /\ areas' = areas \ {a}
        /\ rng' = [rng EXCEPT ![x] = a] /\ at' = [at EXCEPT ![x] = "unmap"]
        /\ bits' = IF a.start \in mapped
                     THEN bits \ AreaPages(Area(a.start,
                                   order_to_pages[size_to_order(a.n * PageBytes)]))
                     ELSE bits
        /\ UNCHANGED <<mm_spinlock, tables, mapped, pool, owned, req, done>>
  BY Zenon DEF kfreePages, At, Go
<1>2. mm_spinlock = x /\ Clean /\ x \in Givers
  BY <1>1, Zenon DEF HeapInv, Exclusive, Inside, InLock, Stage, Givers
<1>3. a \in [start : Nat, n : Lengths] /\ a.start \in AreaPages(a) /\ a.n \in 1 .. NPages
  BY FirstPage, Zenon DEF HeapInv, Types
<1>4. a = rng[x] /\ a \notin owned
  <2>1. rng[x] \in areas \ owned
    BY <1>2, Zenon DEF HeapInv, Handed
  <2>2. rng[x].start \in AreaPages(rng[x])
    BY <2>1, FirstPage DEF HeapInv, Types
  <2> QED BY <1>1, <1>3, <2>1, <2>2, Zenon DEF HeapInv, Apart
<1>5. bits' = bits \ AreaPages(a)
  <2>1. a.start \in mapped
    BY <1>2, <1>3, Zenon DEF Clean, Live
  <2>2. Area(a.start, order_to_pages[size_to_order(a.n * PageBytes)]) = a
    BY <1>3, RoundedOnce, Zenon DEF Area
  <2> QED BY <1>1, <2>1, <2>2, Zenon
<1>6. /\ IsFiniteSet(areas') /\ Cardinality(areas') = Cardinality(areas) - 1
      /\ Cardinality(areas) \in Nat
  BY <1>1, FS_RemoveElement, FS_CardinalityType, Zenon DEF HeapInv, Types
<1>7. Types'
  BY <1>1, <1>3, <1>5, <1>6 DEF HeapInv, Types, Inside
<1>8. Exclusive' /\ Reset'
  BY <1>1, <1>2, Zenon DEF HeapInv, Types, Exclusive, Reset, Inside, Out
<1>9. Handed'
  <2>1. Givers' = Givers \ {x}
    BY <1>1, Zenon DEF HeapInv, Types, Givers
  <2>2. \A y \in Givers' : rng'[y] = rng[y] /\ rng[y] # a
    BY <1>1, <1>2, <1>4, <2>1, Zenon DEF HeapInv, Types, Handed, Givers
  <2> QED BY <1>1, <1>4, <2>1, <2>2 DEF HeapInv, Handed
<1>10. Fixed' = Fixed /\ Live = Live' \cup AreaPages(a) /\ Live' \cap AreaPages(a) = {}
  <2>1. Live = Live' \cup AreaPages(a)
    BY <1>1 DEF Live
  <2>2. Live' \cap AreaPages(a) = {}
    BY <1>1 DEF HeapInv, Apart, Live
  <2> QED BY <1>1, <2>1, <2>2, Zenon DEF Fixed, TablePages
<1>11. Apart'
  BY <1>1, <1>10, Zenon DEF HeapInv, Apart
<1>12. rng'[x] = a /\ at'[x] = "unmap"
  BY <1>1 DEF HeapInv, Types
<1>13. Fresh(x)' /\ bits' = Fixed' \cup Live' /\ mapped' = Live' \cup AreaPages(rng'[x])
  <2>1. AreaPages(a) \cap Fixed = {} /\ AreaPages(a) \subseteq Pages
    BY DEF HeapInv, Apart
  <2> QED BY <1>1, <1>2, <1>3, <1>5, <1>10, <1>12, <2>1, Zenon DEF Fresh, Clean
<1>14. Cardinality(areas') + pool' + 1 = PoolSize
  BY <1>1, <1>2, <1>6, HeapAssumption DEF HeapInv, Types, Clean, Counted
<1>15. InLock'
  BY <1>1, <1>2, <1>12, <1>13, <1>14, NoOneElse, Zenon DEF InLock, Stage
<1> QED BY <1>7, <1>8, <1>9, <1>11, <1>15, Zenon DEF HeapInv

\* kfree unmaps the area and returns its descriptor.
LEMMA kfreeUnmap_step ==
  ASSUME HeapInv, NEW x \in Contexts, kfreeUnmap(x)
  PROVE  HeapInv'
<1>1. PICK a : /\ a = rng[x] /\ at[x] = "unmap" /\ UNCHANGED <<bits, tables, areas, owned>>
               /\ mapped' = mapped \ Unmapped(a) /\ pool' = pool + 1
               /\ mm_spinlock' = NoOne
               /\ at' = [at EXCEPT ![x] = "idle"] /\ req' = [req EXCEPT ![x] = 0]
               /\ rng' = [rng EXCEPT ![x] = NoArea] /\ done' = [done EXCEPT ![x] = 0]
  BY DEF kfreeUnmap, At, Unlock, Return, Go
<1>2. /\ mm_spinlock = x /\ Fresh(x) /\ Cardinality(areas) + pool + 1 = PoolSize
      /\ bits = Fixed \cup Live /\ mapped = Live \cup AreaPages(a)
  BY <1>1, Zenon DEF HeapInv, Exclusive, Inside, InLock, Stage
<1>3. Types'
  BY <1>1 DEF HeapInv, Types, Out, NoArea, Area
<1>4. Exclusive' /\ Reset'
  BY <1>1, <1>2, Zenon DEF HeapInv, Types, Exclusive, Reset, Inside, Out
<1>5. Handed'
  BY <1>1, Zenon DEF HeapInv, Types, Handed, Givers
<1>6. Fixed' = Fixed /\ Live' = Live /\ Apart' = Apart
  BY <1>1 DEF Fixed, TablePages, Live, Apart
<1>7. Unmapped(a) = AreaPages(a)
  <2>1. a.start \in Nat /\ a.n \in Nat
    BY <1>1, Zenon DEF HeapInv, Types
  <2>2. \A p \in AreaPages(a) : a.start .. p \subseteq AreaPages(a)
    BY <2>1 DEF AreaPages
  <2> QED BY <1>2, <2>2, Zenon DEF Unmapped
<1>8. AreaPages(a) \cap Live = {}
  BY <1>1, <1>2, Zenon DEF Fresh
<1>9. Clean'
  <2>1. Cardinality(areas) \in Nat
    BY FS_CardinalityType, Zenon DEF HeapInv, Types
  <2>2. Counted'
    BY <1>1, <1>2, <2>1 DEF HeapInv, Types, Counted
  <2> QED BY <1>1, <1>2, <1>6, <1>7, <1>8, <2>2, Zenon DEF Clean
<1>10. InLock'
  BY <1>1, <1>9, NoOneElse DEF InLock
<1> QED BY <1>3, <1>4, <1>5, <1>6, <1>10, Zenon DEF HeapInv

\* The invariant holds when the heap is set up.
LEMMA InitInv == Init => HeapInv
<1> SUFFICES ASSUME Init PROVE HeapInv
  OBVIOUS
<1>1. Types
  BY HeapAssumption, FS_EmptySet DEF Init, Types, Out, NoArea, Area, Pages
<1>2. Exclusive /\ Handed /\ Apart /\ Reset
  BY DEF Init, Exclusive, Inside, Handed, Givers, Apart, Reset
<1>3. Live = {} /\ Fixed = 0 .. Reserved - 1
  <2>1. TablePages = {Reserved - 1}
    BY DEF Init, TablePages
  <2> QED BY <2>1, HeapAssumption DEF Init, Live, Fixed
<1>4. Counted
  BY FS_EmptySet, HeapAssumption DEF Init, Counted
<1>5. InLock
  BY <1>3, <1>4, NoOneElse, Zenon DEF Init, InLock, Clean
<1> QED BY <1>1, <1>2, <1>5 DEF HeapInv

\* Every step of every context keeps the invariant.
LEMMA NextInv == HeapInv /\ [Next]_vars => HeapInv'
<1> SUFFICES ASSUME HeapInv, [Next]_vars PROVE HeapInv'
  BY Zenon
<1>1. CASE UNCHANGED vars
  <2>1. UNCHANGED heap /\ UNCHANGED <<mm_spinlock, at, req, rng, done>>
    BY <1>1, Zenon DEF vars
  <2>2. Types' /\ Exclusive' /\ Handed' /\ Reset'
    BY <2>1, Zenon DEF HeapInv, Types, Exclusive, Handed, Givers, Reset, heap
  <2>3. InLock'
    BY <2>1, HeapFrame, ZenonT(40) DEF HeapInv, InLock, Stage, Fresh, Counted, heap
  <2> QED BY <2>1, <2>2, <2>3, HeapFrame DEF HeapInv
<1>2. CASE Next
  <2>1. PICK x \in Contexts : Step(x) \/ Call(x)
    BY <1>2, Zenon DEF Next
  <2>2. CASE Call(x)
    BY <2>2, kmalloc_step, kfree_step DEF Call
  <2>3. CASE Step(x)
    BY <2>3, kmallocLock_step, kmallocFails_step, kmallocScan_step, kmallocMark_step,
         MapTable_step, MapTableFaults_step, MapPage_step, RecordFails_step,
         Record_step, kfreeLock_step, kfreePages_step, kfreeUnmap_step, Zenon DEF Step
  <2> QED BY <2>1, <2>2, <2>3
<1> QED BY <1>1, <1>2

\* In every reachable state of the heap the bitmap, the mappings and the list
\* are what they are between calls, plus or minus the area kmalloc or kfree is
\* working on.
THEOREM HeapInvariant == Spec => []HeapInv
  BY InitInv, NextInv, PTL DEF Spec

\* kmalloc hands no page out twice, whatever the interleaving of kmalloc and
\* kfree on any number of CPUs.
THEOREM NoPageTwice == Spec => []OwnedOnce
<1>1. HeapInv => OwnedOnce
  BY DEF HeapInv, Handed, Apart, Fixed, OwnedOnce
<1> QED BY <1>1, HeapInvariant, PTL

\* When mm_spinlock is free, no page and no descriptor is lost or stale.
THEOREM NothingLost == Spec => []Accounted
<1>1. HeapInv => Accounted
  BY Zenon DEF HeapInv, InLock, Clean, Counted, Fixed, Live, Accounted
<1> QED BY <1>1, HeapInvariant, PTL

\* kfree of what kmalloc returned finds its area, and kmalloc never maps a page
\* that is mapped already: the error paths of both are dead.
THEOREM ErrorPathsDead == Spec => []NoErrorPath
<1>1. ASSUME HeapInv, NEW x \in Contexts, at[x] = "map"
      PROVE  NextPage(x) \notin mapped
  <2>1. /\ mm_spinlock = x /\ Fresh(x) /\ done[x] < rng[x].n
        /\ mapped = Live \cup AreaPages(Area(rng[x].start, done[x]))
    BY <1>1, Zenon DEF HeapInv, Exclusive, Inside, InLock, Stage
  <2>2. rng[x].start \in Nat /\ rng[x].n \in Nat /\ done[x] \in Nat
    BY <1>1, Zenon DEF HeapInv, Types
  <2>3. /\ NextPage(x) \in AreaPages(rng[x])
        /\ NextPage(x) \notin AreaPages(Area(rng[x].start, done[x]))
    BY <2>1, <2>2 DEF NextPage, AreaPages, Area
  <2> QED BY <2>1, <2>3 DEF Fresh
<1>2. HeapInv => NoErrorPath
  BY <1>1, Zenon DEF HeapInv, Handed, Givers, NoErrorPath
<1> QED BY <1>2, HeapInvariant, PTL

--------------------------------------------------------------------------------
(******************************************************************************)
(* The stacks smp_init allocates for the other processors (module SmpStart).  *)
(******************************************************************************)
\* What smp_init has prepared, and what a processor has from its slot.
SmpInv ==
  /\ madt \in Madts /\ bsp_id \in Apic
  /\ cpu = [a \in Apic |-> cpu[a]] /\ sp = [a \in Apic |-> sp[a]]
  /\ cpu[bsp_id] = "boot"
  /\ boot = "count" => \A a \in Apic : cpu[a] \in {"boot", "reset"}
  /\ boot # "count" =>
       LET ids == acpi_madt_smp_counter(madt)
       IN  stacks = [i \in {j \in 0 .. Len(ids) - 1 : ids[j + 1] # bsp_id} |-> i]
  /\ \A a \in Apic : cpu[a] \in {"ap_start", "idle"} => sp[a] = a

--------------------------------------------------------------------------------
\* APIC ids are natural numbers, so no slot of one is Junk.
LEMMA ApicNat ==
  ASSUME NEW m \in Madts
  PROVE  Apics(m) \subseteq Nat
<1>1. m \in Seq(MadtEntry)
  BY MadtAssumption, Zenon
<1>2. \A i \in DOMAIN m : m[i] \in MadtEntry
  BY <1>1
<1>3. \A e \in MadtEntry : e.apic_id \in Nat
  BY DEF MadtEntry
<1> QED BY <1>2, <1>3, Zenon DEF Apics

\* Steps of smp_init that leave what is prepared and who is up.
LEMMA BootStep ==
  ASSUME SmpInv, UNCHANGED <<madt, bsp_id, stacks, sp>>, boot # "count", boot' # "count",
         cpu' = [a \in Apic |-> cpu'[a]], cpu'[bsp_id] = "boot",
         \A a \in Apic : cpu'[a] \in {"ap_start", "idle"} => cpu[a] \in {"ap_start", "idle"}
  PROVE  SmpInv'
<1>1. Apic' = Apic
  BY Zenon DEF Apic
<1> QED BY <1>1, Zenon DEF SmpInv

\* Prepare: the boot processor allocates a stack for every entry but its own.
LEMMA Prepare_step ==
  ASSUME SmpInv, Prepare
  PROVE  SmpInv'
<1>1. /\ boot = "count" /\ boot' = "next" /\ UNCHANGED <<madt, bsp_id, cpu, sp>> /\ Apic' = Apic
      /\ LET ids == acpi_madt_smp_counter(madt)
         IN  stacks' = [i \in {j \in 0 .. Len(ids) - 1 : ids[j + 1] # bsp_id} |-> i]
  BY Zenon DEF Prepare, StackFor, Apic
<1>2. \A a \in Apic : cpu[a] \notin {"ap_start", "idle"}
  BY <1>1 DEF SmpInv
<1> QED BY <1>1, <1>2, Zenon DEF SmpInv

\* Skip, SendInit, SendSipi, SipiLost and Finish start no processor themselves.
LEMMA smp_init_step ==
  ASSUME SmpInv, smp_init
  PROVE  SmpInv'
<1>1. CASE Prepare
  BY <1>1, Prepare_step
<1>2. CASE Skip \/ SipiLost \/ Finish
  <2>1. UNCHANGED <<madt, bsp_id, stacks, sp, cpu>> /\ boot # "count" /\ boot' # "count"
    BY <1>2 DEF Skip, SipiLost, Finish, After
  <2> QED BY <2>1, BootStep, Zenon DEF SmpInv
<1>3. CASE SendInit
  <2>1. /\ UNCHANGED <<madt, bsp_id, stacks, sp>> /\ boot # "count" /\ boot' # "count"
        /\ Target # bsp_id /\ cpu' = [a \in Apic |-> IF a = Target THEN "wait" ELSE cpu[a]]
    BY <1>3 DEF SendInit
  <2>2. /\ cpu' = [a \in Apic |-> cpu'[a]] /\ cpu'[bsp_id] = "boot"
        /\ \A a \in Apic : cpu'[a] \in {"ap_start", "idle"} => cpu[a] \in {"ap_start", "idle"}
    BY <2>1 DEF SmpInv
  <2> QED BY <2>1, <2>2, BootStep, Zenon
<1>4. CASE SendSipi
  <2>1. /\ UNCHANGED <<madt, bsp_id, stacks, sp>> /\ boot # "count" /\ boot' # "count"
        /\ cpu' = [a \in Apic |-> IF a = Target /\ Woken(a) THEN "trampoline" ELSE cpu[a]]
    BY <1>4 DEF SendSipi, After
  <2>2. /\ cpu' = [a \in Apic |-> cpu'[a]] /\ cpu'[bsp_id] = "boot"
        /\ \A a \in Apic : cpu'[a] \in {"ap_start", "idle"} => cpu[a] \in {"ap_start", "idle"}
    BY <2>1 DEF SmpInv, Woken
  <2> QED BY <2>1, <2>2, BootStep, Zenon
<1> QED BY <1>1, <1>2, <1>3, <1>4 DEF smp_init

\* ap_long: the processor takes the stack in the slot of its APIC id, which is there.
LEMMA LoadStack_step ==
  ASSUME \A m \in Madts : Slotted(m), SmpInv, NEW a \in Apic, LoadStack(a)
  PROVE  SmpInv'
<1>1. /\ cpu[a] = "trampoline" /\ UNCHANGED <<madt, bsp_id, stacks, boot>> /\ Apic' = Apic
      /\ cpu' = [cpu EXCEPT ![a] = "ap_start"]
      /\ sp' = [sp EXCEPT ![a] = IF a \in DOMAIN stacks THEN stacks[a] ELSE Junk]
  BY Zenon DEF LoadStack, Apic
<1>2. boot # "count" /\ a # bsp_id /\ bsp_id \in Apic
  BY <1>1 DEF SmpInv
<1>3. a \in DOMAIN stacks /\ stacks[a] = a
  <2> DEFINE ids == acpi_madt_smp_counter(madt)
  <2>1. stacks = [i \in {j \in 0 .. Len(ids) - 1 : ids[j + 1] # bsp_id} |-> i]
    BY <1>2, Zenon DEF SmpInv
  <2>2. a \in 0 .. Len(ids) - 1 /\ ids[a + 1] # bsp_id
    BY <1>2, Zenon DEF SmpInv, Slotted, Apic
  <2> HIDE DEF ids
  <2> QED BY <2>1, <2>2, Zenon
<1>4. cpu'[a] = "ap_start" /\ \A b \in Apic \ {a} : cpu'[b] = cpu[b]
  BY <1>1, Zenon DEF SmpInv
<1>5. sp'[a] = a /\ \A b \in Apic \ {a} : sp'[b] = sp[b]
  BY <1>1, <1>3, Zenon DEF SmpInv
<1>6. cpu' = [b \in Apic |-> cpu'[b]] /\ sp' = [b \in Apic |-> sp'[b]]
  BY <1>1, Zenon DEF SmpInv
<1> QED BY <1>1, <1>2, <1>4, <1>5, <1>6, ZenonT(40) DEF SmpInv

\* ap_start: the processor goes on to its idle thread.
LEMMA ap_start_step ==
  ASSUME SmpInv, NEW a \in Apic, ap_start(a)
  PROVE  SmpInv'
<1>1. /\ cpu[a] = "ap_start" /\ UNCHANGED <<madt, bsp_id, stacks, boot, sp>> /\ Apic' = Apic
      /\ cpu' = [cpu EXCEPT ![a] = "idle"]
  BY Zenon DEF ap_start, Apic
<1>2. /\ cpu' = [b \in Apic |-> cpu'[b]] /\ cpu'[a] = "idle"
      /\ \A b \in Apic \ {a} : cpu'[b] = cpu[b]
  BY <1>1, Zenon DEF SmpInv
<1>3. boot # "count" /\ a # bsp_id
  BY <1>1 DEF SmpInv
<1> QED BY <1>1, <1>2, <1>3 DEF SmpInv

--------------------------------------------------------------------------------
\* With a Slotted table every processor that has left the trampoline has a stack
\* that was allocated, and none has the stack of another, in whatever order they
\* run and whichever SIPI is lost.
THEOREM StacksOwn ==
  ASSUME \A m \in Madts : Slotted(m)
  PROVE  SmpSpec => []OwnStack
<1>1. SmpInit => SmpInv
  <2> SUFFICES ASSUME SmpInit PROVE SmpInv
    OBVIOUS
  <2>1. \A a \in Apic : cpu[a] = IF a = bsp_id THEN "boot" ELSE "reset"
    BY Zenon DEF SmpInit
  <2> QED BY <2>1 DEF SmpInit, SmpInv, Apic
<1>2. SmpInv /\ [SmpNext]_smpVars => SmpInv'
  <2> SUFFICES ASSUME SmpInv, [SmpNext]_smpVars PROVE SmpInv'
    OBVIOUS
  <2>1. CASE UNCHANGED smpVars
    <3>1. Apic' = Apic
      BY <2>1, Zenon DEF smpVars, Apic
    <3> QED BY <2>1, <3>1, Zenon DEF smpVars, SmpInv
  <2> QED BY <2>1, smp_init_step, LoadStack_step, ap_start_step, Zenon DEF SmpNext
<1>3. SmpInv => OwnStack
  <2> SUFFICES ASSUME SmpInv PROVE OwnStack
    OBVIOUS
  <2>1. \A a \in Apic : a # Junk
    BY ApicNat DEF SmpInv, Apic, Junk
  <2> QED BY <2>1, Zenon DEF SmpInv, OwnStack
<1> QED BY <1>1, <1>2, <1>3, PTL DEF SmpSpec

--------------------------------------------------------------------------------
(***************************************************************************)
(* The bitmap: word and bit of a position, position of a bit in a word.    *)
(***************************************************************************)
Positions == 0 .. Size - 1

\* What the code assumes of the sizes.
LEMMA Sizes1 == W \in Nat /\ W > 0 /\ Size \in Nat /\ Size > 0 /\ SizeT \in Nat /\ SizeT > 2 * Size
BY BitmapAssumption

\* The word and the bit of a position ...
LEMMA PartsOf ==
  ASSUME NEW b \in Nat
  PROVE  b \div W \in Nat /\ b % W \in FullWord /\ b = (b \div W) * W + (b % W)
BY Sizes1, Divided, Zenon DEF FullWord

\* ... and the position of a bit in a word.
LEMMA PartsAre ==
  ASSUME NEW i \in Nat, NEW r \in FullWord
  PROVE  i * W + r \in Nat /\ (i * W + r) \div W = i /\ (i * W + r) % W = r
<1>1. W \in Nat /\ W > 0 /\ r \in 0 .. W - 1
  BY Sizes1 DEF FullWord
<1>2. i * W + r \in Nat
  BY <1>1
<1> QED BY <1>1, <1>2, Divided, OneQuotient

\* A bit of the bitmap is in one of its words.
LEMMA InWords ==
  ASSUME NEW b \in Positions
  PROVE  b \div W \in Words
<1> DEFINE t == total_words
           q == b \div W
<1>1. W \in Nat /\ W > 0 /\ Size \in Nat /\ b \in Nat /\ b <= Size - 1
  BY Sizes1 DEF Positions
<1>2. Size + W - 1 \in Nat
  BY <1>1
<1>3. t \in Nat /\ Size + W - 1 < t * W + W
  <2>1. t \in Nat /\ (Size + W - 1) % W \in 0 .. W - 1 /\ Size + W - 1 = t * W + ((Size + W - 1) % W)
    BY <1>1, <1>2, Divided, Zenon DEF total_words
  <2>2. PICK r \in 0 .. W - 1 : Size + W - 1 = t * W + r
    BY <2>1, Zenon
  <2>3. t \in Nat
    BY <2>1, Zenon
  <2> HIDE DEF t
  <2> QED BY <1>1, <2>2, <2>3
<1>4. q \in Nat /\ q * W <= b
  <2>1. q \in Nat /\ b % W \in 0 .. W - 1 /\ b = q * W + (b % W)
    BY <1>1, Divided, Zenon
  <2>2. PICK r \in 0 .. W - 1 : b = q * W + r
    BY <2>1, Zenon
  <2>3. q \in Nat
    BY <2>1, Zenon
  <2> HIDE DEF q
  <2> QED BY <1>1, <2>2, <2>3
<1> HIDE DEF t, q
<1>5. ~(t < q + 1)
  <2>1. q + 1 \in Nat
    BY <1>4
  <2>2. (q + 1) * W = q * W + W
    BY <1>1, <1>4
  <2> QED BY <1>1, <1>3, <1>4, <2>1, <2>2, WordStep
<1>6. q \in 0 .. t - 1
  BY <1>3, <1>4, <1>5
<1> QED BY <1>6 DEF Words, t, q

--------------------------------------------------------------------------------
(***************************************************************************)
(* The set of a bitmap, and what the operations on one bit do to it.       *)
(***************************************************************************)
\* Words of bits, none set at or behind Size.
Typed(m) ==
  /\ m \in [Words -> SUBSET FullWord]
  /\ \A i \in Words : \A r \in m[i] : i * W + r < Size

\* Words are numbered from 0.
LEMMA WordNat == total_words \in Nat /\ Words = 0 .. total_words - 1 /\ Words \subseteq Nat
<1>1. Size + W - 1 \in Nat /\ W \in Nat /\ W > 0
  BY Sizes1
<1>2. total_words \in Nat
  BY <1>1, Divided, Zenon DEF total_words
<1> QED BY <1>2 DEF Words

\* A position is in the set when its bit is set in its word.
LEMMA BitsAre ==
  ASSUME NEW m, Typed(m)
  PROVE  /\ Bits(m) \subseteq Positions
         /\ \A b \in Positions : b \in Bits(m) <=> b % W \in m[b \div W]
<1>1. ASSUME NEW b \in Bits(m)
      PROVE  b \in Positions /\ b % W \in m[b \div W]
  <2>0. PICK i \in Words : \E r \in m[i] : b = i * W + r
    BY Zenon DEF Bits
  <2>1. PICK r \in m[i] : b = i * W + r
    BY <2>0
  <2>2. i \in Nat /\ r \in FullWord /\ i * W + r < Size
    BY WordNat, Zenon DEF Typed
  <2>3. b \in Nat /\ b \div W = i /\ b % W = r /\ b < Size
    BY <2>1, <2>2, PartsAre, Zenon
  <2>4. b \in Positions
    BY <2>3, Sizes1 DEF Positions
  <2> QED BY <2>1, <2>3, <2>4, Zenon
<1>2. ASSUME NEW b \in Positions, b % W \in m[b \div W]
      PROVE  b \in Bits(m)
  <2>1. b \div W \in Words
    BY InWords
  <2>2. b \in Nat
    BY Sizes1 DEF Positions
  <2>3. b = (b \div W) * W + (b % W)
    BY <2>2, PartsOf, Zenon
  <2>4. PICK i, r : i = b \div W /\ r = b % W
    BY Zenon
  <2>5. i \in Words /\ r \in m[i] /\ b = i * W + r
    BY <1>2, <2>1, <2>3, <2>4, Zenon
  <2>6. b \in {i * W + x : x \in m[i]}
    BY <2>5, Zenon
  <2> QED BY <2>5, <2>6 DEF Bits
<1> QED BY <1>1, <1>2, Zenon

\* Two positions with the same word and bit are the same.
LEMMA SamePosition ==
  ASSUME NEW a \in Nat, NEW b \in Nat, a \div W = b \div W, a % W = b % W
  PROVE  a = b
<1>1. a = (a \div W) * W + (a % W) /\ b = (b \div W) * W + (b % W)
  BY PartsOf, Zenon
<1> QED BY <1>1, Zenon

\* bitmap_set adds the position, unless it is behind the end.
LEMMA SetIs ==
  ASSUME NEW m, Typed(m), NEW b \in Nat
  PROVE  /\ Typed(bitmap_set(m, b))
         /\ Bits(bitmap_set(m, b)) = Bits(m) \cup ({b} \cap Positions)
<1>1. CASE b >= Size
  <2>1. b \notin Positions /\ bitmap_set(m, b) = m
    BY <1>1, Sizes1 DEF Positions, bitmap_set
  <2> QED BY <2>1, Zenon
<1>2. CASE ~(b >= Size)
  <2> DEFINE i == b \div W
             r == b % W
             n == bitmap_set(m, b)
  <2>1. b \in Positions
    BY <1>2, Sizes1 DEF Positions
  <2>2. i \in Words /\ r \in FullWord /\ b = i * W + r /\ b < Size
    BY <1>2, <2>1, InWords, PartsOf, Sizes1
  <2>3. n = [m EXCEPT ![i] = m[i] \cup {r}]
    BY <1>2, Zenon DEF bitmap_set
  <2>4. /\ n[i] = m[i] \cup {r} /\ \A j \in Words : j # i => n[j] = m[j]
        /\ n \in [Words -> SUBSET FullWord]
    BY <2>2, <2>3 DEF Typed
  <2> HIDE DEF i, r, n
  <2>5. Typed(n)
    BY <2>2, <2>4, Zenon DEF Typed
  <2>6. ASSUME NEW a \in Positions
        PROVE  a \in Bits(n) <=> a \in Bits(m) \/ a = b
    <3>1. a \in Nat /\ a \div W \in Words
      BY InWords, Sizes1 DEF Positions
    <3>2. a \in Bits(n) <=> a % W \in n[a \div W]
      BY <2>5, BitsAre, Zenon
    <3>3. a \in Bits(m) <=> a % W \in m[a \div W]
      BY BitsAre, Zenon
    <3>4. a = b <=> a \div W = i /\ a % W = r
      BY <3>1, SamePosition, Zenon DEF i, r
    <3> QED BY <2>4, <3>1, <3>2, <3>3, <3>4, Zenon
  <2>7. Bits(n) \subseteq Positions /\ Bits(m) \subseteq Positions
    BY <2>5, BitsAre, Zenon
  <2>8. Bits(n) = Bits(m) \cup ({b} \cap Positions)
    BY <2>1, <2>6, <2>7, Zenon
  <2> QED BY <2>5, <2>8, Zenon DEF n
<1> QED BY <1>1, <1>2

\* bitmap_clear takes the position out.
LEMMA ClearIs ==
  ASSUME NEW m, Typed(m), NEW b \in Nat
  PROVE  /\ Typed(bitmap_clear(m, b))
         /\ Bits(bitmap_clear(m, b)) = Bits(m) \ {b}
<1>1. CASE b >= Size
  <2>1. b \notin Positions /\ bitmap_clear(m, b) = m
    BY <1>1, Sizes1 DEF Positions, bitmap_clear
  <2> QED BY <2>1, BitsAre, Zenon
<1>2. CASE ~(b >= Size)
  <2> DEFINE i == b \div W
             r == b % W
             n == bitmap_clear(m, b)
  <2>1. b \in Positions
    BY <1>2, Sizes1 DEF Positions
  <2>2. i \in Words /\ r \in FullWord
    BY <2>1, InWords, PartsOf, Zenon
  <2>3. n = [m EXCEPT ![i] = m[i] \ {r}]
    BY <1>2, Zenon DEF bitmap_clear
  <2>4. /\ n[i] = m[i] \ {r} /\ \A j \in Words : j # i => n[j] = m[j]
        /\ n \in [Words -> SUBSET FullWord]
    BY <2>2, <2>3 DEF Typed
  <2> HIDE DEF i, r, n
  <2>5. Typed(n)
    BY <2>2, <2>4, Zenon DEF Typed
  <2>6. ASSUME NEW a \in Positions
        PROVE  a \in Bits(n) <=> a \in Bits(m) /\ a # b
    <3>1. a \in Nat /\ a \div W \in Words
      BY InWords, Sizes1 DEF Positions
    <3>2. a \in Bits(n) <=> a % W \in n[a \div W]
      BY <2>5, BitsAre, Zenon
    <3>3. a \in Bits(m) <=> a % W \in m[a \div W]
      BY BitsAre, Zenon
    <3>4. a = b <=> a \div W = i /\ a % W = r
      BY <3>1, SamePosition, Zenon DEF i, r
    <3> QED BY <2>4, <3>1, <3>2, <3>3, <3>4, Zenon
  <2>7. Bits(n) \subseteq Positions /\ Bits(m) \subseteq Positions
    BY <2>5, BitsAre, Zenon
  <2>8. Bits(n) = Bits(m) \ {b}
    BY <2>6, <2>7, Zenon
  <2> QED BY <2>5, <2>8, Zenon DEF n
<1> QED BY <1>1, <1>2

--------------------------------------------------------------------------------
(***************************************************************************)
(* The loops.                                                              *)
(***************************************************************************)
\* w holds the bitmaps of a loop that sets n bits from start on.
Setting(w, m, start, n) ==
  w = [k \in 0 .. n |-> IF k = 0 THEN m ELSE bitmap_set(w[k - 1], start + (k - 1))]

Clearing(w, m, start, n) ==
  w = [k \in 0 .. n |-> IF k = 0 THEN m ELSE bitmap_clear(w[k - 1], start + (k - 1))]

\* One round more.
LEMMA SettingNext ==
  ASSUME NEW m, NEW start, NEW n \in Nat, NEW w, Setting(w, m, start, n)
  PROVE  \E e : Setting(e, m, start, n + 1)
<1> DEFINE F(f, k) == IF k = 0 THEN m ELSE bitmap_set(f[k - 1], start + (k - 1))
<1> DEFINE e == [k \in 0 .. n + 1 |-> IF k = n + 1 THEN bitmap_set(w[n], start + n) ELSE w[k]]
<1>1. \A k \in 0 .. n : w[k] = F(w, k)
  BY Zenon DEF Setting
<1>2. ASSUME NEW k \in 0 .. n + 1
      PROVE  e[k] = F(e, k)
  <2>1. CASE k = 0
    BY <1>1, <2>1
  <2>2. CASE k \in 1 .. n
    <3>1. k \in 0 .. n /\ k # n + 1 /\ k - 1 \in 0 .. n /\ k - 1 # n + 1 /\ k - 1 \in 0 .. n + 1 /\ k # 0
      BY <2>2
    <3>2. e[k] = w[k] /\ e[k - 1] = w[k - 1]
      BY <3>1, Zenon
    <3> HIDE DEF e
    <3> QED BY <1>1, <3>1, <3>2, Zenon
  <2>3. CASE k = n + 1
    <3>1. n \in 0 .. n + 1 /\ n # n + 1 /\ k - 1 = n /\ k # 0
      BY <2>3
    <3>2. e[k] = bitmap_set(w[n], start + n) /\ e[n] = w[n]
      BY <2>3, <3>1, Zenon
    <3> HIDE DEF e
    <3> QED BY <3>1, <3>2
  <2> QED BY <2>1, <2>2, <2>3
<1>3. e = [k \in 0 .. n + 1 |-> F(e, k)]
  BY <1>2, Zenon
<1> QED BY <1>3, Zenon DEF Setting

\* The loop is a function of the number of rounds ...
LEMMA SettingExists ==
  ASSUME NEW m, NEW start, NEW n \in Nat
  PROVE  \E w : Setting(w, m, start, n)
<1> DEFINE T == {k \in Nat : ~\E w : Setting(w, m, start, k)}
<1>1. SUFFICES ASSUME T # {} PROVE FALSE
  OBVIOUS
<1>2. PICK k \in T : \A j \in T : k <= j
  <2>1. T \subseteq Nat
    OBVIOUS
  <2> QED BY <1>1, <2>1, LeastNat, Zenon
<1>3. CASE k = 0
  <2>1. Setting([j \in 0 .. 0 |-> m], m, start, 0)
    BY DEF Setting
  <2> QED BY <1>2, <1>3, <2>1
<1>4. CASE k # 0
  <2>1. k - 1 \in Nat /\ k - 1 \notin T /\ k - 1 + 1 = k
    BY <1>2, <1>4
  <2>2. PICK w : Setting(w, m, start, k - 1)
    BY <2>1
  <2> QED BY <1>2, <2>1, <2>2, SettingNext, Zenon
<1> QED BY <1>3, <1>4

\* ... and adds the positions of a run, those in the bitmap.
LEMMA SetAllIs ==
  ASSUME NEW m, Typed(m), NEW start \in Nat, NEW count \in Nat
  PROVE  /\ Typed(SetAll(m, start, count))
         /\ Bits(SetAll(m, start, count)) = Bits(m) \cup ((start .. start + count - 1) \cap Positions)
<1> DEFINE c == CHOOSE w : Setting(w, m, start, count)
<1>1. Setting(c, m, start, count)
  BY SettingExists, Zenon
<1>2. SetAll(m, start, count) = c[count]
  BY Zenon DEF SetAll, Setting
<1> HIDE DEF c
<1>3. /\ c[0] = m
      /\ \A k \in 1 .. count : c[k] = bitmap_set(c[k - 1], start + (k - 1))
  <2>1. \A k \in 0 .. count : c[k] = IF k = 0 THEN m ELSE bitmap_set(c[k - 1], start + (k - 1))
    BY <1>1, Zenon DEF Setting
  <2>2. 0 \in 0 .. count /\ \A k \in 1 .. count : k \in 0 .. count /\ k # 0
    OBVIOUS
  <2> QED BY <2>1, <2>2, Zenon
<1> DEFINE Done(k) == /\ Typed(c[k])
                      /\ Bits(c[k]) = Bits(m) \cup ((start .. start + k - 1) \cap Positions)
           T == {k \in 0 .. count : ~Done(k)}
<1>4. SUFFICES ASSUME T # {} PROVE FALSE
  BY <1>2
<1>5. PICK k \in T : \A j \in T : k <= j
  <2>1. T \subseteq Nat
    OBVIOUS
  <2> QED BY <1>4, <2>1, LeastNat, Zenon
<1>6. CASE k = 0
  <2>1. start .. start + 0 - 1 = {}
    OBVIOUS
  <2>2. Done(0)
    BY <1>3, <2>1, Zenon
  <2> QED BY <1>5, <1>6, <2>2
<1>7. CASE k # 0
  <2>1. k - 1 \in 0 .. count /\ k - 1 \notin T /\ k \in 1 .. count /\ start + (k - 1) \in Nat
    BY <1>5, <1>7
  <2>2. Done(k - 1)
    BY <2>1, Zenon
  <2>3. c[k] = bitmap_set(c[k - 1], start + (k - 1))
    BY <1>3, <2>1, Zenon
  <2>4. start .. start + k - 1 = (start .. start + (k - 1) - 1) \cup {start + (k - 1)}
    BY <2>1
  <2>5. Typed(c[k]) /\ Bits(c[k]) = Bits(c[k - 1]) \cup ({start + (k - 1)} \cap Positions)
    <3>1. Typed(c[k - 1])
      BY <2>2, Zenon
    <3> QED BY <2>1, <2>3, <3>1, SetIs, SMTT(30)
  <2>6. Done(k)
    BY <2>2, <2>4, <2>5, Zenon
  <2> QED BY <1>5, <2>6, Zenon
<1> QED BY <1>6, <1>7

\* The same for a loop that clears.
LEMMA ClearingNext ==
  ASSUME NEW m, NEW start, NEW n \in Nat, NEW w, Clearing(w, m, start, n)
  PROVE  \E e : Clearing(e, m, start, n + 1)
<1> DEFINE F(f, k) == IF k = 0 THEN m ELSE bitmap_clear(f[k - 1], start + (k - 1))
<1> DEFINE e == [k \in 0 .. n + 1 |-> IF k = n + 1 THEN bitmap_clear(w[n], start + n) ELSE w[k]]
<1>1. \A k \in 0 .. n : w[k] = F(w, k)
  BY Zenon DEF Clearing
<1>2. ASSUME NEW k \in 0 .. n + 1
      PROVE  e[k] = F(e, k)
  <2>1. CASE k = 0
    BY <1>1, <2>1
  <2>2. CASE k \in 1 .. n
    <3>1. k \in 0 .. n /\ k # n + 1 /\ k - 1 \in 0 .. n /\ k - 1 # n + 1 /\ k - 1 \in 0 .. n + 1 /\ k # 0
      BY <2>2
    <3>2. e[k] = w[k] /\ e[k - 1] = w[k - 1]
      BY <3>1, Zenon
    <3> HIDE DEF e
    <3> QED BY <1>1, <3>1, <3>2, Zenon
  <2>3. CASE k = n + 1
    <3>1. n \in 0 .. n + 1 /\ n # n + 1 /\ k - 1 = n /\ k # 0
      BY <2>3
    <3>2. e[k] = bitmap_clear(w[n], start + n) /\ e[n] = w[n]
      BY <2>3, <3>1, Zenon
    <3> HIDE DEF e
    <3> QED BY <3>1, <3>2
  <2> QED BY <2>1, <2>2, <2>3
<1>3. e = [k \in 0 .. n + 1 |-> F(e, k)]
  BY <1>2, Zenon
<1> QED BY <1>3, Zenon DEF Clearing

\* The loop is a function of the number of rounds ...
LEMMA ClearingExists ==
  ASSUME NEW m, NEW start, NEW n \in Nat
  PROVE  \E w : Clearing(w, m, start, n)
<1> DEFINE T == {k \in Nat : ~\E w : Clearing(w, m, start, k)}
<1>1. SUFFICES ASSUME T # {} PROVE FALSE
  OBVIOUS
<1>2. PICK k \in T : \A j \in T : k <= j
  <2>1. T \subseteq Nat
    OBVIOUS
  <2> QED BY <1>1, <2>1, LeastNat, Zenon
<1>3. CASE k = 0
  <2>1. Clearing([j \in 0 .. 0 |-> m], m, start, 0)
    BY DEF Clearing
  <2> QED BY <1>2, <1>3, <2>1
<1>4. CASE k # 0
  <2>1. k - 1 \in Nat /\ k - 1 \notin T /\ k - 1 + 1 = k
    BY <1>2, <1>4
  <2>2. PICK w : Clearing(w, m, start, k - 1)
    BY <2>1
  <2> QED BY <1>2, <2>1, <2>2, ClearingNext, Zenon
<1> QED BY <1>3, <1>4

\* ... and takes the positions of a run out.
LEMMA ClearAllIs ==
  ASSUME NEW m, Typed(m), NEW start \in Nat, NEW count \in Nat
  PROVE  /\ Typed(ClearAll(m, start, count))
         /\ Bits(ClearAll(m, start, count)) = Bits(m) \ (start .. start + count - 1)
<1> DEFINE c == CHOOSE w : Clearing(w, m, start, count)
<1>1. Clearing(c, m, start, count)
  BY ClearingExists, Zenon
<1>2. ClearAll(m, start, count) = c[count]
  BY Zenon DEF ClearAll, Clearing
<1> HIDE DEF c
<1>3. /\ c[0] = m
      /\ \A k \in 1 .. count : c[k] = bitmap_clear(c[k - 1], start + (k - 1))
  <2>1. \A k \in 0 .. count : c[k] = IF k = 0 THEN m ELSE bitmap_clear(c[k - 1], start + (k - 1))
    BY <1>1, Zenon DEF Clearing
  <2>2. 0 \in 0 .. count /\ \A k \in 1 .. count : k \in 0 .. count /\ k # 0
    OBVIOUS
  <2> QED BY <2>1, <2>2, Zenon
<1> DEFINE Done(k) == /\ Typed(c[k])
                      /\ Bits(c[k]) = Bits(m) \ (start .. start + k - 1)
           T == {k \in 0 .. count : ~Done(k)}
<1>4. SUFFICES ASSUME T # {} PROVE FALSE
  BY <1>2
<1>5. PICK k \in T : \A j \in T : k <= j
  <2>1. T \subseteq Nat
    OBVIOUS
  <2> QED BY <1>4, <2>1, LeastNat, Zenon
<1>6. CASE k = 0
  <2>1. start .. start + 0 - 1 = {}
    OBVIOUS
  <2>2. Done(0)
    BY <1>3, <2>1, Zenon
  <2> QED BY <1>5, <1>6, <2>2
<1>7. CASE k # 0
  <2>1. k - 1 \in 0 .. count /\ k - 1 \notin T /\ k \in 1 .. count /\ start + (k - 1) \in Nat
    BY <1>5, <1>7
  <2>2. Done(k - 1)
    BY <2>1, Zenon
  <2>3. c[k] = bitmap_clear(c[k - 1], start + (k - 1))
    BY <1>3, <2>1, Zenon
  <2>4. start .. start + k - 1 = (start .. start + (k - 1) - 1) \cup {start + (k - 1)}
    BY <2>1
  <2>5. Typed(c[k]) /\ Bits(c[k]) = Bits(c[k - 1]) \ {start + (k - 1)}
    <3>1. Typed(c[k - 1])
      BY <2>2, Zenon
    <3> QED BY <2>1, <2>3, <3>1, ClearIs, SMTT(30)
  <2>6. Done(k)
    BY <2>2, <2>4, <2>5, Zenon
  <2> QED BY <1>5, <2>6, Zenon
<1> QED BY <1>6, <1>7

--------------------------------------------------------------------------------
(***************************************************************************)
(* The searches.                                                           *)
(***************************************************************************)
\* Positions are ordered by word, then by bit.
LEMMA WordOrder ==
  ASSUME NEW w \in Nat, w > 0, NEW i \in Nat, NEW j \in Nat, NEW r \in 0 .. w - 1, NEW s \in 0 .. w - 1
  PROVE  i * w + r >= j * w + s <=> i >= j /\ (i = j => r >= s)
<1>1. CASE i < j
  BY <1>1, WordStep
<1>2. CASE i = j
  BY <1>2
<1>3. CASE j < i
  BY <1>3, WordStep
<1> QED BY <1>1, <1>2, <1>3

\* Positions are ordered by word, then by bit, as the searches visit them.
LEMMA PositionOrder ==
  ASSUME NEW a \in Nat, NEW b \in Nat
  PROVE  a >= b <=> a \div W >= b \div W /\ (a \div W = b \div W => a % W >= b % W)
<1>1. /\ a \div W \in Nat /\ a % W \in 0 .. W - 1 /\ a = (a \div W) * W + (a % W)
      /\ b \div W \in Nat /\ b % W \in 0 .. W - 1 /\ b = (b \div W) * W + (b % W)
  BY PartsOf, Zenon DEF FullWord
<1>2. PICK i, r, j, s : i = a \div W /\ r = a % W /\ j = b \div W /\ s = b % W
  BY Zenon
<1>3. /\ i \in Nat /\ r \in 0 .. W - 1 /\ a = i * W + r
      /\ j \in Nat /\ s \in 0 .. W - 1 /\ b = j * W + s
  BY <1>1, <1>2, Zenon
<1>4. i * W + r >= j * W + s <=> i >= j /\ (i = j => r >= s)
  BY <1>3, WordOrder, Sizes1, ZenonT(60)
<1>5. a >= b <=> i >= j /\ (i = j => r >= s)
  BY <1>3, <1>4, Zenon
<1> QED BY <1>2, <1>5, Zenon

\* FirstOf is what the abstract set calls Least.
LEMMA FirstIsLeast ==
  ASSUME NEW S
  PROVE  FirstOf(S) = Abstract!Least(S)
BY Zenon DEF FirstOf, Abstract!Least, Min

\* The search for a clear bit skips words that are full and the bits before start.
LEMMA ZeroIs ==
  ASSUME Typed(map), NEW start \in Nat
  PROVE  bitmap_find_first_zero(map, start)
           = Abstract!Least({b \in Abstract!Positions \ Bits(map) : b >= start})
<1> DEFINE S == {b \in Visited(map, start, FullWord) : b % W \notin map[b \div W]}
           T == {b \in Abstract!Positions \ Bits(map) : b >= start}
<1>1. Abstract!Positions = Positions /\ Positions \subseteq Nat
  BY Sizes1 DEF Abstract!Positions, Positions
<1>2. ASSUME NEW b \in Positions
      PROVE  b \in S <=> b \in T
  <2>1. b >= start <=> b \div W >= start \div W /\ (b \div W = start \div W => b % W >= start % W)
    BY <1>1, PositionOrder, Zenon
  <2>2. b \in Bits(map) <=> b % W \in map[b \div W]
    BY BitsAre, Zenon
  <2>3. b % W \in FullWord
    BY <1>1, PartsOf, Zenon
  <2> QED BY <1>1, <2>1, <2>2, <2>3, Zenon DEF Visited, Positions
<1>3. S \subseteq Positions /\ T \subseteq Positions
  BY <1>1, Zenon DEF Visited, Positions
<1>4. S = T
  BY <1>2, <1>3, Zenon
<1> HIDE DEF T
<1>5. bitmap_find_first_zero(map, start) = FirstOf(S)
  BY Zenon DEF bitmap_find_first_zero
<1> HIDE DEF S
<1> QED BY <1>4, <1>5, FirstIsLeast, Zenon DEF T

\* The search for a set bit skips words that are empty.
LEMMA SetFoundIs ==
  ASSUME Typed(map), NEW start \in Nat
  PROVE  bitmap_find_first_set(map, start) = Abstract!Least({b \in Bits(map) : b >= start})
<1> DEFINE S == {b \in Visited(map, start, {}) : b % W \in map[b \div W]}
           T == {b \in Bits(map) : b >= start}
<1>1. Bits(map) \subseteq Positions /\ Positions \subseteq Nat
  BY BitsAre, Sizes1 DEF Positions
<1>2. ASSUME NEW b \in Positions
      PROVE  b \in S <=> b \in T
  <2>1. b >= start <=> b \div W >= start \div W /\ (b \div W = start \div W => b % W >= start % W)
    BY <1>1, PositionOrder, Zenon
  <2>2. b \in Bits(map) <=> b % W \in map[b \div W]
    BY BitsAre, Zenon
  <2> QED BY <2>1, <2>2, Zenon DEF Visited, Positions
<1>3. S \subseteq Positions /\ T \subseteq Positions
  BY <1>1, Zenon DEF Visited, Positions
<1>4. S = T
  BY <1>2, <1>3, Zenon
<1> HIDE DEF T
<1>5. bitmap_find_first_set(map, start) = FirstOf(S)
  BY Zenon DEF bitmap_find_first_set
<1> HIDE DEF S
<1> QED BY <1>4, <1>5, FirstIsLeast, Zenon DEF T

\* The remainder of a number below the divisor.
LEMMA SmallRest ==
  ASSUME NEW n \in Nat, NEW x \in 0 .. n - 1
  PROVE  x % n = x
OBVIOUS

\* The run bitmap_alloc_range chooses is the first that is free.
LEMMA RunIs ==
  ASSUME Typed(map), NEW start \in 0 .. Size, NEW count \in 0 .. Size
  PROVE  bitmap_alloc_range(map, count, start) = Abstract!Least(Abstract!FreeRuns(count, start))
<1> DEFINE T == Abstract!FreeRuns(count, start)
<1>1. CASE count = 0
  <2>1. T = {}
    BY <1>1 DEF Abstract!FreeRuns
  <2> QED BY <1>1, <2>1 DEF bitmap_alloc_range, Abstract!Least
<1>2. CASE count # 0
  <2> DEFINE S == {i \in start .. LastStart(count) : FreeRun(map, i, count)}
  <2>1. count \in Nat /\ count > 0 /\ start \in Nat /\ Size \in Nat /\ SizeT \in Nat /\ SizeT > 2 * Size
    BY <1>2, Sizes1
  <2>2. LastStart(count) = Size - count
    <3>1. Size - count \in 0 .. SizeT - 1
      BY <2>1
    <3> QED BY <2>1, <3>1, SmallRest, Zenon DEF LastStart
  <2>3. ASSUME NEW i \in start .. Size - count
        PROVE  FreeRun(map, i, count) <=> Abstract!Run(i, count) \cap Bits(map) = {}
    <3>1. ASSUME NEW j \in 0 .. count - 1
          PROVE  bitmap_test(map, (i + j) % SizeT) <=> i + j \in Bits(map)
      <4>1. i + j \in 0 .. SizeT - 1 /\ i + j \in Positions /\ i + j < Size
        BY <2>1 DEF Positions
      <4>2. (i + j) % SizeT = i + j
        BY <2>1, <4>1, SmallRest, Zenon
      <4>3. PICK b : b = i + j
        OBVIOUS
      <4>4. bitmap_test(map, b) <=> b \in Bits(map)
        BY <4>1, <4>3, BitsAre, Zenon DEF bitmap_test
      <4> QED BY <4>2, <4>3, <4>4, Zenon
    <3>2. \A b : b \in Abstract!Run(i, count) <=> \E j \in 0 .. count - 1 : b = i + j
      <4>1. ASSUME NEW b \in Abstract!Run(i, count) PROVE b - i \in 0 .. count - 1 /\ b = i + (b - i)
        BY <2>1 DEF Abstract!Run
      <4>2. ASSUME NEW j \in 0 .. count - 1 PROVE i + j \in Abstract!Run(i, count)
        BY <2>1 DEF Abstract!Run
      <4> QED BY <4>1, <4>2, Zenon
    <3>3. FreeRun(map, i, count) <=> \A j \in 0 .. count - 1 : i + j \notin Bits(map)
      BY <3>1, Zenon DEF FreeRun
    <3> QED BY <3>2, <3>3, Zenon
  <2>4. S = T
    BY <2>1, <2>2, <2>3, Zenon DEF Abstract!FreeRuns
  <2>5. bitmap_alloc_range(map, count, start) = FirstOf(S)
    BY <1>2, Zenon DEF bitmap_alloc_range
  <2> HIDE DEF S, T
  <2> QED BY <2>4, <2>5, FirstIsLeast, Zenon DEF T
<1> QED BY <1>1, <1>2

--------------------------------------------------------------------------------
(***************************************************************************)
(* bitmap_count_set.                                                       *)
(***************************************************************************)
\* What a word counts for.
Valid(m, i) == Cardinality(m[i] \cap ValidBits(i))

\* w holds the counts of the first n words.
Counting(w, m, n) == w = [k \in 0 .. n |-> IF k = 0 THEN 0 ELSE w[k - 1] + Valid(m, k - 1)]

\* The loop of bitmap_count_set: one word more ...
LEMMA CountingNext ==
  ASSUME NEW m, NEW n \in Nat, NEW w, Counting(w, m, n)
  PROVE  \E e : Counting(e, m, n + 1)
<1> DEFINE F(f, k) == IF k = 0 THEN 0 ELSE f[k - 1] + Valid(m, k - 1)
<1> DEFINE e == [k \in 0 .. n + 1 |-> IF k = n + 1 THEN w[n] + Valid(m, n) ELSE w[k]]
<1>1. \A k \in 0 .. n : w[k] = F(w, k)
  BY Zenon DEF Counting
<1>2. ASSUME NEW k \in 0 .. n + 1
      PROVE  e[k] = F(e, k)
  <2>1. CASE k = 0
    BY <1>1, <2>1
  <2>2. CASE k \in 1 .. n
    <3>1. k \in 0 .. n /\ k # n + 1 /\ k - 1 \in 0 .. n /\ k - 1 # n + 1 /\ k - 1 \in 0 .. n + 1 /\ k # 0
      BY <2>2
    <3>2. e[k] = w[k] /\ e[k - 1] = w[k - 1]
      BY <3>1, Zenon
    <3> HIDE DEF e
    <3> QED BY <1>1, <3>1, <3>2, Zenon
  <2>3. CASE k = n + 1
    <3>1. n \in 0 .. n + 1 /\ n # n + 1 /\ k - 1 = n /\ k # 0
      BY <2>3
    <3>2. e[k] = w[n] + Valid(m, n) /\ e[n] = w[n]
      BY <2>3, <3>1, Zenon
    <3> HIDE DEF e
    <3> QED BY <3>1, <3>2
  <2> QED BY <2>1, <2>2, <2>3, SMTT(30)
<1>3. e = [k \in 0 .. n + 1 |-> F(e, k)]
  BY <1>2, Zenon
<1> QED BY <1>3, Zenon DEF Counting

\* ... so it is a function of the number of words.
LEMMA CountingExists ==
  ASSUME NEW m, NEW n \in Nat
  PROVE  \E w : Counting(w, m, n)
<1> DEFINE T == {k \in Nat : ~\E w : Counting(w, m, k)}
<1>1. SUFFICES ASSUME T # {} PROVE FALSE
  OBVIOUS
<1>2. PICK k \in T : \A j \in T : k <= j
  <2>1. T \subseteq Nat
    OBVIOUS
  <2> QED BY <1>1, <2>1, LeastNat, Zenon
<1>3. CASE k = 0
  <2>1. Counting([j \in 0 .. 0 |-> 0], m, 0)
    BY DEF Counting
  <2> QED BY <1>2, <1>3, <2>1
<1>4. CASE k # 0
  <2>1. k - 1 \in Nat /\ k - 1 \notin T /\ k - 1 + 1 = k
    BY <1>2, <1>4
  <2>2. PICK w : Counting(w, m, k - 1)
    BY <2>1
  <2> QED BY <1>2, <2>1, <2>2, CountingNext, Zenon
<1> QED BY <1>3, <1>4

\* The word behind a partial last one would begin where the bitmap has ended.
LEMMA LastWord ==
  ASSUME Size % W # 0
  PROVE  total_words - 1 = Size \div W
<1>1. W \in Nat /\ W > 0 /\ Size \in Nat
  BY Sizes1
<1>2. PICK q, s : q = Size \div W /\ s = Size % W
  BY Zenon
<1>3. q \in Nat /\ s \in 0 .. W - 1 /\ s # 0 /\ Size = q * W + s
  BY <1>1, <1>2, Divided, Zenon
<1>4. q + 1 \in Nat /\ s - 1 \in FullWord /\ Size + W - 1 = (q + 1) * W + (s - 1)
  BY <1>1, <1>3 DEF FullWord
<1>5. total_words = q + 1
  BY <1>4, PartsAre, Zenon DEF total_words
<1>6. total_words - 1 = q
  BY <1>3, <1>5
<1> QED BY <1>2, <1>6, Zenon

\* The mask of the last word takes nothing away.
LEMMA AllValid ==
  ASSUME NEW m, Typed(m), NEW i \in Words
  PROVE  m[i] \cap ValidBits(i) = m[i]
<1> SUFFICES ASSUME NEW r \in m[i] PROVE r \in ValidBits(i)
  OBVIOUS
<1>1. r \in FullWord /\ i * W + r < Size /\ i \in Nat
  BY WordNat, Zenon DEF Typed
<1>2. CASE i = total_words - 1 /\ Size % W # 0
  <2>1. i = Size \div W
    BY <1>2, LastWord, Zenon
  <2>2. Size = i * W + (Size % W) /\ Size % W \in FullWord
    BY <2>1, PartsOf, Sizes1, Zenon
  <2>3. PICK s : s = Size % W
    BY Zenon
  <2>4. W \in Nat /\ r \in 0 .. W - 1 /\ s \in 0 .. W - 1 /\ Size = i * W + s
    BY <1>1, <2>2, <2>3, Sizes1, Zenon DEF FullWord
  <2>5. r \in 0 .. s - 1
    BY <1>1, <2>4
  <2> QED BY <1>2, <2>3, <2>5, Zenon DEF ValidBits
<1>3. CASE ~(i = total_words - 1 /\ Size % W # 0)
  BY <1>1, <1>3, Zenon DEF ValidBits
<1> QED BY <1>2, <1>3

\* The positions of a word are as many as its bits.
LEMMA WordCount ==
  ASSUME NEW m, Typed(m), NEW i \in Words
  PROVE  LET T == {b \in Bits(m) : b \div W = i}
         IN  IsFiniteSet(T) /\ Cardinality(T) = Valid(m, i)
<1> DEFINE T == {b \in Bits(m) : b \div W = i}
           g == [r \in m[i] |-> i * W + r]
<1>1. i \in Nat /\ m[i] \subseteq FullWord
  BY WordNat, Zenon DEF Typed
<1>2. \A r \in m[i] : i * W + r \in Nat /\ (i * W + r) \div W = i /\ (i * W + r) % W = r
  BY <1>1, PartsAre, Zenon
<1>3. \A r \in m[i] : i * W + r \in T
  <2> SUFFICES ASSUME NEW r \in m[i] PROVE i * W + r \in T
    BY Zenon
  <2>1. i * W + r \in {i * W + x : x \in m[i]}
    BY Zenon
  <2>2. i * W + r \in Bits(m)
    BY <2>1 DEF Bits
  <2> QED BY <1>2, <2>2, Zenon
<1>4. \A r, s \in m[i] : g[r] = g[s] => r = s
  BY <1>2, Zenon
<1>5. \A b \in T : \E r \in m[i] : g[r] = b
  <2> SUFFICES ASSUME NEW b \in T PROVE \E r \in m[i] : g[r] = b
    BY Zenon
  <2>1. b \in Positions /\ b % W \in m[b \div W] /\ b \div W = i
    BY BitsAre, Zenon
  <2>2. b \in Nat
    BY <2>1, Sizes1 DEF Positions
  <2>3. b = i * W + (b % W) /\ b % W \in m[i]
    BY <2>1, <2>2, PartsOf, Zenon
  <2> QED BY <2>3, Zenon
<1>6. g \in Bijection(m[i], T)
  BY <1>3, <1>4, <1>5, Zenon DEF Bijection, Injection, Surjection, IsInjective
<1>7. IsFiniteSet(m[i])
  <2>1. 0 \in Int /\ W - 1 \in Int
    BY Sizes1
  <2>2. IsFiniteSet(FullWord)
    BY <2>1, FS_Interval, Zenon DEF FullWord
  <2> QED BY <1>1, <2>2, FS_Subset, Zenon
<1> HIDE DEF g, T
<1>8. IsFiniteSet(T) /\ Cardinality(T) = Cardinality(m[i])
  BY <1>6, <1>7, FS_Bijection, Zenon DEF ExistsBijection
<1> QED BY <1>8, AllValid, Zenon DEF Valid, T

\* The count is the size of the set.
LEMMA CountIs ==
  ASSUME NEW m, Typed(m)
  PROVE  bitmap_count_set(m) = Cardinality(Bits(m))
<1> DEFINE N == total_words
           Below(k) == {b \in Bits(m) : b \div W < k}
           In(k) == {b \in Bits(m) : b \div W = k}
           c == CHOOSE w : Counting(w, m, N)
<1>0. N \in Nat /\ Words = 0 .. N - 1
  BY WordNat, Zenon
<1>1. Counting(c, m, N)
  BY <1>0, CountingExists, Zenon
<1>2. bitmap_count_set(m) = c[N]
  BY Zenon DEF bitmap_count_set, Counting, Valid
<1> HIDE DEF c, N
<1>3. /\ c[0] = 0
      /\ \A k \in 1 .. N : c[k] = c[k - 1] + Valid(m, k - 1)
  <2>1. \A k \in 0 .. N : c[k] = IF k = 0 THEN 0 ELSE c[k - 1] + Valid(m, k - 1)
    BY <1>1, Zenon DEF Counting
  <2>2. 0 \in 0 .. N /\ \A k \in 1 .. N : k \in 0 .. N /\ k # 0
    BY <1>0
  <2> QED BY <2>1, <2>2, Zenon
<1>4. \A b \in Bits(m) : b \div W \in 0 .. N - 1
  BY <1>0, BitsAre, InWords, Zenon
<1> DEFINE Done(k) == IsFiniteSet(Below(k)) /\ Cardinality(Below(k)) = c[k]
           T == {k \in 0 .. N : ~Done(k)}
<1>5. T = {}
  <2> SUFFICES ASSUME T # {} PROVE FALSE
    BY Zenon
  <2>1. PICK k \in T : \A j \in T : k <= j
    <3>1. T \subseteq Nat
      BY <1>0
    <3> QED BY <3>1, LeastNat, Zenon
  <2>2. k \in 0 .. N /\ ~Done(k)
    BY <2>1, Zenon
  <2>3. CASE k = 0
    <3>1. Below(0) = {}
      BY <1>4
    <3> QED BY <1>3, <2>2, <2>3, <3>1, FS_EmptySet, Zenon
  <2>4. CASE k # 0
    <3>0. k - 1 \in 0 .. N /\ k \in 1 .. N /\ k - 1 \in 0 .. N - 1 /\ ~(k <= k - 1)
      BY <1>0, <2>2, <2>4
    <3>1. k - 1 \in 0 .. N /\ k - 1 \notin T /\ k \in 1 .. N /\ k - 1 \in Words
      BY <1>0, <2>1, <3>0, Zenon
    <3>2. Done(k - 1)
      BY <3>1, Zenon
    <3>3. IsFiniteSet(In(k - 1)) /\ Cardinality(In(k - 1)) = Valid(m, k - 1)
      BY <3>1, WordCount, Zenon
    <3>4. Below(k) = Below(k - 1) \cup In(k - 1) /\ Below(k - 1) \cap In(k - 1) = {}
      BY <1>4, <3>1
    <3> HIDE DEF Below, In
    <3>5. /\ IsFiniteSet(Below(k))
          /\ Cardinality(Below(k)) = Cardinality(Below(k - 1)) + Cardinality(In(k - 1)) - Cardinality({})
      BY <3>2, <3>3, <3>4, FS_Union, ZenonT(60)
    <3>6. Cardinality(Below(k - 1)) \in Nat /\ Cardinality(In(k - 1)) \in Nat /\ Cardinality({}) = 0
      BY <3>2, <3>3, FS_CardinalityType, FS_EmptySet, Zenon
    <3>7. Cardinality(Below(k)) = Cardinality(Below(k - 1)) + Cardinality(In(k - 1))
      BY <3>5, <3>6
    <3>8. Cardinality(Below(k)) = c[k]
      BY <1>3, <3>1, <3>2, <3>3, <3>7, Zenon
    <3> QED BY <2>2, <3>5, <3>8, Zenon
  <2> QED BY <2>3, <2>4
<1>6. N \in 0 .. N /\ Below(N) = Bits(m)
  BY <1>0, <1>4
<1> HIDE DEF Below
<1>7. Done(N)
  BY <1>5, <1>6, Zenon
<1> QED BY <1>2, <1>6, <1>7, Zenon

--------------------------------------------------------------------------------
(***************************************************************************)
(* The refinement.                                                         *)
(***************************************************************************)
\* The operators of BitSet are the same under its instance.
LEMMA AbstractCounts == \A S : Abstract!Cardinality(S) = Cardinality(S)
BY Zenon DEF Abstract!Cardinality, Abstract!IsFiniteSet, Cardinality, IsFiniteSet

\* An empty bitmap.
LEMMA BitmapStart ==
  ASSUME BitmapInit
  PROVE  Typed(map) /\ Abstract!Init
<1>1. Typed(map)
  BY Zenon DEF BitmapInit, bitmap_init, Typed
<1>2. Bits(map) = {}
  BY DEF BitmapInit, bitmap_init, Bits
<1> QED BY <1>1, <1>2, Zenon DEF Abstract!Init, Abstract!Returned, BitmapInit, Returned

\* Every call keeps the words in shape and is a step of the abstract set.
LEMMA BitmapStep ==
  ASSUME Typed(map), Counts \subseteq 0 .. Size, [BitmapNext]_bitmapVars
  PROVE  Typed(map)' /\ [Abstract!Next]_<<Bits(map), ret>>
<1> DEFINE B == Bits(map)
<1>0. Size \in Nat /\ 0 .. Size \subseteq Nat /\ 1 \in 0 .. Size /\ 1 \in Nat /\ Abstract!Positions = Positions
  BY Sizes1 DEF Abstract!Positions, Positions
<1>1. ASSUME NEW bit \in Starts, SetBit(bit)
      PROVE  Typed(map)' /\ Abstract!Mark(bit, 1)
  <2>1. bit \in Nat /\ Abstract!Run(bit, 1) = {bit}
    BY <1>0 DEF Starts, Abstract!Run
  <2>2. Typed(bitmap_set(map, bit)) /\ Bits(bitmap_set(map, bit)) = Bits(map) \cup ({bit} \cap Positions)
    BY <2>1, SetIs, Zenon
  <2> QED BY <1>0, <1>1, <2>1, <2>2, Zenon DEF SetBit, Abstract!Mark
<1>2. ASSUME NEW bit \in Starts, ClearBit(bit)
      PROVE  Typed(map)' /\ Abstract!Unmark(bit, 1)
  <2>1. bit \in Nat /\ Abstract!Run(bit, 1) = {bit}
    BY <1>0 DEF Starts, Abstract!Run
  <2>2. Typed(bitmap_clear(map, bit)) /\ Bits(bitmap_clear(map, bit)) = Bits(map) \ {bit}
    BY <2>1, ClearIs, Zenon
  <2> QED BY <1>0, <1>2, <2>1, <2>2, Zenon DEF ClearBit, Abstract!Unmark
<1>3. ASSUME NEW bit \in Starts, Search(bit)
      PROVE  Typed(map)' /\ Abstract!Query(bit)
  <2>1. bit \in Nat
    BY <1>0, Zenon DEF Starts
  <2>2. /\ bitmap_find_first_zero(map, bit)
             = Abstract!Least({b \in Abstract!Positions \ Bits(map) : b >= bit})
        /\ bitmap_find_first_set(map, bit) = Abstract!Least({b \in Bits(map) : b >= bit})
        /\ bitmap_count_set(map) = Abstract!Cardinality(Bits(map))
    BY <2>1, ZeroIs, SetFoundIs, CountIs, AbstractCounts, Zenon
  <2> QED BY <1>3, <2>2, Zenon DEF Search, Abstract!Query, Abstract!Returned, Returned
<1>4. ASSUME NEW start \in Starts, NEW count \in Counts, SetRange(start, count)
      PROVE  Typed(map)' /\ Abstract!Mark(start, count)
  <2>1. start \in Nat /\ count \in Nat
    BY <1>0, Zenon DEF Starts
  <2>2. /\ Typed(SetAll(map, start, count))
        /\ Bits(SetAll(map, start, count)) = Bits(map) \cup ((start .. start + count - 1) \cap Positions)
    BY <2>1, SetAllIs, ZenonT(60)
  <2> QED BY <1>0, <1>4, <2>2, Zenon DEF SetRange, Abstract!Mark, Abstract!Run
<1>5. ASSUME NEW start \in Starts, NEW count \in Counts, FreeRange(start, count)
      PROVE  Typed(map)' /\ Abstract!Unmark(start, count)
  <2>1. start \in Nat /\ count \in Nat
    BY <1>0, Zenon DEF Starts
  <2>2. /\ Typed(ClearAll(map, start, count))
        /\ Bits(ClearAll(map, start, count)) = Bits(map) \ (start .. start + count - 1)
    BY <2>1, ClearAllIs, ZenonT(60)
  <2> QED BY <1>0, <1>5, <2>2, Zenon DEF FreeRange, Abstract!Unmark, Abstract!Run
<1>6. ASSUME NEW start \in Starts, NEW count \in Counts, AllocRange(count, start)
      PROVE  Typed(map)' /\ Abstract!Alloc(count, start)
  <2> DEFINE T == Abstract!FreeRuns(count, start)
             v == Abstract!Least(T)
  <2>1. start \in 0 .. Size /\ count \in 0 .. Size /\ start \in Nat /\ count \in Nat
    BY <1>0, Zenon DEF Starts
  <2>2. bitmap_alloc_range(map, count, start) = v
    BY <2>1, RunIs, Zenon
  <2>3. ret' = Abstract!Returned("alloc", <<count, start>>, v)
    BY <1>6, <2>2, Zenon DEF AllocRange, Abstract!Returned, Returned
  <2>4. ret'.val = v
    BY <2>3 DEF Abstract!Returned
  <2>5. CASE v = -1
    <3>1. map' = map
      BY <1>6, <2>4, <2>5, Zenon DEF AllocRange
    <3> QED BY <2>3, <2>4, <2>5, <3>1, Zenon DEF Abstract!Alloc
  <2>6. CASE v # -1
    <3>1. v \in T
      <4>1. T # {} /\ T \subseteq Nat
        BY <2>1, <2>6 DEF Abstract!Least, Abstract!FreeRuns
      <4> HIDE DEF T
      <4>2. \E x \in T : \A y \in T : x <= y
        BY <4>1, LeastNat, Zenon
      <4> QED BY <4>1, <4>2, Zenon DEF Abstract!Least
    <3>2. v \in start .. Size - count
      BY <3>1, Zenon DEF Abstract!FreeRuns
    <3> HIDE DEF v
    <3>3. v \in Nat /\ (v .. v + count - 1) \cap Positions = v .. v + count - 1
      BY <1>0, <2>1, <3>2 DEF Positions
    <3>4. map' = SetAll(map, v, count)
      BY <1>6, <2>4, <2>6, Zenon DEF AllocRange
    <3>5. /\ Typed(SetAll(map, v, count))
          /\ Bits(SetAll(map, v, count)) = Bits(map) \cup ((v .. v + count - 1) \cap Positions)
      BY <2>1, <3>3, SetAllIs, ZenonT(60)
    <3>6. Typed(map') /\ Bits(map') = Bits(map) \cup (v .. v + count - 1)
      BY <3>3, <3>4, <3>5, Zenon
    <3> QED BY <2>3, <2>4, <2>6, <3>6, Zenon DEF Abstract!Alloc, Abstract!Run, v
  <2> QED BY <2>5, <2>6
<1>7. CASE UNCHANGED bitmapVars
  BY <1>7, Zenon DEF bitmapVars
<1>8. CASE BitmapNext
  <2>1. \A bit \in Starts : bit \in 0 .. Size
    BY DEF Starts
  <2> QED BY <1>0, <1>1, <1>2, <1>3, <1>4, <1>5, <1>6, <1>8, <2>1, Zenon DEF BitmapNext, Abstract!Next
<1> QED BY <1>7, <1>8

\* src/bitmap.c is a first-fit set of positions: whatever the size, the word
\* and the calls, every operation changes the set of used positions, and answers,
\* as BitSet does, for counts of at most Size bits.
THEOREM FirstFit ==
  ASSUME Counts \subseteq 0 .. Size
  PROVE  BitmapSpec => ImplementsBitSet
<1>1. BitmapInit => Typed(map) /\ Abstract!Init
  BY BitmapStart
<1>2. Typed(map) /\ [BitmapNext]_bitmapVars => Typed(map)' /\ [Abstract!Next]_<<Bits(map), ret>>
  BY BitmapStep
<1> QED BY <1>1, <1>2, PTL DEF BitmapSpec, ImplementsBitSet, Abstract!Spec

================================================================================
