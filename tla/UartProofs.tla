------------------------------- MODULE UartProofs -------------------------------
(***************************************************************************)
(* The ring buffer of src/uart.c is a bounded FIFO for every size of the   *)
(* ring: every step of the interrupt and of the reader is a step of        *)
(* BoundedFifo or leaves it as it is.  And the line uart_gets returns is   *)
(* what was typed, less what was erased, for every size of the line.       *)
(***************************************************************************)
EXTENDS Uart, SequenceTheorems, WellFoundedInduction, TLAPS

N == UART_BUF_SIZE
Mod(x) == x % N

\* Characters in the ring, and the slot of the i-th.
Used == Mod(head - tail)
Place(i) == Mod(tail + i - 1)

\* What each side knows of the ring while the other may be anywhere: a slot that
\* is being filled stays free, a slot that is being read stays filled.
RingInv ==
  /\ TypeOK
  /\ isr = "out" <=> ch = None
  /\ isr \in {"store", "advance"} => ~Full
  /\ isr = "advance" => data[head] = ch
  /\ rd \in {"load", "advance"} => NotEmpty
  /\ rd = "advance" => got = data[tail]
  /\ rd = "edit" => got \in Char
  /\ rd # "return" => count < N
  /\ \A i \in 1 .. Used : data[Place(i)] \in Char

--------------------------------------------------------------------------------
(***************************************************************************)
(* Arithmetic of the ring.                                                 *)
(***************************************************************************)
\* The slots of the ring are counted from 0.
LEMMA Size == N \in Nat \ {0} /\ Slot = 0 .. N - 1
BY UartAssumption DEF N, Slot

\* The remainder of the numbers that occur as positions.
LEMMA Wrap ==
  \A x \in -N .. 2 * N - 1 : Mod(x) = IF x < 0 THEN x + N ELSE IF x < N THEN x ELSE x - N
<1> SUFFICES ASSUME NEW n \in Nat \ {0}, NEW x \in -n .. 2 * n - 1
             PROVE  x % n = IF x < 0 THEN x + n ELSE IF x < n THEN x ELSE x - n
  BY Size, Zenon DEF Mod
<1>1. CASE x < 0
  BY <1>1
<1>2. CASE 0 <= x /\ x < n
  BY <1>2
<1>3. CASE n <= x
  BY <1>3
<1> QED BY <1>1, <1>2, <1>3

\* The slot after a slot: the next, or the first after the last.
LEMMA Successor ==
  ASSUME NEW h \in Slot
  PROVE  NextSlot(h) = (IF h = N - 1 THEN 0 ELSE h + 1) /\ NextSlot(h) \in Slot
<1>1. NextSlot(h) = Mod(h + 1)
  BY DEF NextSlot, Mod, N
<1>2. h + 1 \in -N .. 2 * N - 1 /\ h + 1 <= N
  BY Size
<1>3. Mod(h + 1) = IF h + 1 < N THEN h + 1 ELSE h + 1 - N
  BY <1>2, Wrap, Size
<1> QED BY <1>1, <1>3, Size

\* How many characters lie between two positions.
LEMMA Distance ==
  ASSUME NEW h \in Slot, NEW t \in Slot
  PROVE  Mod(h - t) = IF h < t THEN h - t + N ELSE h - t
<1>1. h - t \in -N .. 2 * N - 1 /\ h - t < N
  BY Size
<1> QED BY <1>1, Wrap, Size

\* Where the character after i others is.
LEMMA Position ==
  ASSUME NEW t \in Slot, NEW i \in 0 .. N
  PROVE  Mod(t + i) = IF t + i < N THEN t + i ELSE t + i - N
<1>1. t + i \in -N .. 2 * N - 1 /\ 0 <= t + i
  BY Size
<1> QED BY <1>1, Wrap, Size

\* uart_isr_receive advances head by one: one character more, at the old head.
LEMMA HeadForward ==
  ASSUME NEW h \in Slot, NEW t \in Slot, NextSlot(h) # t
  PROVE  /\ Mod(NextSlot(h) - t) = Mod(h - t) + 1
         /\ Mod(t + Mod(h - t)) = h
<1>1. Mod(h - t) = IF h < t THEN h - t + N ELSE h - t
  BY Distance
<1>2. Mod(t + Mod(h - t)) = h
  <2>1. Mod(h - t) \in 0 .. N
    BY <1>1, Size
  <2>2. Mod(t + Mod(h - t)) = IF t + Mod(h - t) < N THEN t + Mod(h - t) ELSE t + Mod(h - t) - N
    BY <2>1, Position
  <2> QED BY <1>1, <2>2, Size
<1>3. NextSlot(h) \in Slot /\ NextSlot(h) = IF h = N - 1 THEN 0 ELSE h + 1
  BY Successor
<1>4. Mod(NextSlot(h) - t) = IF NextSlot(h) < t THEN NextSlot(h) - t + N ELSE NextSlot(h) - t
  BY <1>3, Distance
<1> QED BY <1>1, <1>2, <1>3, <1>4, Size

\* uart_getc advances tail by one: one character less, and each is one place nearer.
LEMMA TailForward ==
  ASSUME NEW h \in Slot, NEW t \in Slot, h # t
  PROVE  /\ Mod(h - t) \in 1 .. N - 1
         /\ Mod(h - NextSlot(t)) = Mod(h - t) - 1
         /\ \A i \in 0 .. N - 1 : Mod(NextSlot(t) + i) = Mod(t + i + 1)
<1>1. Mod(h - t) = IF h < t THEN h - t + N ELSE h - t
  BY Distance
<1>2. NextSlot(t) \in Slot /\ NextSlot(t) = IF t = N - 1 THEN 0 ELSE t + 1
  BY Successor
<1>3. Mod(h - NextSlot(t)) = IF h < NextSlot(t) THEN h - NextSlot(t) + N ELSE h - NextSlot(t)
  BY <1>2, Distance
<1>4. ASSUME NEW i \in 0 .. N - 1
      PROVE  Mod(NextSlot(t) + i) = Mod(t + i + 1)
  <2>1. i \in 0 .. N /\ i + 1 \in 0 .. N /\ t + (i + 1) = t + i + 1
    BY Size
  <2>2. Mod(NextSlot(t) + i) = IF NextSlot(t) + i < N THEN NextSlot(t) + i ELSE NextSlot(t) + i - N
    BY <1>2, <2>1, Position
  <2>3. Mod(t + (i + 1)) = IF t + (i + 1) < N THEN t + (i + 1) ELSE t + (i + 1) - N
    BY <2>1, Position
  <2> QED BY <1>2, <2>1, <2>2, <2>3, Size
<1>5. Mod(h - t) \in 1 .. N - 1
  BY <1>1, Size
<1>6. Mod(h - NextSlot(t)) = Mod(h - t) - 1
  BY <1>1, <1>2, <1>3, Size
<1> QED BY <1>4, <1>5, <1>6

\* The characters in the ring are in slots between tail and head, never at head,
\* the first at tail; the ring is full when one slot is left.
LEMMA Places ==
  ASSUME NEW h \in Slot, NEW t \in Slot
  PROVE  /\ Mod(h - t) \in 0 .. N - 1
         /\ \A i \in 1 .. Mod(h - t) : Mod(t + i - 1) \in Slot \ {h}
         /\ Mod(t + 1 - 1) = t
         /\ Mod(h - t) = N - 1 <=> NextSlot(h) = t
<1>1. Mod(h - t) = IF h < t THEN h - t + N ELSE h - t
  BY Distance
<1>2. ASSUME NEW i \in 1 .. Mod(h - t)
      PROVE  Mod(t + i - 1) \in Slot \ {h}
  <2>1. i - 1 \in 0 .. N /\ t + (i - 1) = t + i - 1
    BY <1>1, Size
  <2>2. Mod(t + i - 1) = IF t + i - 1 < N THEN t + i - 1 ELSE t + i - 1 - N
    BY <2>1, Position, Size, Zenon
  <2> QED BY <1>1, <2>2, Size
<1>3. NextSlot(h) = IF h = N - 1 THEN 0 ELSE h + 1
  BY Successor
<1>4. Mod(t + 1 - 1) = t
  <2>1. t + 1 - 1 \in -N .. 2 * N - 1 /\ t + 1 - 1 = t
    BY Size
  <2> QED BY <2>1, Wrap, Size
<1>5. Mod(h - t) \in 0 .. N - 1
  BY <1>1, Size
<1>6. Mod(h - t) = N - 1 <=> NextSlot(h) = t
  BY <1>1, <1>3, Size
<1> QED BY <1>2, <1>4, <1>5, <1>6

--------------------------------------------------------------------------------
(***************************************************************************)
(* The ring as a sequence.                                                 *)
(***************************************************************************)
\* Buffered is a sequence of Used characters.
LEMMA BufferedSeq ==
  ASSUME RingInv
  PROVE  /\ Buffered \in Seq(Char) /\ Len(Buffered) = Used /\ Used \in 0 .. N - 1
         /\ \A i \in 1 .. Used : Buffered[i] = data[Place(i)]
<1>1. Used \in 0 .. N - 1
  BY Places DEF RingInv, TypeOK, Used
<1>2. Buffered = [i \in 1 .. Used |-> data[Place(i)]]
  BY DEF Buffered, Used, Place, Mod, N
<1>3. \A i \in 1 .. Used : data[Place(i)] \in Char
  BY DEF RingInv
<1>4. Buffered \in [1 .. Used -> Char]
  BY <1>2, <1>3
<1>5. Buffered \in Seq(Char) /\ Len(Buffered) = Used
  BY <1>1, <1>4, UartAssumption DEF N
<1> QED BY <1>1, <1>2, <1>5

\* Steps that move neither index and change no filled slot leave the sequence.
LEMMA BufferedKept ==
  ASSUME RingInv, head' = head, tail' = tail,
         \A j \in Slot \ {head} : data'[j] = data[j]
  PROVE  /\ Buffered' = Buffered
         /\ \A i \in 1 .. Used' : data'[Place(i)'] \in Char
<1>1. Used' = Used /\ \A i \in Int : Place(i)' = Place(i)
  BY DEF Used, Place
<1>2. \A i \in 1 .. Used : Place(i) \in Slot \ {head}
  BY Places DEF RingInv, TypeOK, Used, Place
<1>3. \A i \in 1 .. Used : data'[Place(i)'] = data[Place(i)]
  BY <1>1, <1>2
<1>4. Buffered = [i \in 1 .. Used |-> data[Place(i)]]
  BY DEF Buffered, Used, Place, Mod, N
<1>5. Buffered' = [i \in 1 .. Used' |-> data'[Place(i)']]
  BY DEF Buffered, Used, Place, Mod, N
<1>6. Buffered' = Buffered
  BY <1>1, <1>3, <1>4, <1>5
<1> QED BY <1>1, <1>3, <1>6 DEF RingInv

\* The step of uart_isr_receive that moves head puts its character at the end.
LEMMA HeadStep ==
  ASSUME RingInv, AdvanceHead
  PROVE  /\ Buffered' = Append(Buffered, ch) /\ Used < N - 1
         /\ \A i \in 1 .. Used' : data'[Place(i)'] \in Char
<1>1. /\ head \in Slot /\ tail \in Slot /\ NextSlot(head) # tail
      /\ head' = NextSlot(head) /\ tail' = tail /\ data' = data
      /\ ch \in Char /\ data[head] = ch
  BY DEF RingInv, TypeOK, AdvanceHead, Full
<1>2. Used' = Used + 1 /\ Used \in 0 .. N - 1 /\ Used # N - 1
  BY <1>1, HeadForward, Places DEF Used
<1>2a. Used + 1 \in Nat /\ tail + (Used + 1) - 1 = tail + Used
  BY <1>1, <1>2, Size
<1>3. Mod(tail + (Used + 1) - 1) = head
  BY <1>1, <1>2a, HeadForward DEF Used
<1>4. \A i \in 1 .. Used : Place(i)' = Place(i)
  BY <1>1 DEF Place
<1>5. ASSUME NEW i \in 1 .. Used'
      PROVE  data'[Place(i)'] = IF i = Used + 1 THEN ch ELSE Buffered[i]
  <2>1. CASE i = Used + 1
    <3>1. Place(i)' = head
      BY <1>1, <1>3, <2>1 DEF Place
    <3> QED BY <1>1, <2>1, <3>1
  <2>2. CASE i # Used + 1
    <3>1. i \in 1 .. Used
      BY <1>2, <2>2
    <3> QED BY <1>1, <1>4, <2>2, <3>1, BufferedSeq
  <2> QED BY <2>1, <2>2
<1>6. \A i \in 1 .. Used' : data'[Place(i)'] \in Char
  BY <1>1, <1>2, <1>5, BufferedSeq
<1>7. Buffered' = [i \in 1 .. Used' |-> data'[Place(i)']]
  BY DEF Buffered, Used, Place, Mod, N
<1>8. Buffered' \in Seq(Char) /\ Len(Buffered') = Used'
  BY <1>2, <1>6, <1>7
<1>9. Buffered' = Append(Buffered, ch)
  <2>1. Buffered \in Seq(Char) /\ Len(Buffered) = Used
    BY BufferedSeq
  <2>2. /\ Append(Buffered, ch) \in Seq(Char) /\ Len(Append(Buffered, ch)) = Used + 1
        /\ \A i \in 1 .. Used + 1 :
             Append(Buffered, ch)[i] = IF i = Used + 1 THEN ch ELSE Buffered[i]
    BY <1>1, <1>2, <2>1
  <2>3. \A i \in 1 .. Used + 1 : Buffered'[i] = Append(Buffered, ch)[i]
    BY <1>2, <1>5, <1>7, <2>2
  <2> QED BY <1>2, <1>8, <2>2, <2>3, SeqEqual
<1> QED BY <1>2, <1>6, <1>9, UartAssumption DEF N

\* The step of uart_getc that moves tail takes the first character.
LEMMA TailStep ==
  ASSUME RingInv, AdvanceTail
  PROVE  /\ Buffered # <<>> /\ Head(Buffered) = got /\ Buffered' = Tail(Buffered)
         /\ got \in Char
         /\ \A i \in 1 .. Used' : data'[Place(i)'] \in Char
<1>1. /\ head \in Slot /\ tail \in Slot /\ head # tail
      /\ tail' = NextSlot(tail) /\ head' = head /\ data' = data
      /\ got = data[tail]
  BY Zenon DEF RingInv, TypeOK, AdvanceTail, NotEmpty
<1>2. Used \in 1 .. N - 1 /\ Used \in Nat \ {0} /\ Used' = Used - 1
  <2>1. Used \in 1 .. N - 1 /\ Used' = Used - 1
    BY <1>1, TailForward, Zenon DEF Used
  <2> QED BY <2>1, Size
<1>3. \A i \in 1 .. Used' : Place(i)' = Place(i + 1)
  <2> SUFFICES ASSUME NEW i \in 1 .. Used' PROVE Place(i)' = Place(i + 1)
    OBVIOUS
  <2>1. i - 1 \in 0 .. N - 1 /\ tail + (i - 1) + 1 = tail + (i + 1) - 1
        /\ NextSlot(tail) + (i - 1) = NextSlot(tail) + i - 1
    <3>1. NextSlot(tail) \in Slot
      BY <1>1, Successor, Zenon
    <3> QED BY <1>1, <1>2, <3>1, Size
  <2>2. Mod(NextSlot(tail) + (i - 1)) = Mod(tail + (i - 1) + 1)
    BY <1>1, <2>1, TailForward
  <2> QED BY <1>1, <2>1, <2>2 DEF Place
<1>4. /\ Buffered \in Seq(Char) /\ Len(Buffered) = Used
      /\ \A i \in 1 .. Used : Buffered[i] = data[Place(i)]
  BY BufferedSeq
<1>5. Buffered # <<>>
  BY <1>2, <1>4
<1>6. Place(1) = tail
  BY <1>1, Places DEF Place
<1>7. Head(Buffered) = got /\ got \in Char
  BY <1>1, <1>2, <1>4, <1>6
<1>8. \A i \in 1 .. Used' : data'[Place(i)'] = Buffered[i + 1] /\ Buffered[i + 1] \in Char
  BY <1>1, <1>2, <1>3, <1>4
<1>9. Buffered' = [i \in 1 .. Used' |-> data'[Place(i)']]
  BY DEF Buffered, Used, Place, Mod, N
<1>10. Buffered' \in Seq(Char) /\ Len(Buffered') = Used'
  BY <1>2, <1>8, <1>9
<1>11. Tail(Buffered) \in Seq(Char) /\ Len(Tail(Buffered)) = Used - 1
       /\ \A i \in 1 .. Used - 1 : Tail(Buffered)[i] = Buffered[i + 1]
  BY <1>4, <1>5, HeadTailProperties
<1>12. Buffered' = Tail(Buffered)
  BY <1>2, <1>8, <1>9, <1>10, <1>11, SeqEqual, Zenon
<1> QED BY <1>5, <1>7, <1>8, <1>12

--------------------------------------------------------------------------------
(***************************************************************************)
(* The invariant and the refinement.                                       *)
(***************************************************************************)
\* The ring, the interrupt and the reader stay consistent in every interleaving
\* of uart_isr_receive and uart_gets.
THEOREM RingInvariant == Spec => []RingInv
<1> DEFINE Filled == \A i \in 1 .. Used : data[Place(i)] \in Char
<1>0. None \notin Char
  BY UartAssumption DEF Char
<1>1. Init => RingInv
  <2> SUFFICES ASSUME Init PROVE RingInv
    OBVIOUS
  <2>1. TypeOK
    BY UartAssumption DEF Init, TypeOK, EmptyLine, Slot
  <2>2. Used = 0
    BY Distance, Size DEF Init, Used
  <2> QED BY <2>1, <2>2, UartAssumption DEF Init, RingInv, N
<1>2. RingInv /\ [Next]_vars => RingInv'
  <2> SUFFICES ASSUME RingInv, [Next]_vars PROVE RingInv'
    OBVIOUS
  <2>1. ASSUME NEW c \in Char, ReadRHR(c) PROVE RingInv'
    <3>1. Filled'
      BY <2>1, BufferedKept DEF ReadRHR, ring
    <3>2. arrived' \in 0 .. MaxInput
      BY <2>1, UartAssumption DEF ReadRHR, RingInv, TypeOK
    <3>3. TypeOK'
      BY <2>1, <3>2, Zenon DEF ReadRHR, RingInv, TypeOK, ring, line
    <3> QED BY <1>0, <2>1, <3>1, <3>3, Zenon DEF ReadRHR, RingInv, ring, line, Full, NotEmpty
  <2>2. CASE CheckFull
    <3>1. Filled'
      BY <2>2, BufferedKept DEF CheckFull, ring
    <3>2. TypeOK'
      BY <2>2, Zenon DEF CheckFull, RingInv, TypeOK, ring, line
    <3> QED BY <2>2, <3>1, <3>2, Zenon DEF CheckFull, RingInv, ring, line, Full, NotEmpty
  <2>3. CASE Store
    <3>1. data' = [data EXCEPT ![head] = ch] /\ data \in [Slot -> Char \cup {None}] /\ head \in Slot
      BY <2>3 DEF Store, RingInv, TypeOK
    <3>2. Filled'
      BY <2>3, <3>1, BufferedKept DEF Store
    <3>3. data' \in [Slot -> Char \cup {None}] /\ data'[head] = ch
      BY <2>3, <3>1, Zenon DEF RingInv, TypeOK
    <3>4. rd = "advance" => data'[tail] = data[tail]
      BY <3>1, Zenon DEF RingInv, TypeOK, NotEmpty
    <3>5. TypeOK'
      BY <2>3, <3>3, Zenon DEF Store, RingInv, TypeOK, line
    <3> QED BY <2>3, <3>2, <3>3, <3>4, <3>5, Zenon DEF Store, RingInv, line, Full, NotEmpty
  <2>4. CASE AdvanceHead
    <3>1. Filled'
      BY <2>4, HeadStep
    <3>2. NextSlot(head) \in Slot /\ NextSlot(head) # tail
      BY <2>4, Successor DEF AdvanceHead, RingInv, TypeOK, Full
    <3>3. TypeOK'
      BY <2>4, <3>2, Zenon DEF AdvanceHead, RingInv, TypeOK, line
    <3> QED BY <2>4, <3>1, <3>2, <3>3, Zenon DEF AdvanceHead, RingInv, line, NotEmpty
  <2>5. CASE Wait
    <3>1. Filled'
      BY <2>5, BufferedKept DEF Wait, ring
    <3>2. TypeOK'
      BY <2>5, Zenon DEF Wait, RingInv, TypeOK, ring, line
    <3> QED BY <2>5, <3>1, <3>2, Zenon DEF Wait, RingInv, ring, line, Full, NotEmpty
  <2>6. CASE Load
    <3>1. Filled'
      BY <2>6, BufferedKept DEF Load, ring
    <3>2. TypeOK'
      BY <2>6, Zenon DEF Load, RingInv, TypeOK, ring, line
    <3> QED BY <2>6, <3>1, <3>2, Zenon DEF Load, RingInv, ring, line, Full, NotEmpty
  <2>7. CASE AdvanceTail
    <3>1. Filled' /\ got \in Char
      BY <2>7, TailStep
    <3>2. head \in Slot /\ tail \in Slot /\ head # tail
      BY <2>7, Zenon DEF AdvanceTail, RingInv, TypeOK, NotEmpty
    <3>3. NextSlot(tail) \in Slot /\ NextSlot(head) # NextSlot(tail)
      <4>1. /\ NextSlot(tail) = (IF tail = N - 1 THEN 0 ELSE tail + 1) /\ NextSlot(tail) \in Slot
            /\ NextSlot(head) = (IF head = N - 1 THEN 0 ELSE head + 1)
        BY <3>2, Successor, Zenon
      <4> QED BY <3>2, <4>1, Size
    <3>4. typed' \in Seq(Char)
      BY <2>7, <3>1 DEF AdvanceTail, RingInv, TypeOK
    <3>5. TypeOK'
      BY <2>7, <3>3, <3>4, Zenon DEF AdvanceTail, RingInv, TypeOK, line
    <3> QED BY <2>7, <3>1, <3>3, <3>5, Zenon DEF AdvanceTail, RingInv, line, Full
  <2>8. CASE Edit
    <3>1. Filled'
      BY <2>8, BufferedKept DEF Edit, ring
    <3>2. /\ got \in Char /\ s \in [Slot -> Char \cup {None}]
          /\ count \in 0 .. N - 1 /\ count \in Slot
      <4>1. count \in 0 .. N /\ count < N /\ got \in Char /\ s \in [Slot -> Char \cup {None}]
        BY <2>8, Zenon DEF Edit, RingInv, TypeOK, N
      <4> QED BY <4>1, Size
    <3>3. /\ s' \in [Slot -> Char \cup {None}] /\ count' \in 0 .. N
          /\ rd' \in {"wait", "return"} /\ (rd' # "return" => count' < N)
      <4>1. [s EXCEPT ![count] = got] \in [Slot -> Char \cup {None}]
        BY <3>2, Zenon
      <4>2. CASE got \in Printable
        <5>1. /\ s' = [s EXCEPT ![count] = got] /\ count' = count + 1
              /\ rd' = IF count' < N THEN "wait" ELSE "return"
          BY <2>8, <4>2, UartAssumption DEF Edit, N
        <5>2. count' \in 0 .. N
          BY <3>2, <5>1, Size
        <5> QED BY <4>1, <5>1, <5>2, Zenon
      <4>3. CASE got \notin Printable /\ got \in Ending
        <5>1. s' = [s EXCEPT ![count] = got] /\ rd' = "return" /\ count' = count
          BY <2>8, <4>3, UartAssumption DEF Edit
        <5> QED BY <3>2, <4>1, <5>1, Size
      <4>4. CASE got \notin Printable /\ got \notin Ending
        <5>1. s' = s /\ rd' = "wait" /\ (count' = Erased \/ count' = count)
          BY <2>8, <4>4 DEF Edit
        <5>2. count' \in 0 .. N - 1
          BY <3>2, <5>1, Size DEF Erased
        <5> QED BY <3>2, <5>1, <5>2, Size
      <4> QED BY <4>2, <4>3, <4>4
    <3>4. TypeOK'
      BY <2>8, <3>3, Zenon DEF Edit, RingInv, TypeOK, ring, N
    <3> QED BY <2>8, <3>1, <3>3, <3>4, Zenon DEF Edit, RingInv, ring, Full, NotEmpty
  <2>9. CASE Again
    <3>1. Filled'
      BY <2>9, BufferedKept DEF Again, ring
    <3>2. s' \in [Slot -> Char \cup {None}] /\ count' \in 0 .. UART_BUF_SIZE /\ count' < N
          /\ typed' \in Seq(Char)
      BY <2>9, UartAssumption DEF Again, EmptyLine, N
    <3>3. TypeOK'
      BY <2>9, <3>2, Zenon DEF Again, RingInv, TypeOK, ring
    <3> QED BY <2>9, <3>1, <3>2, <3>3, Zenon DEF Again, RingInv, ring, Full, NotEmpty
  <2>10. CASE UNCHANGED vars
    <3>1. Filled'
      BY <2>10, BufferedKept DEF vars, ring
    <3>2. TypeOK'
      BY <2>10, Zenon DEF vars, ring, line, RingInv, TypeOK
    <3> QED BY <2>10, <3>1, <3>2, Zenon DEF vars, ring, line, RingInv, Full, NotEmpty
  <2> QED BY <2>1, <2>2, <2>3, <2>4, <2>5, <2>6, <2>7, <2>8, <2>9, <2>10, Zenon
          DEF Next, Isr, Reader
<1> QED BY <1>1, <1>2, PTL DEF Spec

\* The lock-free ring of src/uart.c is a bounded FIFO, whatever its size: every step
\* of the interrupt and of the reader is a step of BoundedFifo or leaves it as it is.
THEOREM RefinesFifo == Spec => ImplementsFifo
<1> DEFINE out == IF rd = "edit" THEN got ELSE None
<1>1. Init => Fifo!Init
  <2> SUFFICES ASSUME Init PROVE Fifo!Init
    OBVIOUS
  <2>1. (head - tail) % UART_BUF_SIZE = 0
    BY Distance, Size DEF Init, Mod, N
  <2>2. Buffered = <<>>
    BY <2>1 DEF Buffered
  <2> QED BY <2>2 DEF Init, Fifo!Init
<1>2. RingInv /\ [Next]_vars => [Fifo!Next]_<<Buffered, ch, out>>
  <2> SUFFICES ASSUME RingInv, [Next]_vars PROVE [Fifo!Next]_<<Buffered, ch, out>>
    OBVIOUS
  <2>1. ASSUME NEW c \in Char, ReadRHR(c) PROVE Fifo!Arrive(c)
    <3>1. Buffered' = Buffered
      BY <2>1, BufferedKept DEF ReadRHR, ring
    <3> QED BY <2>1, <3>1 DEF ReadRHR, RingInv, Fifo!Arrive
  <2>2. CASE CheckFull
    <3>1. Buffered' = Buffered /\ out' = out
      BY <2>2, BufferedKept DEF CheckFull, ring
    <3>2. CASE Full
      <4>1. Len(Buffered) = UART_BUF_SIZE - 1
        BY <3>2, BufferedSeq, Places, ZenonT(40) DEF RingInv, TypeOK, Full, Used, N
      <4> QED BY <2>2, <3>1, <3>2, <4>1, Zenon DEF CheckFull, RingInv, Fifo!Next, Fifo!Lose
    <3>3. CASE ~Full
      BY <2>2, <3>1, <3>3 DEF CheckFull
    <3> QED BY <3>2, <3>3
  <2>3. CASE Store
    <3>1. \A j \in Slot \ {head} : data'[j] = data[j]
      BY <2>3, Zenon DEF Store, RingInv, TypeOK
    <3>2. Buffered' = Buffered
      BY <2>3, <3>1, BufferedKept DEF Store
    <3> QED BY <2>3, <3>2 DEF Store
  <2>4. CASE AdvanceHead
    <3>1. Buffered' = Append(Buffered, ch) /\ Len(Buffered) < UART_BUF_SIZE - 1
      BY <2>4, HeadStep, BufferedSeq, Zenon DEF N
    <3> QED BY <2>4, <3>1, Zenon DEF AdvanceHead, RingInv, Fifo!Next, Fifo!Accept
  <2>5. CASE Wait
    <3>1. Buffered' = Buffered
      BY <2>5, BufferedKept DEF Wait, ring
    <3> QED BY <2>5, <3>1 DEF Wait
  <2>6. CASE Load
    <3>1. Buffered' = Buffered
      BY <2>6, BufferedKept DEF Load, ring
    <3> QED BY <2>6, <3>1 DEF Load
  <2>7. CASE AdvanceTail
    <3>1. Buffered # <<>> /\ Head(Buffered) = got /\ Buffered' = Tail(Buffered)
      BY <2>7, TailStep
    <3> QED BY <2>7, <3>1 DEF AdvanceTail, Fifo!Next, Fifo!Take
  <2>8. CASE Edit
    <3>1. Buffered' = Buffered
      BY <2>8, BufferedKept DEF Edit, ring
    <3>2. got # None
      BY <2>8, UartAssumption DEF Edit, RingInv, Char
    <3>3. rd = "edit" /\ rd' # "edit" /\ ch' = ch
      BY <2>8 DEF Edit
    <3> QED BY <3>1, <3>2, <3>3 DEF Fifo!Next, Fifo!Use
  <2>9. CASE Again
    <3>1. Buffered' = Buffered
      BY <2>9, BufferedKept DEF Again, ring
    <3> QED BY <2>9, <3>1 DEF Again
  <2>10. CASE UNCHANGED vars
    <3>1. Buffered' = Buffered
      BY <2>10, BufferedKept DEF vars, ring
    <3> QED BY <2>10, <3>1 DEF vars
  <2>11. (\E c \in Char : ReadRHR(c)) => Fifo!Next
    BY <2>1 DEF Fifo!Next
  <2> QED BY <2>2, <2>3, <2>4, <2>5, <2>6, <2>7, <2>8, <2>9, <2>10, <2>11, Zenon DEF Next, Isr,
             Reader
<1> QED BY <1>1, <1>2, RingInvariant, PTL DEF Spec, ImplementsFifo, Fifo!Spec

--------------------------------------------------------------------------------
(***************************************************************************)
(* What a line means: the recursion of MeantBy, character by character.    *)
(***************************************************************************)
\* Every nonempty set of natural numbers has a least element.
LEMMA LeastNat ==
  ASSUME NEW T, T \subseteq Nat, T # {}
  PROVE  \E x \in T : \A y \in T : x <= y
<1> DEFINE R == OpToRel(<, Nat)
<1>1. IsWellFoundedOn(R, Nat)
  BY NatLessThanWellFounded, Zenon
<1>2. \A x, y \in Nat : x < y => <<x, y>> \in R
  BY DEF OpToRel
<1> HIDE DEF R
<1>3. PICK x \in T : \A y \in T : <<y, x>> \notin R
  BY <1>1, WFMin, Zenon
<1>4. \A y \in T : ~(y < x)
  BY <1>2, <1>3, Zenon
<1> QED BY <1>4

\* m gives what is meant by each of the first n characters of q.
Prefixes(m, q, n) == m = [k \in 0 .. n |-> IF k = 0 THEN <<>> ELSE Kept(m[k - 1], q[k])]

\* From the meaning of n characters to that of one more.
LEMMA PrefixesNext ==
  ASSUME NEW q, NEW n \in Nat, NEW m, Prefixes(m, q, n)
  PROVE  LET e == [k \in 0 .. n + 1 |-> IF k = n + 1 THEN Kept(m[n], q[n + 1]) ELSE m[k]]
         IN  Prefixes(e, q, n + 1)
<1> DEFINE F(f, k) == IF k = 0 THEN <<>> ELSE Kept(f[k - 1], q[k])
<1> DEFINE e == [k \in 0 .. n + 1 |-> IF k = n + 1 THEN Kept(m[n], q[n + 1]) ELSE m[k]]
<1>1. \A k \in 0 .. n : m[k] = F(m, k)
  BY Zenon DEF Prefixes
<1>2. ASSUME NEW k \in 0 .. n + 1
      PROVE  e[k] = F(e, k)
  <2>1. CASE k = 0
    BY <1>1, <2>1
  <2>2. CASE k \in 1 .. n
    BY <1>1, <2>2
  <2>3. CASE k = n + 1
    BY <2>3
  <2> QED BY <2>1, <2>2, <2>3
<1>3. e = [k \in 0 .. n + 1 |-> F(e, k)]
  BY <1>2, Zenon
<1> QED BY <1>3, Zenon DEF Prefixes

\* The recursive definition of MeantBy is that of a function ...
LEMMA PrefixesExist ==
  ASSUME NEW q, NEW n \in Nat
  PROVE  \E m : Prefixes(m, q, n)
<1> DEFINE T == {k \in Nat : ~\E m : Prefixes(m, q, k)}
<1>1. SUFFICES ASSUME T # {} PROVE FALSE
  OBVIOUS
<1>2. PICK k \in T : \A j \in T : k <= j
  <2>1. T \subseteq Nat
    OBVIOUS
  <2> QED BY <1>1, <2>1, LeastNat, Zenon
<1>3. CASE k = 0
  <2>1. Prefixes([j \in 0 .. 0 |-> <<>>], q, 0)
    BY DEF Prefixes
  <2> QED BY <1>2, <1>3, <2>1
<1>4. CASE k # 0
  <2>1. k - 1 \in Nat /\ k - 1 \notin T /\ k - 1 + 1 = k
    BY <1>2, <1>4
  <2>2. PICK m : Prefixes(m, q, k - 1)
    BY <2>1
  <2> QED BY <1>2, <2>1, <2>2, PrefixesNext, Zenon
<1> QED BY <1>3, <1>4

\* ... and of one only ...
LEMMA PrefixesUnique ==
  ASSUME NEW q, NEW n \in Nat, NEW l, NEW m, Prefixes(l, q, n), Prefixes(m, q, n)
  PROVE  \A k \in 0 .. n : l[k] = m[k]
<1> DEFINE T == {k \in 0 .. n : l[k] # m[k]}
<1>1. SUFFICES ASSUME T # {} PROVE FALSE
  OBVIOUS
<1>2. PICK k \in T : \A j \in T : k <= j
  <2>1. T \subseteq Nat
    OBVIOUS
  <2> QED BY <1>1, <2>1, LeastNat, Zenon
<1>3. /\ l[k] = IF k = 0 THEN <<>> ELSE Kept(l[k - 1], q[k])
      /\ m[k] = IF k = 0 THEN <<>> ELSE Kept(m[k - 1], q[k])
  BY <1>2, Zenon DEF Prefixes
<1>4. k # 0 => k - 1 \in 0 .. n /\ k - 1 \notin T
  BY <1>2
<1> QED BY <1>2, <1>3, <1>4

\* ... of which MeantBy is the last value.
LEMMA MeantIs ==
  ASSUME NEW q, Len(q) \in Nat, NEW m, Prefixes(m, q, Len(q))
  PROVE  MeantBy(q) = m[Len(q)]
<1> DEFINE c == CHOOSE l : Prefixes(l, q, Len(q))
<1>1. Prefixes(c, q, Len(q))
  BY Zenon
<1>2. MeantBy(q) = c[Len(q)]
  BY Zenon DEF MeantBy, Prefixes
<1> QED BY <1>1, <1>2, PrefixesUnique

\* Nothing typed, nothing meant.
LEMMA MeantEmpty == MeantBy(<<>>) = <<>>
<1>1. PICK m : Prefixes(m, <<>>, 0)
  BY PrefixesExist
<1>2. m[0] = <<>>
  BY <1>1 DEF Prefixes
<1> QED BY <1>1, <1>2, MeantIs

\* One more character adds itself, erases one, or changes nothing.
LEMMA MeantAppend ==
  ASSUME NEW q \in Seq(Char), NEW c \in Char
  PROVE  MeantBy(Append(q, c)) = Kept(MeantBy(q), c)
<1> DEFINE n == Len(q)
           r == Append(q, c)
<1>1. n \in Nat /\ Len(r) = n + 1 /\ r[n + 1] = c /\ \A k \in 1 .. n : r[k] = q[k]
  OBVIOUS
<1> HIDE DEF n, r
<1>2. PICK m : Prefixes(m, q, n)
  BY <1>1, PrefixesExist, Zenon
<1>3. MeantBy(q) = m[n]
  BY <1>1, <1>2, MeantIs, Zenon DEF n
<1>4. Prefixes(m, r, n)
  <2> DEFINE F(p, k) == IF k = 0 THEN <<>> ELSE Kept(m[k - 1], p[k])
  <2>1. m = [k \in 0 .. n |-> F(q, k)]
    BY <1>2, Zenon DEF Prefixes
  <2>2. \A k \in 0 .. n : F(q, k) = F(r, k)
    BY <1>1
  <2> HIDE DEF F
  <2>3. m = [k \in 0 .. n |-> F(r, k)]
    BY <2>1, <2>2, Zenon
  <2> QED BY <2>3, Zenon DEF Prefixes, F
<1> DEFINE e == [k \in 0 .. n + 1 |-> IF k = n + 1 THEN Kept(m[n], r[n + 1]) ELSE m[k]]
<1>5. Prefixes(e, r, n + 1)
  BY <1>1, <1>4, PrefixesNext, Zenon
<1>6. e[n + 1] = Kept(m[n], c)
  BY <1>1
<1> HIDE DEF e
<1>7. MeantBy(r) = e[n + 1]
  BY <1>1, <1>5, MeantIs
<1> QED BY <1>3, <1>6, <1>7, Zenon DEF r

\* Between two characters the buffer holds what was meant so far, and while one
\* is edited, what was meant before it.
LineInv ==
  /\ rd # "edit" => Line = MeantBy(typed)
  /\ rd = "edit" => MeantBy(typed) = Kept(Line, got) /\ typed[Len(typed)] = got
  /\ rd = "return" /\ count < N => s[count] \in Ending /\ s[count] = typed[Len(typed)]

\* The buffer as a sequence.
LEMMA LineSeq ==
  ASSUME RingInv
  PROVE  /\ Len(Line) = count /\ \A i \in 1 .. count : Line[i] = s[i - 1]
         /\ Line \in Seq(Char \cup {None})
<1>1. count \in 0 .. N /\ s \in [Slot -> Char \cup {None}]
  BY Zenon DEF RingInv, TypeOK, N
<1>2. \A i \in 1 .. count : s[i - 1] \in Char \cup {None}
  BY <1>1, Size
<1> QED BY <1>1, <1>2, Size DEF Line

\* The loop of uart_gets applies to its buffer what the character means.
LEMMA EditLine ==
  ASSUME RingInv, LineInv, Edit
  PROVE  Line' = Kept(Line, got)
<1>1. /\ got \in Char /\ count \in 0 .. N - 1 /\ s \in [Slot -> Char \cup {None}]
      /\ None \notin Char
  <2>1. got \in Char /\ count \in 0 .. N /\ count < N /\ s \in [Slot -> Char \cup {None}]
    BY Zenon DEF RingInv, TypeOK, Edit, N
  <2> QED BY <2>1, UartAssumption, Size DEF Char
<1>2. /\ Len(Line) = count /\ Line \in Seq(Char \cup {None})
      /\ \A i \in 1 .. count : Line[i] = s[i - 1]
  BY LineSeq, Zenon
<1>3. CASE got \in Printable
  <2>1. s' = [s EXCEPT ![count] = got] /\ count' = count + 1
    BY <1>3, UartAssumption DEF Edit
  <2>2. /\ Len(Line') = count + 1 /\ Line' \in Seq(Char \cup {None})
        /\ \A i \in 1 .. count + 1 : Line'[i] = IF i = count + 1 THEN got ELSE Line[i]
    <3>1. /\ \A i \in 1 .. count + 1 : s'[i - 1] = IF i = count + 1 THEN got ELSE Line[i]
          /\ \A i \in 1 .. count + 1 : s'[i - 1] \in Char \cup {None}
      BY <1>1, <1>2, <2>1, Size
    <3>2. Line' = [i \in 1 .. count + 1 |-> s'[i - 1]]
      BY <2>1, Zenon DEF Line
    <3> QED BY <1>1, <3>1, <3>2
  <2>3. /\ Append(Line, got) \in Seq(Char \cup {None}) /\ Len(Append(Line, got)) = count + 1
        /\ \A i \in 1 .. count + 1 :
             Append(Line, got)[i] = IF i = count + 1 THEN got ELSE Line[i]
    BY <1>1, <1>2
  <2>4. Line' = Append(Line, got)
    BY <2>2, <2>3, SeqEqual, Zenon
  <2> QED BY <1>3, <2>4, Zenon DEF Kept
<1>4. CASE got = Backspace
  <2>1. s' = s /\ count' = Erased /\ got \notin Printable
    BY <1>4, UartAssumption DEF Edit
  <2>2. Line' = [i \in 1 .. count - 1 |-> Line[i]]
    BY <1>1, <1>2, <2>1 DEF Line, Erased
  <2>3. SubSeq(Line, 1, Len(Line) - 1) = [i \in 1 .. count - 1 |-> Line[i]]
    BY <1>1, <1>2
  <2> QED BY <1>4, <2>1, <2>2, <2>3, Zenon DEF Kept
<1>5. CASE got \notin Printable /\ got # Backspace
  <2>1. count' = count /\ \A i \in 1 .. count : s'[i - 1] = s[i - 1]
    <3>1. count' = count /\ (s' = s \/ s' = [s EXCEPT ![count] = got])
      BY <1>5, UartAssumption DEF Edit
    <3> QED BY <1>1, <3>1, Size
  <2>2. Line' = Line
    BY <2>1 DEF Line
  <2> QED BY <1>5, <2>2, Zenon DEF Kept
<1> QED BY <1>3, <1>4, <1>5

\* The line uart_gets hands to the shell loop of kernel_init is what was meant: every
\* printable character typed and not erased, in order, and the character that ended
\* it, unless the buffer is full; for every size of the buffer.
THEOREM Lines == Spec => []LineAsMeant
<1>1. Init => LineInv
  <2> SUFFICES ASSUME Init PROVE LineInv
    OBVIOUS
  <2>1. Line = <<>> /\ typed = <<>> /\ rd = "wait"
    BY DEF Init, Line
  <2> QED BY <2>1, MeantEmpty, Zenon DEF LineInv
<1>2. RingInv /\ RingInv' /\ LineInv /\ [Next]_vars => LineInv'
  <2> SUFFICES ASSUME RingInv, RingInv', LineInv, [Next]_vars PROVE LineInv'
    OBVIOUS
  <2>1. CASE \/ \E c \in Char : ReadRHR(c)
             \/ Isr \/ UNCHANGED vars
    <3>1. UNCHANGED <<rd, got, s, count, typed>>
      BY <2>1, Zenon DEF ReadRHR, Isr, CheckFull, Store, AdvanceHead, vars, line
    <3>2. Line' = Line
      BY <3>1, Zenon DEF Line
    <3> QED BY <3>1, <3>2, Zenon DEF LineInv
  <2>2. CASE Wait \/ Load
    <3>1. rd \in {"wait", "load"} /\ rd' \in {"load", "advance"} /\ UNCHANGED <<s, count, typed>>
      BY <2>2, Zenon DEF Wait, Load, line
    <3>2. Line' = Line
      BY <3>1, Zenon DEF Line
    <3> QED BY <3>1, <3>2 DEF LineInv
  <2>3. CASE AdvanceTail
    <3>1. rd = "advance" /\ rd' = "edit" /\ typed' = Append(typed, got) /\ got' = got
          /\ Line' = Line
      BY <2>3, Zenon DEF AdvanceTail, Line
    <3>2. got \in Char /\ typed \in Seq(Char)
      BY <2>3, TailStep, Zenon DEF RingInv, TypeOK
    <3>3. MeantBy(typed') = Kept(MeantBy(typed), got)
      BY <3>1, <3>2, MeantAppend, Zenon
    <3>4. typed'[Len(typed')] = got
      BY <3>1, <3>2
    <3>5. MeantBy(typed) = Line
      BY <3>1 DEF LineInv
    <3> QED BY <3>1, <3>3, <3>4, <3>5 DEF LineInv
  <2>4. CASE Edit
    <3>1. rd = "edit" /\ rd' # "edit" /\ typed' = typed
      BY <2>4 DEF Edit
    <3>2. Line' = MeantBy(typed')
      BY <2>4, <3>1, EditLine, Zenon DEF LineInv
    <3>3. ASSUME rd' = "return", count' < N
          PROVE  s'[count'] \in Ending /\ s'[count'] = typed'[Len(typed')]
      <4>1. got \in Ending /\ s' = [s EXCEPT ![count] = got] /\ count' = count
        BY <2>4, <3>3, UartAssumption DEF Edit, N
      <4>2. count \in Slot /\ s \in [Slot -> Char \cup {None}]
        <5>1. count' \in 0 .. N /\ s \in [Slot -> Char \cup {None}]
          BY Zenon DEF RingInv, TypeOK, N
        <5> QED BY <3>3, <4>1, <5>1, Size
      <4>3. typed[Len(typed)] = got
        BY <3>1, Zenon DEF LineInv
      <4> QED BY <3>1, <4>1, <4>2, <4>3
    <3> QED BY <3>1, <3>2, <3>3 DEF LineInv
  <2>5. CASE Again
    <3>1. Line' = <<>> /\ typed' = <<>> /\ rd' = "wait"
      BY <2>5 DEF Again, Line
    <3> QED BY <3>1, MeantEmpty DEF LineInv
  <2> QED BY <2>1, <2>2, <2>3, <2>4, <2>5, Zenon DEF Next, Reader
<1>3. LineInv => LineAsMeant
  BY DEF LineInv, LineAsMeant, N
<1> QED BY <1>1, <1>2, <1>3, RingInvariant, PTL DEF Spec

================================================================================
