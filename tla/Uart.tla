---------------------------------- MODULE Uart ----------------------------------
(***************************************************************************)
(* Serial input, src/uart.c: the COM1 interrupt puts characters into a     *)
(* ring buffer, uart_gets takes them out and edits a line for the shell    *)
(* loop of kernel_init (src/main.c).  The interrupt may come between any   *)
(* two accesses of the reader, or run beside it on another CPU.            *)
(***************************************************************************)
EXTENDS Integers, Sequences

CONSTANTS
  UART_BUF_SIZE,   \* size of the ring and of the line buffer
  Printable,       \* characters 32 .. 127
  Ending,          \* carriage return, line feed, NUL
  Backspace, Other, None,
  MaxInput         \* characters that arrive in all

ASSUME UartAssumption ==
  /\ UART_BUF_SIZE \in Nat \ {0} /\ MaxInput \in Nat
  /\ None \notin Printable \cup Ending \cup {Backspace, Other}
  /\ Printable \cap Ending = {} /\ {Backspace, Other} \cap (Printable \cup Ending) = {}

Char == Printable \cup Ending \cup {Backspace, Other}
Slot == 0 .. UART_BUF_SIZE - 1

VARIABLES
  data, head, tail,     \* uart_rx_buf
  isr, ch,              \* uart_isr_receive: place in the loop, character read
  rd, got,              \* uart_gets: place in the code, character uart_getc read
  s, count,             \* the line buffer and the number of characters in it
  arrived,              \* number of characters delivered so far
  typed                 \* characters read since the line was begun

ring == <<data, head, tail>>
line == <<s, count, typed>>
vars == <<ring, isr, ch, rd, got, line, arrived>>

EmptyLine == [i \in Slot |-> None]

TypeOK ==
  /\ data \in [Slot -> Char \cup {None}] /\ head \in Slot /\ tail \in Slot
  /\ isr \in {"out", "check", "store", "advance"} /\ ch \in Char \cup {None}
  /\ rd \in {"wait", "load", "advance", "edit", "return"} /\ got \in Char \cup {None}
  /\ s \in [Slot -> Char \cup {None}] /\ count \in 0 .. UART_BUF_SIZE
  /\ arrived \in 0 .. MaxInput /\ typed \in Seq(Char)

\* uart_init, and the first memset of kernel_init.
Init ==
  /\ data = EmptyLine /\ head = 0 /\ tail = 0
  /\ isr = "out" /\ ch = None /\ rd = "wait" /\ got = None
  /\ s = EmptyLine /\ count = 0 /\ arrived = 0 /\ typed = <<>>

(***************************************************************************)
(* uart_isr_receive, one step per access to what the reader shares.        *)
(***************************************************************************)
ReadRHR(c) ==
  /\ isr = "out" /\ arrived < MaxInput
  /\ ch' = c /\ isr' = "check" /\ arrived' = arrived + 1
  /\ UNCHANGED <<ring, rd, got, line>>

NextSlot(i) == (i + 1) % UART_BUF_SIZE

\* Mutant: a full ring is not noticed.
Full_never == FALSE

Full == NextSlot(head) = tail

CheckFull ==
  /\ isr = "check"
  /\ IF Full THEN isr' = "out" /\ ch' = None ELSE isr' = "store" /\ UNCHANGED ch
  /\ UNCHANGED <<ring, rd, got, line, arrived>>

Store ==
  /\ isr = "store"
  /\ data' = [data EXCEPT ![head] = ch]
  /\ isr' = "advance"
  /\ UNCHANGED <<head, tail, ch, rd, got, line, arrived>>

AdvanceHead ==
  /\ isr = "advance"
  /\ head' = NextSlot(head)
  /\ isr' = "out" /\ ch' = None
  /\ UNCHANGED <<data, tail, rd, got, line, arrived>>

(***************************************************************************)
(* uart_getc ...                                                           *)
(***************************************************************************)
\* Mutant: a head that has gone round is taken for an empty ring.
NotEmpty_unwrapped == head > tail

NotEmpty == head # tail

Wait ==
  /\ rd = "wait" /\ NotEmpty
  /\ rd' = "load"
  /\ UNCHANGED <<ring, isr, ch, got, line, arrived>>

Load ==
  /\ rd = "load"
  /\ got' = data[tail] /\ rd' = "advance"
  /\ UNCHANGED <<ring, isr, ch, line, arrived>>

AdvanceTail ==
  /\ rd = "advance"
  /\ tail' = NextSlot(tail)
  /\ rd' = "edit" /\ typed' = Append(typed, got)
  /\ UNCHANGED <<data, head, isr, ch, got, s, count, arrived>>

(***************************************************************************)
(* ... and the loop of uart_gets around it.                                *)
(***************************************************************************)

\* Mutant: backspace is echoed and nothing more.
Erased_not == count

Erased == IF count > 0 THEN count - 1 ELSE 0

Edit ==
  /\ rd = "edit"
  /\ CASE got \in Printable ->
            /\ s' = [s EXCEPT ![count] = got] /\ count' = count + 1
            /\ rd' = IF count' < UART_BUF_SIZE THEN "wait" ELSE "return"
       [] got \in Ending ->
            s' = [s EXCEPT ![count] = got] /\ rd' = "return" /\ UNCHANGED count
       [] got = Backspace ->
            count' = Erased /\ rd' = "wait" /\ UNCHANGED s
       [] OTHER -> rd' = "wait" /\ UNCHANGED <<s, count>>
  /\ got' = None
  /\ UNCHANGED <<ring, isr, ch, typed, arrived>>

\* kernel_init looks at the line, halts until an interrupt and clears it.
Again ==
  /\ rd = "return"
  /\ s' = EmptyLine /\ count' = 0 /\ typed' = <<>> /\ rd' = "wait"
  /\ UNCHANGED <<ring, isr, ch, got, arrived>>

Isr == CheckFull \/ Store \/ AdvanceHead
Reader == Wait \/ Load \/ AdvanceTail \/ Edit \/ Again
Next == (\E c \in Char : ReadRHR(c)) \/ Isr \/ Reader

\* The interrupt handler runs to its end and the thread in uart_gets is
\* scheduled again and again; characters may stop arriving.
Spec == Init /\ [][Next]_vars /\ WF_vars(Isr) /\ WF_vars(Reader)

--------------------------------------------------------------------------------
(***************************************************************************)
(* Properties.                                                             *)
(***************************************************************************)
\* The slots from tail up to head, around the end of the ring.
Buffered ==
  [i \in 1 .. (head - tail) % UART_BUF_SIZE |-> data[(tail + i - 1) % UART_BUF_SIZE]]

\* The ring is a bounded FIFO of UART_BUF_SIZE - 1 characters although neither
\* side takes a lock: the interrupt's test of tail may be stale, and the reader
\* may be between its load and its update of tail, but no character is lost
\* from a ring with room, overwritten before it is read, or read twice.
Fifo ==
  INSTANCE BoundedFifo WITH
    Capacity <- UART_BUF_SIZE - 1, queue <- Buffered, arriving <- ch,
    out <- IF rd = "edit" THEN got ELSE None
ImplementsFifo == Fifo!Spec

\* What a person meant to type: printable characters, less those erased.
Kept(acc, c) ==
  IF c \in Printable THEN Append(acc, c)
  ELSE IF c = Backspace THEN SubSeq(acc, 1, Len(acc) - 1) ELSE acc

MeantBy(q) ==
  LET m[k \in 0 .. Len(q)] == IF k = 0 THEN <<>> ELSE Kept(m[k - 1], q[k])
  IN  m[Len(q)]

Line == [i \in 1 .. count |-> s[i - 1]]

\* The line uart_gets returns holds what was meant, followed by the character
\* that ended it, or fills the buffer; backspace never moves before its start.
LineAsMeant ==
  rd = "return" =>
    /\ Line = MeantBy(typed)
    /\ count < UART_BUF_SIZE => s[count] \in Ending /\ s[count] = typed[Len(typed)]

\* Every character the ring accepted is read in the end.
Drained == []<>(head = tail)

================================================================================
