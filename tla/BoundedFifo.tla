------------------------------ MODULE BoundedFifo -------------------------------
(***************************************************************************)
(* What the serial receive buffer promises its one reader: the characters  *)
(* come out in the order they arrived, none twice and none invented; a     *)
(* character is lost only when Capacity others are waiting.                *)
(***************************************************************************)
EXTENDS Naturals, Sequences

CONSTANTS Char, Capacity, None

VARIABLES
  queue,      \* characters accepted and not yet read
  arriving,   \* the character the device delivers, or None
  out         \* the character the reader has just taken, or None

Init == queue = <<>> /\ arriving = None /\ out = None

Arrive(ch) == arriving = None /\ arriving' = ch /\ UNCHANGED <<queue, out>>

Accept ==
  /\ arriving # None /\ Len(queue) < Capacity
  /\ queue' = Append(queue, arriving) /\ arriving' = None /\ UNCHANGED out

Lose ==
  /\ arriving # None /\ Len(queue) = Capacity
  /\ arriving' = None /\ UNCHANGED <<queue, out>>

Take ==
  /\ out = None /\ queue # <<>>
  /\ out' = Head(queue) /\ queue' = Tail(queue) /\ UNCHANGED arriving

Use == out # None /\ out' = None /\ UNCHANGED <<queue, arriving>>

Next == (\E ch \in Char : Arrive(ch)) \/ Accept \/ Lose \/ Take \/ Use

Spec == Init /\ [][Next]_<<queue, arriving, out>>

================================================================================
