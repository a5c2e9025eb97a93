------------------------------ MODULE ByteFifo ------------------------------
(***************************************************************************)
(* What the byte buffer of a NimBLEStream promises to its writer and its   *)
(* reader: a bounded FIFO of bytes.  A write that does not fit is cut      *)
(* short; received data that does not fit either pushes the oldest bytes   *)
(* out or is refused as a whole.                                           *)
(***************************************************************************)
EXTENDS Integers, Sequences

CONSTANTS
  Bytes,      \* the values of a byte
  Capacity,   \* the size given to begin()
  MaxLen      \* bound: the length of one write, read, peek, drop or push

VARIABLES
  q,     \* the bytes in the buffer, the oldest first
  ret    \* the bytes that the last call moved (it returns their number)

Chunks == UNION {[1..n -> Bytes] : n \in 0..MaxLen}

\* The first n elements of s, what is left without them, the last n of s.
First(s, n) == SubSeq(s, 1, IF n < Len(s) THEN n ELSE Len(s))
Rest(s, n) == SubSeq(s, n + 1, Len(s))
Last(s, n) == IF Len(s) <= n THEN s ELSE Rest(s, Len(s) - n)

Init == q = <<>> /\ ret = <<>>

Write(data) ==
  /\ ret' = First(data, Capacity - Len(q))
  /\ q' = First(q \o data, Capacity)

Read(n) ==
  /\ ret' = First(q, n)
  /\ q' = Rest(q, n)

Peek(n) ==
  /\ ret' = First(q, n)
  /\ UNCHANGED q

Drop(n) ==
  /\ ret' = First(q, n)
  /\ q' = Rest(q, n)

Push(data, dropOlder) ==
  IF Len(q) + Len(data) <= Capacity \/ dropOlder
  THEN /\ ret' = Last(data, Capacity)
       /\ q' = Last(q \o data, Capacity)
  ELSE /\ ret' = <<>>
       /\ UNCHANGED q

Next ==
  \/ \E data \in Chunks :
       \/ Write(data)
       \/ \E dropOlder \in BOOLEAN : Push(data, dropOlder)
  \/ \E n \in 0..MaxLen : Read(n) \/ Peek(n) \/ Drop(n)

Spec == Init /\ [][Next]_<<q, ret>>
=============================================================================
