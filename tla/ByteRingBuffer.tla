--------------------------- MODULE ByteRingBuffer ---------------------------
(***************************************************************************)
(* NimBLEStream::ByteRingBuffer, with the two memcpy() of a wrapped copy,  *)
(* and NimBLEStream::pushRx(), which frees room and writes under one guard.*)
(*                                                                         *)
(* Every method holds the recursive mutex from its first access to its     *)
(* last, so each is one step whichever task calls it.                      *)
(***************************************************************************)
EXTENDS Integers, Sequences

CONSTANTS
  Bytes,      \* the values of a byte
  Capacity,   \* m_capacity; begin() makes no buffer of size 0
  MaxLen      \* bound: the length of one write, read, peek, drop or push

ASSUME BufferAssumption ==
  /\ Capacity \in Nat \ {0}
  /\ MaxLen \in Nat

VARIABLES
  rb,    \* the buffer: m_buf, m_head, m_tail, m_size
  ret    \* the bytes the last call wrote, copied or dropped (it returns their number)

vars == <<rb, ret>>

Chunks == UNION {[1..n -> Bytes] : n \in 0..MaxLen}

Ring == [buf : [0..Capacity-1 -> Bytes], head : 0..Capacity-1,
         tail : 0..Capacity-1, size : 0..Capacity]

TypeOK == rb \in Ring /\ ret \in Seq(Bytes)

-----------------------------------------------------------------------------
\* A position in m_buf.
Index(k) == k % Capacity

Smaller(a, b) == IF a < b THEN a ELSE b

\* The first n bytes of data.
Prefix(data, n) == [i \in 1..n |-> data[i]]

\* write(): copy at m_head up to the end of m_buf, the remainder at its start.
Written(b, data) ==
  LET count  == Smaller(Len(data), Capacity - b.size)
      first  == Smaller(count, Capacity - b.head)
      remain == count - first
  IN [buf |-> [i \in 0..Capacity-1 |->
                 IF b.head <= i /\ i < b.head + first THEN data[i - b.head + 1]
                 ELSE IF i < remain THEN data[first + i + 1]
                 ELSE b.buf[i]],
      head |-> Index(b.head + count),
      tail |-> b.tail,
      size |-> b.size + count]

Accepted(b, data) == Prefix(data, Smaller(Len(data), Capacity - b.size))

\* Mutant: a copy ends at the end of m_buf.
CopiedNoWrap(b, n) ==
  [i \in 1..Smaller(n, Smaller(b.size, Capacity - b.tail)) |-> b.buf[b.tail + i - 1]]

\* read(), peek(): copy from m_tail to the end of m_buf, then from its start.
Copied(b, n) ==
  LET count == Smaller(n, b.size)
      first == Smaller(count, Capacity - b.tail)
  IN [i \in 1..count |-> IF i <= first THEN b.buf[b.tail + i - 1]
                         ELSE b.buf[i - first - 1]]

\* Mutant: the tail advances by one.
DroppedOne(b, n) ==
  [b EXCEPT !.tail = Index(b.tail + 1), !.size = b.size - Smaller(n, b.size)]

\* drop(), and what read() does after the copy.
Dropped(b, n) ==
  LET count == Smaller(n, b.size)
  IN [buf |-> b.buf, head |-> b.head,
      tail |-> Index(b.tail + count), size |-> b.size - count]

-----------------------------------------------------------------------------
Init ==
  /\ rb \in [buf : [0..Capacity-1 -> Bytes], head : {0}, tail : {0}, size : {0}]
  /\ ret = <<>>

Write(data) ==
  /\ rb' = Written(rb, data)
  /\ ret' = Accepted(rb, data)

Read(n) ==
  /\ rb' = Dropped(rb, n)
  /\ ret' = Copied(rb, n)

Peek(n) ==
  /\ ret' = Copied(rb, n)
  /\ UNCHANGED rb

Drop(n) ==
  /\ rb' = Dropped(rb, n)
  /\ ret' = Copied(rb, n)

\* The buffer in which pushRx() writes, when the overflow callback chose
\* DROP_OLDER_DATA and data is shorter than the buffer.
RoomFor(b, data) ==
  IF Len(data) > Capacity - b.size
  THEN Dropped(b, Len(data) - (Capacity - b.size))
  ELSE b

\* The last Capacity bytes of data.
Suffix(data) == [i \in 1..Capacity |-> data[Len(data) - Capacity + i]]

PushRx(data, dropOlder) ==
  \/ /\ Len(data) > Capacity - rb.size
     /\ ~dropOlder
     /\ ret' = <<>>
     /\ UNCHANGED rb
  \/ /\ Len(data) > Capacity - rb.size
     /\ dropOlder
     /\ Len(data) >= Capacity
     /\ rb' = Written(Dropped(rb, rb.size), Suffix(data))
     /\ ret' = Suffix(data)
  \/ /\ Len(data) <= Capacity - rb.size \/ (dropOlder /\ Len(data) < Capacity)
     /\ rb' = Written(RoomFor(rb, data), data)
     /\ ret' = Accepted(RoomFor(rb, data), data)

Next ==
  \/ \E data \in Chunks :
       \/ Write(data)
       \/ \E dropOlder \in BOOLEAN : PushRx(data, dropOlder)
  \/ \E n \in 0..MaxLen : Read(n) \/ Peek(n) \/ Drop(n)

Spec == Init /\ [][Next]_vars

-----------------------------------------------------------------------------
\* The bytes between m_tail and m_head, around the end of m_buf.
Contents(b) == [i \in 1..b.size |-> b.buf[Index(b.tail + i - 1)]]

Fifo == INSTANCE ByteFifo WITH q <- Contents(rb)

\* m_size, m_head and m_tail agree: where the next byte is written is one past
\* the last byte that can be read, after any sequence of wrapped calls.
HeadFollows == rb.head = Index(rb.tail + rb.size)

\* The ring buffer is a FIFO: no wrap-around, partial write, or overflow with
\* either policy loses, repeats or reorders a byte it should not.
IsFifo == Fifo!Spec
=============================================================================
