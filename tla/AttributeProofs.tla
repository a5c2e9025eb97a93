-------------------------- MODULE AttributeProofs --------------------------
(*****************************************************************************)
(* The proofs about bytes and attributes.  The ring buffer of a stream is a  *)
(* FIFO of bounded capacity, whatever the capacity and the bytes.  The value *)
(* of an attribute is whole wherever the tasks that use it respect that only *)
(* one at a time changes it.  What a client knows of a peer's attributes are *)
(* the peer's, each under its parent, in the order of the handles, and a     *)
(* lookup answers what it was asked for, whatever attributes the peer has,   *)
(* and whatever was looked up, deleted or interrupted before.                *)
(*****************************************************************************)
EXTENDS ByteRingBuffer, NimBLEAttValue, NimBLERemote, ListLemmas

-----------------------------------------------------------------------------
(* The ring buffer.                                                        *)

\* What the calls preserve.  Without HeadFollows a write would not go to the
\* place behind the last byte.
IInv == TypeOK /\ HeadFollows

Good(b) == b \in Ring /\ b.head = Index(b.tail + b.size)

-----------------------------------------------------------------------------
\* An index that has run past the end of m_buf at most once.
LEMMA Wrap ==
  ASSUME NEW k \in 0..(2 * Capacity - 1)
  PROVE  Index(k) = IF k < Capacity THEN k ELSE k - Capacity
  BY BufferAssumption DEF BufferAssumption, Index

\* A chunk is a sequence of bytes.
LEMMA ChunkIsSeq ==
  ASSUME NEW data \in Chunks
  PROVE  data \in Seq(Bytes)
  BY BufferAssumption, SeqDef DEF BufferAssumption, Chunks

\* A function on 1..n is a sequence of length n.
LEMMA FunctionIsSeq ==
  ASSUME NEW S, NEW n \in Nat, NEW f \in [1..n -> S]
  PROVE  f \in Seq(S) /\ Len(f) = n
<1>1. f \in Seq(S)
  BY SeqDef
<1>2. DOMAIN f = 1..n /\ DOMAIN f = 1..Len(f) /\ Len(f) \in Nat
  BY <1>1, LenProperties
<1> QED
  BY <1>1, <1>2

\* What the buffer holds is a sequence of m_size bytes.
LEMMA ContentsIsSeq ==
  ASSUME NEW b \in Ring
  PROVE  /\ Contents(b) \in Seq(Bytes)
         /\ Len(Contents(b)) = b.size
         /\ \A i \in 1..b.size : Contents(b)[i] = b.buf[Index(b.tail + i - 1)]
<1>1. Capacity \in Nat /\ Capacity > 0
  BY BufferAssumption DEF BufferAssumption
<1>2. b.size \in 0..Capacity /\ b.tail \in 0..Capacity-1 /\ b.buf \in [0..Capacity-1 -> Bytes]
  BY <1>1 DEF Ring
<1>3. ASSUME NEW i \in 1..b.size PROVE Index(b.tail + i - 1) \in 0..Capacity-1
  <2>1. b.tail + i - 1 \in 0..(2 * Capacity - 1)
    BY <1>1, <1>2
  <2> QED
    BY <1>1, <2>1, Wrap
<1>4. Contents(b) \in [1..b.size -> Bytes]
  BY <1>2, <1>3 DEF Contents
<1>5. b.size \in Nat
  BY <1>1, <1>2
<1>6. Contents(b) \in Seq(Bytes) /\ Len(Contents(b)) = b.size
  BY <1>4, <1>5, FunctionIsSeq
<1>7. \A i \in 1..b.size : Contents(b)[i] = b.buf[Index(b.tail + i - 1)]
  BY DEF Contents
<1> QED
  BY <1>6, <1>7

\* The operators of the abstract specification, element by element.
LEMMA FirstProperties ==
  ASSUME NEW s \in Seq(Bytes), NEW n \in Nat
  PROVE  /\ Fifo!First(s, n) \in Seq(Bytes)
         /\ Len(Fifo!First(s, n)) = Smaller(n, Len(s))
         /\ \A i \in 1..Smaller(n, Len(s)) : Fifo!First(s, n)[i] = s[i]
<1> DEFINE m == IF n < Len(s) THEN n ELSE Len(s)
<1>1. Len(s) \in Nat /\ m \in Nat /\ m <= Len(s) /\ m = Smaller(n, Len(s))
  BY LenProperties DEF Smaller
<1>2. \A i \in 1..m : s[i] \in Bytes
  BY <1>1, ElementOfSeq
<1>3. /\ SubSeq(s, 1, m) \in Seq(Bytes)
      /\ Len(SubSeq(s, 1, m)) = IF 1 <= m THEN m - 1 + 1 ELSE 0
      /\ \A i \in 1..(m - 1 + 1) : SubSeq(s, 1, m)[i] = s[1 + i - 1]
  <2> HIDE DEF m
  <2> QED
    BY <1>1, <1>2, SubSeqProperties
<1>4. Fifo!First(s, n) = SubSeq(s, 1, m)
  BY DEF Fifo!First
<1> HIDE DEF m
<1> QED
  BY <1>1, <1>3, <1>4

\* What remains behind a prefix: its length and its elements.
LEMMA RestProperties ==
  ASSUME NEW s \in Seq(Bytes), NEW n \in Nat
  PROVE  /\ Fifo!Rest(s, n) \in Seq(Bytes)
         /\ Len(Fifo!Rest(s, n)) = Len(s) - Smaller(n, Len(s))
         /\ \A i \in 1..(Len(s) - Smaller(n, Len(s))) : Fifo!Rest(s, n)[i] = s[n + i]
<1>1. Len(s) \in Nat
  BY LenProperties
<1>2. \A i \in n+1 .. Len(s) : s[i] \in Bytes
  BY <1>1, ElementOfSeq
<1>3. /\ SubSeq(s, n + 1, Len(s)) \in Seq(Bytes)
      /\ Len(SubSeq(s, n + 1, Len(s))) =
           IF n + 1 <= Len(s) THEN Len(s) - (n + 1) + 1 ELSE 0
      /\ \A i \in 1..(Len(s) - (n + 1) + 1) :
           SubSeq(s, n + 1, Len(s))[i] = s[(n + 1) + i - 1]
  BY <1>1, <1>2, SubSeqProperties
<1>4. CASE n < Len(s)
  <2>1. Smaller(n, Len(s)) = n /\ n + 1 <= Len(s) /\ Len(s) - (n + 1) + 1 = Len(s) - n
    BY <1>1, <1>4 DEF Smaller
  <2>2. \A i \in 1..(Len(s) - n) : (n + 1) + i - 1 = n + i
    BY <1>1
  <2> QED
    BY <1>3, <2>1, <2>2 DEF Fifo!Rest
<1>5. CASE ~(n < Len(s))
  <2>1. Len(s) - Smaller(n, Len(s)) = 0 /\ ~(n + 1 <= Len(s))
    BY <1>1, <1>5 DEF Smaller
  <2>2. 1..0 = {}
    OBVIOUS
  <2> QED
    BY <1>3, <2>1, <2>2 DEF Fifo!Rest
<1> QED
  BY <1>4, <1>5

\* The end of a sequence: its length and its elements.
LEMMA LastProperties ==
  ASSUME NEW s \in Seq(Bytes), NEW n \in Nat
  PROVE  /\ Fifo!Last(s, n) \in Seq(Bytes)
         /\ Len(Fifo!Last(s, n)) = Smaller(n, Len(s))
         /\ \A i \in 1..Smaller(n, Len(s)) :
              Fifo!Last(s, n)[i] = s[Len(s) - Smaller(n, Len(s)) + i]
<1>1. Len(s) \in Nat
  BY LenProperties
<1>2. CASE Len(s) <= n
  <2>1. Fifo!Last(s, n) = s
    BY <1>1, <1>2 DEF Fifo!Last
  <2>2. Smaller(n, Len(s)) = Len(s) /\ \A i \in 1..Len(s) : Len(s) - Len(s) + i = i
    BY <1>1, <1>2 DEF Smaller
  <2> QED
    BY <1>1, <2>1, <2>2
<1>3. CASE Len(s) > n
  <2>1. Fifo!Last(s, n) = Fifo!Rest(s, Len(s) - n)
    BY <1>1, <1>3 DEF Fifo!Last
  <2>2. Len(s) - n \in Nat /\ Smaller(Len(s) - n, Len(s)) = Len(s) - n /\ Smaller(n, Len(s)) = n
    BY <1>1, <1>3 DEF Smaller
  <2> DEFINE k == Len(s) - n
  <2>3. /\ Fifo!Rest(s, k) \in Seq(Bytes)
        /\ Len(Fifo!Rest(s, k)) = Len(s) - k
        /\ \A i \in 1..(Len(s) - k) : Fifo!Rest(s, k)[i] = s[k + i]
    <3> k \in Nat /\ Smaller(k, Len(s)) = k
      BY <2>2
    <3> HIDE DEF k
    <3> QED
      BY RestProperties
  <2>4. Len(s) - k = n
    BY <1>1
  <2> QED
    BY <2>1, <2>2, <2>3, <2>4
<1> QED
  BY <1>1, <1>2, <1>3

-----------------------------------------------------------------------------
\* The copies, wrapped or not, are the oldest bytes in order.
LEMMA CopiedIsFirst ==
  ASSUME NEW b \in Ring, NEW n \in Nat
  PROVE  Copied(b, n) = Fifo!First(Contents(b), n)
<1> DEFINE count == Smaller(n, b.size)
           first == Smaller(count, Capacity - b.tail)
<1>1. /\ Capacity \in Nat /\ Capacity > 0 /\ b.size \in 0..Capacity
      /\ b.tail \in 0..Capacity-1 /\ b.buf \in [0..Capacity-1 -> Bytes]
  BY BufferAssumption DEF BufferAssumption, Ring
<1>2. count \in Nat /\ count <= b.size /\ first \in Nat /\ first <= count
  BY <1>1 DEF Smaller
<1>3. ASSUME NEW i \in 1..count
      PROVE  /\ Copied(b, n)[i] = b.buf[Index(b.tail + i - 1)]
             /\ Index(b.tail + i - 1) \in 0..Capacity-1
  <2>1. b.tail + i - 1 \in 0..(2 * Capacity - 1)
    BY <1>1, <1>2
  <2>2. Copied(b, n)[i] = IF i <= first THEN b.buf[b.tail + i - 1] ELSE b.buf[i - first - 1]
    BY DEF Copied
  <2>3. CASE i <= first
    <3>1. b.tail + i - 1 < Capacity
      BY <1>1, <2>3 DEF Smaller
    <3> QED
      BY <1>1, <2>1, <2>2, <2>3, <3>1, Wrap
  <2>4. CASE i > first
    <3>1. first = Capacity - b.tail
      BY <1>1, <1>2, <2>4 DEF Smaller
    <3>2. /\ ~(b.tail + i - 1 < Capacity)
          /\ i - first - 1 = b.tail + i - 1 - Capacity
          /\ b.tail + i - 1 - Capacity \in 0..Capacity-1
      <4>1. i \in Nat /\ i <= Capacity /\ i > first
        BY <1>1, <1>2, <2>4
      <4> HIDE DEF first, count
      <4> QED
        BY <1>1, <3>1, <4>1
    <3>3. Copied(b, n)[i] = b.buf[i - first - 1]
      BY <1>2, <2>2, <2>4
    <3>4. Index(b.tail + i - 1) = b.tail + i - 1 - Capacity
      <4> HIDE DEF first, count
      <4> QED
        BY <1>1, <2>1, <3>2, Wrap
    <3> HIDE DEF first, count
    <3> QED
      BY <3>2, <3>3, <3>4
  <2> QED
    BY <1>2, <2>3, <2>4
<1>4. Copied(b, n) \in [1..count -> Bytes]
  <2>1. Copied(b, n) = [i \in 1..count |-> Copied(b, n)[i]]
    BY DEF Copied
  <2>2. \A i \in 1..count : Copied(b, n)[i] \in Bytes
    BY <1>1, <1>3
  <2> QED
    BY <2>1, <2>2
<1>5. Copied(b, n) \in Seq(Bytes) /\ Len(Copied(b, n)) = count
  <2> HIDE DEF count
  <2> QED
    BY <1>2, <1>4, FunctionIsSeq
<1>6. /\ Fifo!First(Contents(b), n) \in Seq(Bytes)
      /\ Len(Fifo!First(Contents(b), n)) = count
      /\ \A i \in 1..count : Fifo!First(Contents(b), n)[i] = Contents(b)[i]
  BY ContentsIsSeq, FirstProperties
<1>7. \A i \in 1..count : Contents(b)[i] = b.buf[Index(b.tail + i - 1)]
  BY <1>1, <1>2, ContentsIsSeq
<1> HIDE DEF count, first
<1> QED
  BY <1>3, <1>5, <1>6, <1>7, SeqEqual

\* drop() takes the oldest bytes away and nothing else.
LEMMA DroppedIsRest ==
  ASSUME NEW b, Good(b), NEW n \in Nat
  PROVE  Good(Dropped(b, n)) /\ Contents(Dropped(b, n)) = Fifo!Rest(Contents(b), n)
<1> DEFINE count == Smaller(n, b.size)
           d == Dropped(b, n)
<1>1. /\ Capacity \in Nat /\ Capacity > 0 /\ b.size \in 0..Capacity /\ b \in Ring
      /\ b.tail \in 0..Capacity-1 /\ b.buf \in [0..Capacity-1 -> Bytes]
      /\ b.head \in 0..Capacity-1 /\ b.head = Index(b.tail + b.size)
  BY BufferAssumption DEF BufferAssumption, Ring, Good
<1>2. count \in 0..b.size
  BY <1>1 DEF Smaller
<1>3. /\ d.buf = b.buf /\ d.head = b.head /\ d.size = b.size - count
      /\ d.tail = Index(b.tail + count)
  BY DEF Dropped
<1>4. d.tail = IF b.tail + count < Capacity THEN b.tail + count ELSE b.tail + count - Capacity
  BY <1>1, <1>2, <1>3, Wrap
<1>5. d \in Ring
  <2>1. d.tail \in 0..Capacity-1 /\ d.size \in 0..Capacity
    BY <1>1, <1>2, <1>3, <1>4
  <2>2. d = [buf |-> d.buf, head |-> d.head, tail |-> d.tail, size |-> d.size]
    BY DEF Dropped
  <2> HIDE DEF d
  <2> QED
    BY <1>1, <1>3, <2>1, <2>2 DEF Ring
<1>6. ASSUME NEW i \in 0..d.size
      PROVE Index(d.tail + i) = Index(b.tail + count + i)
  <2>1. /\ d.tail + i \in 0..(2 * Capacity - 1)
        /\ b.tail + count + i \in 0..(2 * Capacity - 1)
    <3>1. d.size \in Nat /\ count \in Nat /\ count + d.size = b.size
      BY <1>1, <1>2, <1>3
    <3>2. d.tail \in 0..Capacity-1
      BY <1>5 DEF Ring
    <3> HIDE DEF d, count
    <3>3. i \in Nat /\ count + i <= Capacity /\ i <= Capacity
      BY <1>1, <3>1
    <3>4. /\ Capacity \in Nat /\ Capacity > 0 /\ b.tail \in Nat /\ b.tail <= Capacity - 1
          /\ d.tail \in Nat /\ d.tail <= Capacity - 1
      BY <1>1, <3>2
    <3>5. d.tail + i \in 0..(2 * Capacity - 1)
      BY <3>3, <3>4
    <3>6. b.tail + count + i \in 0..(2 * Capacity - 1)
      BY <3>1, <3>3, <3>4
    <3> QED
      BY <3>5, <3>6
  <2> HIDE DEF d, count
  <2> QED
    BY <1>1, <1>2, <1>3, <1>4, <2>1, Wrap
<1>7. d.head = Index(d.tail + d.size)
  <2>1. d.size \in 0..d.size /\ count + d.size = b.size
    BY <1>1, <1>2, <1>3
  <2>2. Index(d.tail + d.size) = Index(b.tail + count + d.size)
    BY <1>6, <2>1
  <2>3. b.tail + count + d.size = b.tail + b.size
    BY <1>1, <1>2, <1>3
  <2> HIDE DEF d, count
  <2> QED
    BY <1>1, <1>3, <2>2, <2>3
<1>8. /\ Contents(d) \in Seq(Bytes) /\ Len(Contents(d)) = d.size
      /\ \A i \in 1..d.size : Contents(d)[i] = b.buf[Index(d.tail + i - 1)]
  BY <1>3, <1>5, ContentsIsSeq
<1>9. /\ Fifo!Rest(Contents(b), n) \in Seq(Bytes)
      /\ Len(Fifo!Rest(Contents(b), n)) = b.size - count
      /\ \A i \in 1..(b.size - count) : Fifo!Rest(Contents(b), n)[i] = Contents(b)[n + i]
  <2>1. Contents(b) \in Seq(Bytes) /\ Len(Contents(b)) = b.size
    BY <1>1, ContentsIsSeq
  <2> QED
    BY <2>1, RestProperties
<1>10. ASSUME NEW i \in 1..d.size
       PROVE  Contents(d)[i] = Fifo!Rest(Contents(b), n)[i]
  <2>1. count = n /\ n + i \in 1..b.size
    BY <1>1, <1>2, <1>3 DEF Smaller
  <2>2. Contents(b)[n + i] = b.buf[Index(b.tail + (n + i) - 1)]
    BY <1>1, <2>1, ContentsIsSeq
  <2>3. Index(d.tail + (i - 1)) = Index(b.tail + count + (i - 1))
    <3>1. i - 1 \in 0..d.size
      BY <1>1, <1>2, <1>3
    <3> QED
      BY <1>6, <3>1
  <2>4. d.tail + (i - 1) = d.tail + i - 1 /\ b.tail + count + (i - 1) = b.tail + (n + i) - 1
    BY <1>1, <1>2, <1>3, <1>4, <2>1
  <2> HIDE DEF d, count
  <2> QED
    BY <1>3, <1>8, <1>9, <2>1, <2>2, <2>3, <2>4
<1> HIDE DEF d
<1> QED
  BY <1>3, <1>5, <1>7, <1>8, <1>9, <1>10, SeqEqual DEF d, Good

-----------------------------------------------------------------------------
\* Where a write goes: t, s, h are m_tail, m_size, m_head, and the c bytes are
\* copied to f places from h on and to c - f places from 0 on.  The first s
\* places from t on are spared, the next c places are the written ones.
SlotsSplit(t, s, c, h, f) ==
  /\ h \in 0..Capacity-1 /\ f \in 0..c
  /\ Index(h + c) = Index(t + (s + c))
  /\ \A i \in 1..s : LET p == Index(t + i - 1)
                     IN /\ p \in 0..Capacity-1
                        /\ ~(h <= p /\ p < h + f)
                        /\ ~(p < c - f)
  /\ \A j \in 1..c : LET p == Index(t + (s + j) - 1)
                     IN /\ p \in 0..Capacity-1
                        /\ \/ h <= p /\ p < h + f /\ p - h + 1 = j
                           \/ p < h /\ p < c - f /\ f + p + 1 = j

\* Every write splits the places like that, whether it wraps or not.
LEMMA Slots ==
  ASSUME NEW t \in 0..Capacity-1, NEW s \in Nat, NEW c \in Nat, s + c <= Capacity,
         NEW h, h = Index(t + s), NEW f, f = Smaller(c, Capacity - h)
  PROVE  SlotsSplit(t, s, c, h, f)
<1>1. Capacity \in Nat /\ Capacity > 0 /\ t + s \in 0..(2 * Capacity - 1)
  BY BufferAssumption DEF BufferAssumption
<1>2. h = IF t + s < Capacity THEN t + s ELSE t + s - Capacity
  BY <1>1, Wrap
<1>3. h \in 0..Capacity-1 /\ f = IF c < Capacity - h THEN c ELSE Capacity - h
  BY <1>1, <1>2 DEF Smaller
<1>4. f \in 0..c
  BY <1>1, <1>3
<1>5. Index(h + c) = Index(t + (s + c))
  <2>1. h + c \in 0..(2 * Capacity - 1) /\ t + (s + c) \in 0..(2 * Capacity - 1)
    BY <1>1, <1>3
  <2>2. Index(h + c) = IF h + c < Capacity THEN h + c ELSE h + c - Capacity
    BY <1>1, <2>1, Wrap
  <2>3. Index(t + (s + c)) = IF t + (s + c) < Capacity THEN t + (s + c)
                             ELSE t + (s + c) - Capacity
    BY <1>1, <2>1, Wrap
  <2> QED
    BY <1>1, <1>2, <2>2, <2>3
<1>6. ASSUME NEW i \in 1..s
      PROVE  LET p == Index(t + i - 1)
             IN p \in 0..Capacity-1 /\ ~(h <= p /\ p < h + f) /\ ~(p < c - f)
  <2>1. t + i - 1 \in 0..(2 * Capacity - 1)
    BY <1>1
  <2>2. Index(t + i - 1) = IF t + i - 1 < Capacity THEN t + i - 1 ELSE t + i - 1 - Capacity
    BY <1>1, <2>1, Wrap
  <2> QED
    BY <1>1, <1>2, <1>3, <1>4, <2>2
<1>7. ASSUME NEW j \in 1..c
      PROVE  LET p == Index(t + (s + j) - 1)
             IN /\ p \in 0..Capacity-1
                /\ \/ h <= p /\ p < h + f /\ p - h + 1 = j
                   \/ p < h /\ p < c - f /\ f + p + 1 = j
  <2>1. t + (s + j) - 1 \in 0..(2 * Capacity - 1)
    BY <1>1
  <2>2. Index(t + (s + j) - 1) = IF t + (s + j) - 1 < Capacity THEN t + (s + j) - 1
                                 ELSE t + (s + j) - 1 - Capacity
    BY <1>1, <2>1, Wrap
  <2> QED
    BY <1>1, <1>2, <1>3, <1>4, <2>2
<1> QED
  BY <1>3, <1>4, <1>5, <1>6, <1>7 DEF SlotsSplit

\* write() puts a prefix of data behind what the buffer held.
LEMMA WrittenContents ==
  ASSUME NEW b, Good(b), NEW data \in Seq(Bytes)
  PROVE  LET w == Written(b, data)
             count == Smaller(Len(data), Capacity - b.size)
         IN /\ Good(w)
            /\ w.size = b.size + count
            /\ \A i \in 1..b.size : Contents(w)[i] = Contents(b)[i]
            /\ \A j \in 1..count : Contents(w)[b.size + j] = data[j]
<1> DEFINE w == Written(b, data)
           count == Smaller(Len(data), Capacity - b.size)
           first == Smaller(count, Capacity - b.head)
<1>1. /\ Capacity \in Nat /\ Capacity > 0 /\ b.size \in 0..Capacity /\ b \in Ring
      /\ b.tail \in 0..Capacity-1 /\ b.buf \in [0..Capacity-1 -> Bytes]
      /\ b.head \in 0..Capacity-1 /\ b.head = Index(b.tail + b.size)
  BY BufferAssumption DEF BufferAssumption, Ring, Good
<1>2. Len(data) \in Nat /\ \A j \in 1..Len(data) : data[j] \in Bytes
  BY LenProperties, ElementOfSeq
<1>3. count \in Nat /\ count <= Len(data) /\ b.size + count <= Capacity /\ b.size \in Nat
  BY <1>1, <1>2 DEF Smaller
<1>4. /\ first \in 0..count
      /\ Index(b.head + count) = Index(b.tail + (b.size + count))
      /\ \A i \in 1..b.size : LET p == Index(b.tail + i - 1)
                              IN /\ p \in 0..Capacity-1
                                 /\ ~(b.head <= p /\ p < b.head + first)
                                 /\ ~(p < count - first)
      /\ \A j \in 1..count : LET p == Index(b.tail + (b.size + j) - 1)
                             IN /\ p \in 0..Capacity-1
                                /\ \/ b.head <= p /\ p < b.head + first /\ p - b.head + 1 = j
                                   \/ p < b.head /\ p < count - first /\ first + p + 1 = j
  <2>1. first = Smaller(count, Capacity - b.head)
    OBVIOUS
  <2> HIDE DEF count, first
  <2>2. SlotsSplit(b.tail, b.size, count, b.head, first)
    BY <1>1, <1>3, <2>1, Slots
  <2> QED
    BY <2>2 DEF SlotsSplit
<1>5. /\ w.tail = b.tail /\ w.size = b.size + count /\ w.head = Index(b.head + count)
      /\ w.buf = [i \in 0..Capacity-1 |->
                    IF b.head <= i /\ i < b.head + first THEN data[i - b.head + 1]
                    ELSE IF i < count - first THEN data[first + i + 1] ELSE b.buf[i]]
      /\ w = [buf |-> w.buf, head |-> w.head, tail |-> w.tail, size |-> w.size]
  BY DEF Written
<1> HIDE DEF w, count, first
<1>6. Good(w)
  <2>1. w.buf \in [0..Capacity-1 -> Bytes]
    <3>1. ASSUME NEW i \in 0..Capacity-1 PROVE w.buf[i] \in Bytes
      <4>1. CASE b.head <= i /\ i < b.head + first
        <5>1. i - b.head + 1 \in 1..Len(data)
          <6>1. first \in Int /\ first <= Len(data) /\ Len(data) \in Nat /\ b.head \in Nat
            BY <1>1, <1>2, <1>3, <1>4
          <6> QED
            BY <4>1, <6>1
        <5> QED
          BY <1>2, <1>5, <4>1, <5>1
      <4>2. CASE ~(b.head <= i /\ i < b.head + first) /\ i < count - first
        <5>1. first + i + 1 \in 1..Len(data)
          BY <1>1, <1>2, <1>3, <1>4, <4>2
        <5> QED
          BY <1>2, <1>5, <4>2, <5>1
      <4>3. CASE ~(b.head <= i /\ i < b.head + first) /\ ~(i < count - first)
        BY <1>1, <1>5, <4>3
      <4> QED
        BY <4>1, <4>2, <4>3
    <3> QED
      BY <1>5, <3>1
  <2>2. w.size \in 0..Capacity
    BY <1>1, <1>3, <1>5
  <2>3. w.head \in 0..Capacity-1
    <3>1. b.head + count \in 0..(2 * Capacity - 1)
      BY <1>1, <1>3
    <3> QED
      BY <1>1, <1>5, <3>1, Wrap
  <2>4. w \in Ring
    BY <1>1, <1>5, <2>1, <2>2, <2>3 DEF Ring
  <2> QED
    BY <1>4, <1>5, <2>4 DEF Good
<1>7. \A i \in 1..(b.size + count) : Contents(w)[i] = w.buf[Index(b.tail + i - 1)]
  BY <1>5 DEF Contents
<1>8. ASSUME NEW i \in 1..b.size PROVE Contents(w)[i] = Contents(b)[i]
  <2>1. i \in 1..(b.size + count)
    BY <1>3
  <2>2. Contents(b)[i] = b.buf[Index(b.tail + i - 1)]
    BY DEF Contents
  <2> DEFINE k == Index(b.tail + i - 1)
  <2>3. /\ k \in 0..Capacity-1
        /\ ~(b.head <= k /\ k < b.head + first)
        /\ ~(k < count - first)
    BY <1>4
  <2>4. Contents(w)[i] = w.buf[k] /\ Contents(b)[i] = b.buf[k]
    BY <1>7, <2>1, <2>2
  <2> HIDE DEF k
  <2>5. w.buf[k] = b.buf[k]
    BY <1>5, <2>3
  <2> QED
    BY <2>4, <2>5
<1>9. ASSUME NEW j \in 1..count PROVE Contents(w)[b.size + j] = data[j]
  <2>1. b.size + j \in 1..(b.size + count)
    BY <1>3
  <2>2. Contents(w)[b.size + j] = w.buf[Index(b.tail + (b.size + j) - 1)]
    BY <1>7, <2>1
  <2> QED
    BY <1>1, <1>4, <1>5, <2>2
<1> QED
  BY <1>5, <1>6, <1>8, <1>9 DEF w, count

-----------------------------------------------------------------------------
\* The buffer after a write is exactly the old contents, then what fits of data.
LEMMA WrittenIsAppend ==
  ASSUME NEW b, Good(b), NEW data \in Seq(Bytes)
  PROVE  LET q == Contents(b)
             w == Contents(Written(b, data))
         IN /\ Good(Written(b, data))
            /\ q \in Seq(Bytes) /\ Len(q) = b.size /\ b.size \in 0..Capacity
            /\ w \in Seq(Bytes)
            /\ Len(w) = b.size + Smaller(Len(data), Capacity - b.size)
            /\ \A i \in 1..Len(w) : w[i] = IF i <= b.size THEN q[i] ELSE data[i - b.size]
<1> DEFINE q == Contents(b)
           w == Contents(Written(b, data))
           count == Smaller(Len(data), Capacity - b.size)
<1>1. b \in Ring /\ b.size \in 0..Capacity /\ Capacity \in Nat
  BY BufferAssumption DEF BufferAssumption, Ring, Good
<1>2. /\ Good(Written(b, data)) /\ Written(b, data).size = b.size + count
      /\ \A i \in 1..b.size : w[i] = q[i]
      /\ \A j \in 1..count : w[b.size + j] = data[j]
  BY WrittenContents
<1>3. q \in Seq(Bytes) /\ Len(q) = b.size
  BY <1>1, ContentsIsSeq
<1>4. w \in Seq(Bytes) /\ Len(w) = b.size + count
  BY <1>2, ContentsIsSeq DEF Good
<1>5. count \in Nat /\ b.size \in Nat
  <2>1. Len(data) \in Nat
    BY LenProperties
  <2> QED
    BY <1>1, <2>1 DEF Smaller
<1>6. ASSUME NEW i \in 1..(b.size + count)
      PROVE  w[i] = IF i <= b.size THEN q[i] ELSE data[i - b.size]
  <2> HIDE DEF q, w, count
  <2>1. CASE i <= b.size
    BY <1>2, <1>5, <2>1
  <2>2. CASE ~(i <= b.size)
    <3>1. i - b.size \in 1..count /\ b.size + (i - b.size) = i
      BY <1>5, <2>2
    <3> QED
      BY <1>2, <2>2, <3>1
  <2> QED
    BY <2>1, <2>2
<1> HIDE DEF q, w, count
<1>7. /\ Good(Written(b, data))
      /\ q \in Seq(Bytes) /\ Len(q) = b.size /\ b.size \in 0..Capacity
      /\ w \in Seq(Bytes)
      /\ Len(w) = b.size + count
      /\ \A i \in 1..Len(w) : w[i] = IF i <= b.size THEN q[i] ELSE data[i - b.size]
  BY <1>1, <1>2, <1>3, <1>4, <1>6
<1> QED
  BY <1>7 DEF q, w, count

\* write() does what the FIFO's Write does.
LEMMA WriteRefines ==
  ASSUME NEW b, Good(b), NEW data \in Seq(Bytes)
  PROVE  /\ Contents(Written(b, data)) = Fifo!First(Contents(b) \o data, Capacity)
         /\ Accepted(b, data) = Fifo!First(data, Capacity - Len(Contents(b)))
<1> DEFINE q == Contents(b)
           w == Contents(Written(b, data))
           count == Smaller(Len(data), Capacity - b.size)
<1>1. /\ q \in Seq(Bytes) /\ Len(q) = b.size /\ b.size \in 0..Capacity
      /\ w \in Seq(Bytes)
      /\ Len(w) = b.size + count
      /\ \A i \in 1..Len(w) : w[i] = IF i <= b.size THEN q[i] ELSE data[i - b.size]
  BY WrittenIsAppend
<1>2. Len(data) \in Nat /\ Capacity \in Nat
  BY BufferAssumption, LenProperties DEF BufferAssumption
<1>3. /\ q \o data \in Seq(Bytes) /\ Len(q \o data) = b.size + Len(data)
      /\ \A i \in 1..(b.size + Len(data)) :
           (q \o data)[i] = IF i <= b.size THEN q[i] ELSE data[i - b.size]
  <2> HIDE DEF q, w
  <2>1. /\ q \o data \in Seq(Bytes) /\ Len(q \o data) = Len(q) + Len(data)
        /\ \A i \in 1..(Len(q) + Len(data)) :
             (q \o data)[i] = IF i <= Len(q) THEN q[i] ELSE data[i - Len(q)]
    <3>1. q \in Seq(Bytes)
      BY <1>1
    <3> QED
      BY <3>1, ConcatProperties
  <2>2. Len(q) = b.size
    BY <1>1
  <2> QED
    BY <2>1, <2>2
<1>4. /\ Fifo!First(q \o data, Capacity) \in Seq(Bytes)
      /\ Len(Fifo!First(q \o data, Capacity)) = Smaller(Capacity, Len(q \o data))
      /\ \A i \in 1..Smaller(Capacity, Len(q \o data)) :
           Fifo!First(q \o data, Capacity)[i] = (q \o data)[i]
  <2> HIDE DEF q, w
  <2> QED
    BY <1>2, <1>3, FirstProperties
<1>5. /\ Smaller(Capacity, Len(q \o data)) = b.size + count
      /\ count \in Nat /\ count <= Len(data) /\ b.size \in Nat
  <2> HIDE DEF q, w
  <2> QED
    BY <1>1, <1>2, <1>3 DEF Smaller
<1>6. w = Fifo!First(q \o data, Capacity)
  <2> HIDE DEF q, w, count
  <2>1. \A i \in 1..Len(w) : i \in 1..(b.size + Len(data))
    BY <1>1, <1>2, <1>5
  <2>2. \A i \in 1..Len(w) : w[i] = (q \o data)[i]
    BY <1>1, <1>3, <2>1
  <2>3. \A i \in 1..Len(w) : w[i] = Fifo!First(q \o data, Capacity)[i]
    BY <1>1, <1>4, <1>5, <2>2
  <2>4. Len(w) = Len(Fifo!First(q \o data, Capacity))
    BY <1>1, <1>4, <1>5
  <2> QED
    BY <1>1, <1>4, <2>3, <2>4, SeqEqual
<1>7. Accepted(b, data) = Fifo!First(data, Capacity - b.size)
  <2>1. /\ Fifo!First(data, Capacity - b.size) \in Seq(Bytes)
        /\ Len(Fifo!First(data, Capacity - b.size)) = Smaller(Capacity - b.size, Len(data))
        /\ \A i \in 1..Smaller(Capacity - b.size, Len(data)) :
             Fifo!First(data, Capacity - b.size)[i] = data[i]
    <3>1. Capacity - b.size \in Nat
      BY <1>1, <1>2
    <3> QED
      BY <3>1, FirstProperties
  <2>2. Smaller(Capacity - b.size, Len(data)) = count
    BY <1>1, <1>2 DEF Smaller
  <2>3. Accepted(b, data) = [i \in 1..count |-> data[i]]
    BY DEF Accepted, Prefix
  <2> HIDE DEF count
  <2>4. Accepted(b, data) \in [1..count -> Bytes]
    <3>1. \A i \in 1..count : data[i] \in Bytes
      BY <1>2, <1>5, ElementOfSeq
    <3> QED
      BY <2>3, <3>1
  <2>5. Accepted(b, data) \in Seq(Bytes) /\ Len(Accepted(b, data)) = count
    BY <1>5, <2>4, FunctionIsSeq
  <2> QED
    BY <2>1, <2>2, <2>3, <2>5, SeqEqual
<1> QED
  BY <1>1, <1>6, <1>7

\* pushRx() with DROP_OLDER_DATA, data shorter than the buffer: the oldest bytes
\* make room for all of data.
LEMMA PushMakesRoom ==
  ASSUME NEW b, Good(b), NEW data \in Seq(Bytes),
         Len(data) <= Capacity - b.size \/ Len(data) < Capacity
  PROVE  LET r == RoomFor(b, data)
         IN /\ Good(Written(r, data))
            /\ Contents(Written(r, data)) = Fifo!Last(Contents(b) \o data, Capacity)
            /\ Accepted(r, data) = Fifo!Last(data, Capacity)
<1> DEFINE q == Contents(b)
           r == RoomFor(b, data)
           w == Contents(Written(r, data))
           L == Len(data)
           s == q \o data
           need == IF L > Capacity - b.size THEN L - (Capacity - b.size) ELSE 0
<1>1. /\ q \in Seq(Bytes) /\ Len(q) = b.size /\ b.size \in 0..Capacity
      /\ L \in Nat /\ Capacity \in Nat /\ Capacity > 0 /\ L <= Capacity
      /\ L > Capacity - b.size => L < Capacity
  <2>1. q \in Seq(Bytes) /\ Len(q) = b.size /\ b.size \in 0..Capacity
    BY WrittenIsAppend
  <2>2. L \in Nat /\ Capacity \in Nat /\ Capacity > 0
    BY BufferAssumption, LenProperties DEF BufferAssumption
  <2> QED
    BY <2>1, <2>2
<1>2. need \in Nat /\ need <= b.size
  BY <1>1
<1>3. /\ Good(r) /\ r.size = b.size - need
      /\ \A i \in 1..r.size : Contents(r)[i] = q[need + i]
  <2>1. CASE L > Capacity - b.size
    <3>1. r = Dropped(b, need)
      BY <2>1 DEF RoomFor
    <3>2. Good(Dropped(b, need)) /\ Contents(Dropped(b, need)) = Fifo!Rest(q, need)
      BY <1>2, DroppedIsRest
    <3>3. Smaller(need, b.size) = need
      BY <1>1, <1>2 DEF Smaller
    <3>4. \A i \in 1..(b.size - need) : Fifo!Rest(q, need)[i] = q[need + i]
      <4> HIDE DEF q, need
      <4>1. \A i \in 1..(Len(q) - Smaller(need, Len(q))) : Fifo!Rest(q, need)[i] = q[need + i]
        BY <1>1, <1>2, RestProperties
      <4> QED
        BY <1>1, <3>3, <4>1
    <3>5. Dropped(b, need).size = b.size - Smaller(need, b.size)
      BY DEF Dropped
    <3> HIDE DEF need, q, r
    <3> QED
      BY <3>1, <3>2, <3>3, <3>4, <3>5
  <2>2. CASE ~(L > Capacity - b.size)
    <3>1. r = b /\ need = 0
      BY <2>2 DEF RoomFor
    <3>2. \A i \in 1..b.size : 0 + i = i
      OBVIOUS
    <3> QED
      BY <1>1, <3>1, <3>2
  <2> QED
    BY <2>1, <2>2
<1>4. Smaller(L, Capacity - r.size) = L /\ r.size \in Nat /\ r.size + L <= Capacity
  BY <1>1, <1>2, <1>3 DEF Smaller
<1>5. /\ Good(Written(r, data)) /\ w \in Seq(Bytes) /\ Len(w) = r.size + L
      /\ \A i \in 1..Len(w) : w[i] = IF i <= r.size THEN Contents(r)[i] ELSE data[i - r.size]
  BY <1>3, <1>4, WrittenIsAppend
<1>6. /\ s \in Seq(Bytes) /\ Len(s) = b.size + L
      /\ \A i \in 1..(b.size + L) :
           s[i] = IF i <= b.size THEN q[i] ELSE data[i - b.size]
  <2> HIDE DEF q
  <2> QED
    BY <1>1, ConcatProperties
<1>7. /\ Fifo!Last(s, Capacity) \in Seq(Bytes)
      /\ Len(Fifo!Last(s, Capacity)) = Smaller(Capacity, b.size + L)
      /\ \A i \in 1..Smaller(Capacity, b.size + L) :
           Fifo!Last(s, Capacity)[i] =
             s[b.size + L - Smaller(Capacity, b.size + L) + i]
  <2>1. /\ Fifo!Last(s, Capacity) \in Seq(Bytes)
        /\ Len(Fifo!Last(s, Capacity)) = Smaller(Capacity, Len(s))
        /\ \A i \in 1..Smaller(Capacity, Len(s)) :
             Fifo!Last(s, Capacity)[i] = s[Len(s) - Smaller(Capacity, Len(s)) + i]
    <3>1. s \in Seq(Bytes) /\ Capacity \in Nat
      BY <1>1, <1>6
    <3> HIDE DEF s
    <3> QED
      BY <3>1, LastProperties
  <2>2. Len(s) = b.size + L
    BY <1>6
  <2>3. Smaller(Capacity, b.size + L) \in Nat
    BY <1>1 DEF Smaller
  <2> HIDE DEF q, L, s
  <2> QED
    BY <1>1, <2>1, <2>2, <2>3
<1>8. Smaller(Capacity, b.size + L) = r.size + L /\ b.size + L - (r.size + L) = need
  BY <1>1, <1>2, <1>3 DEF Smaller
<1>9. w = Fifo!Last(s, Capacity)
  <2> HIDE DEF q, r, w, L, need, s
  <2>1. ASSUME NEW i \in 1..(r.size + L) PROVE w[i] = s[need + i]
    <3>1. need + i \in 1..(b.size + L) /\ b.size \in Nat
      BY <1>1, <1>2, <1>3, <1>4
    <3>2. CASE i <= r.size
      <4>1. i \in 1..r.size /\ need + i <= b.size
        BY <1>1, <1>2, <1>3, <1>4, <3>2
      <4>2. w[i] = Contents(r)[i]
        BY <1>5, <3>2
      <4> QED
        BY <1>3, <1>6, <3>1, <4>1, <4>2
    <3>3. CASE ~(i <= r.size)
      <4>1. ~(need + i <= b.size) /\ need + i - b.size = i - r.size
        BY <1>1, <1>2, <1>3, <1>4, <3>3
      <4>2. w[i] = data[i - r.size]
        BY <1>5, <3>3
      <4>3. s[need + i] = data[need + i - b.size]
        <5> DEFINE k == need + i
        <5>1. k \in 1..(b.size + L) /\ ~(k <= b.size)
          BY <3>1, <4>1
        <5> HIDE DEF k
        <5>2. s[k] = data[k - b.size]
          BY <1>6, <5>1
        <5> QED
          BY <1>1, <1>2, <5>2 DEF k
      <4> QED
        BY <4>1, <4>2, <4>3
    <3> QED
      BY <3>2, <3>3
  <2>2. \A i \in 1..Len(w) : w[i] = Fifo!Last(s, Capacity)[i]
    BY <1>5, <1>7, <1>8, <2>1
  <2>3. Len(w) = Len(Fifo!Last(s, Capacity))
    BY <1>5, <1>7, <1>8
  <2> QED
    BY <1>5, <1>7, <2>2, <2>3, SeqEqual
<1>10. Accepted(r, data) = Fifo!Last(data, Capacity)
  <2>1. Fifo!Last(data, Capacity) = data
    BY <1>1 DEF Fifo!Last
  <2>2. Accepted(r, data) = [i \in 1..L |-> data[i]]
    BY <1>4 DEF Accepted, Prefix
  <2>3. data = [i \in 1..L |-> data[i]]
    BY LenProperties
  <2> QED
    BY <2>1, <2>2, <2>3
<1> QED
  BY <1>5, <1>9, <1>10

\* pushRx() with DROP_OLDER_DATA, data at least as long as the buffer: only the
\* end of data remains.
LEMMA PushReplaces ==
  ASSUME NEW b, Good(b), NEW data \in Seq(Bytes), Len(data) >= Capacity
  PROVE  LET w == Written(Dropped(b, b.size), Suffix(data))
         IN /\ Good(w)
            /\ Contents(w) = Fifo!Last(Contents(b) \o data, Capacity)
            /\ Suffix(data) = Fifo!Last(data, Capacity)
<1> DEFINE q == Contents(b)
           e == Dropped(b, b.size)
           w == Contents(Written(e, Suffix(data)))
           L == Len(data)
           s == q \o data
<1>1. /\ q \in Seq(Bytes) /\ Len(q) = b.size /\ b.size \in 0..Capacity /\ b.size \in Nat
      /\ L \in Nat /\ Capacity \in Nat /\ Capacity > 0 /\ L >= Capacity
  <2>1. q \in Seq(Bytes) /\ Len(q) = b.size /\ b.size \in 0..Capacity
    BY WrittenIsAppend
  <2>2. L \in Nat /\ Capacity \in Nat /\ Capacity > 0
    BY BufferAssumption, LenProperties DEF BufferAssumption
  <2> QED
    BY <2>1, <2>2
<1>2. Good(e) /\ e.size = 0
  <2>1. e.size = b.size - Smaller(b.size, b.size)
    BY DEF Dropped
  <2>2. Smaller(b.size, b.size) = b.size
    BY <1>1 DEF Smaller
  <2> QED
    BY <1>1, <2>1, <2>2, DroppedIsRest
<1>3. Suffix(data) \in Seq(Bytes) /\ Len(Suffix(data)) = Capacity
  <2>1. \A i \in 1..Capacity : data[L - Capacity + i] \in Bytes
    <3>1. ASSUME NEW i \in 1..Capacity PROVE L - Capacity + i \in 1..L
      BY <1>1
    <3> QED
      BY <1>1, <3>1, ElementOfSeq
  <2>2. Suffix(data) \in [1..Capacity -> Bytes]
    BY <2>1 DEF Suffix
  <2> QED
    BY <1>1, <2>2, FunctionIsSeq
<1>4. Smaller(Len(Suffix(data)), Capacity - e.size) = Capacity /\ e.size + Capacity = Capacity
  BY <1>1, <1>2, <1>3 DEF Smaller
<1>5. /\ Good(Written(e, Suffix(data))) /\ w \in Seq(Bytes) /\ Len(w) = Capacity
      /\ \A i \in 1..Capacity : w[i] = IF i <= e.size THEN Contents(e)[i]
                                       ELSE Suffix(data)[i - e.size]
  BY <1>2, <1>3, <1>4, WrittenIsAppend
<1>6. \A i \in 1..Capacity : w[i] = data[L - Capacity + i]
  <2>1. \A i \in 1..Capacity : ~(i <= 0) /\ i - 0 = i
    BY <1>1
  <2>2. \A i \in 1..Capacity : Suffix(data)[i] = data[L - Capacity + i]
    BY DEF Suffix
  <2> HIDE DEF w, e, L
  <2> QED
    BY <1>2, <1>5, <2>1, <2>2
<1>7. /\ s \in Seq(Bytes) /\ Len(s) = b.size + L
      /\ \A i \in 1..(b.size + L) :
           s[i] = IF i <= b.size THEN q[i] ELSE data[i - b.size]
  <2>1. /\ s \in Seq(Bytes) /\ Len(s) = Len(q) + Len(data)
        /\ \A i \in 1..(Len(q) + Len(data)) :
             s[i] = IF i <= Len(q) THEN q[i] ELSE data[i - Len(q)]
    <3> HIDE DEF q
    <3> QED
      BY <1>1, ConcatProperties
  <2> HIDE DEF q
  <2> QED
    BY <1>1, <2>1
<1>8. /\ Smaller(Capacity, b.size + L) = Capacity /\ Smaller(Capacity, L) = Capacity
      /\ \A i \in 1..Capacity :
           LET k == b.size + L - Capacity + i
           IN k \in 1..(b.size + L) /\ ~(k <= b.size) /\ k - b.size = L - Capacity + i
  BY <1>1 DEF Smaller
<1>9. w = Fifo!Last(s, Capacity)
  <2>1. /\ Fifo!Last(s, Capacity) \in Seq(Bytes)
        /\ Len(Fifo!Last(s, Capacity)) = Capacity
        /\ \A i \in 1..Capacity : Fifo!Last(s, Capacity)[i] =
                                    s[b.size + L - Capacity + i]
    <3>1. /\ Fifo!Last(s, Capacity) \in Seq(Bytes)
          /\ Len(Fifo!Last(s, Capacity)) = Smaller(Capacity, Len(s))
          /\ \A i \in 1..Smaller(Capacity, Len(s)) :
               Fifo!Last(s, Capacity)[i] = s[Len(s) - Smaller(Capacity, Len(s)) + i]
      <4>1. s \in Seq(Bytes) /\ Capacity \in Nat
        BY <1>1, <1>7
      <4> HIDE DEF s
      <4> QED
        BY <4>1, LastProperties
    <3>2. Len(s) = b.size + L
      BY <1>7
    <3>3. Smaller(Capacity, Len(s)) = Capacity
      BY <1>8, <3>2
    <3>4. \A i \in 1..Capacity : Fifo!Last(s, Capacity)[i] = s[Len(s) - Capacity + i]
      <4> HIDE DEF q, L, s
      <4> QED
        BY <3>1, <3>3
    <3> HIDE DEF q, L, s
    <3> QED
      BY <1>1, <3>1, <3>2, <3>3, <3>4
  <2> HIDE DEF q, w, L, e, s
  <2>2. \A i \in 1..Capacity : s[b.size + L - Capacity + i] = data[L - Capacity + i]
    BY <1>7, <1>8
  <2>3. \A i \in 1..Len(w) : w[i] = Fifo!Last(s, Capacity)[i]
    BY <1>5, <1>6, <2>1, <2>2
  <2>4. Len(w) = Len(Fifo!Last(s, Capacity))
    BY <1>5, <2>1
  <2> QED
    BY <1>5, <2>1, <2>3, <2>4, SeqEqual
<1>10. Suffix(data) = Fifo!Last(data, Capacity)
  <2>1. /\ Fifo!Last(data, Capacity) \in Seq(Bytes)
        /\ Len(Fifo!Last(data, Capacity)) = Capacity
        /\ \A i \in 1..Capacity : Fifo!Last(data, Capacity)[i] = data[L - Capacity + i]
    <3>1. /\ Fifo!Last(data, Capacity) \in Seq(Bytes)
          /\ Len(Fifo!Last(data, Capacity)) = Smaller(Capacity, Len(data))
          /\ \A i \in 1..Smaller(Capacity, Len(data)) :
               Fifo!Last(data, Capacity)[i] = data[Len(data) - Smaller(Capacity, Len(data)) + i]
      BY <1>1, LastProperties
    <3> QED
      BY <1>8, <3>1
  <2>2. \A i \in 1..Capacity : Suffix(data)[i] = data[L - Capacity + i]
    BY DEF Suffix
  <2> QED
    BY <1>3, <2>1, <2>2, SeqEqual
<1> QED
  BY <1>5, <1>9, <1>10

-----------------------------------------------------------------------------
\* Each call keeps m_size, m_head and m_tail in agreement, and does to the
\* contents what the FIFO's operation of the same name does to its queue.
LEMMA StepRefines ==
  ASSUME IInv, [Next]_vars
  PROVE  IInv' /\ [Fifo!Next]_<<Contents(rb), ret>>
<1> DEFINE q == Contents(rb)
<1>1. Good(rb) /\ rb \in Ring /\ ret \in Seq(Bytes)
  BY DEF IInv, TypeOK, HeadFollows, Good
<1>2. q \in Seq(Bytes) /\ Len(q) = rb.size /\ rb.size \in 0..Capacity
  BY <1>1, BufferAssumption, ContentsIsSeq DEF Ring, BufferAssumption
<1>3. ASSUME NEW n \in 0..MaxLen
      PROVE  /\ Good(Dropped(rb, n)) /\ Contents(Dropped(rb, n)) = Fifo!Rest(q, n)
             /\ Copied(rb, n) = Fifo!First(q, n) /\ Copied(rb, n) \in Seq(Bytes)
  <2>1. n \in Nat
    BY BufferAssumption DEF BufferAssumption
  <2> QED
    BY <1>1, <1>2, <2>1, DroppedIsRest, CopiedIsFirst, FirstProperties
<1>4. ASSUME NEW n \in 0..MaxLen, Read(n) \/ Peek(n) \/ Drop(n)
      PROVE  IInv' /\ Fifo!Next
  <2>1. /\ Good(rb') /\ ret' \in Seq(Bytes)
        /\ Fifo!Read(n) \/ Fifo!Peek(n) \/ Fifo!Drop(n)
    BY <1>1, <1>3, <1>4 DEF Read, Peek, Drop, Fifo!Read, Fifo!Peek, Fifo!Drop
  <2> QED
    BY <2>1 DEF IInv, TypeOK, HeadFollows, Good, Fifo!Next
<1>5. ASSUME NEW data \in Chunks, Write(data)
      PROVE  IInv' /\ Fifo!Next
  <2>1. data \in Seq(Bytes) /\ Fifo!Chunks = Chunks
    BY ChunkIsSeq DEF Chunks, Fifo!Chunks
  <2>2. Good(rb')
    BY <1>1, <1>5, <2>1, WrittenIsAppend DEF Write
  <2>3. Fifo!Write(data)
    BY <1>1, <1>5, <2>1, WriteRefines DEF Write, Fifo!Write
  <2>4. ret' \in Seq(Bytes)
    <3>1. Capacity - Len(q) \in Nat
      BY <1>2, BufferAssumption DEF BufferAssumption
    <3>2. Fifo!First(data, Capacity - Len(q)) \in Seq(Bytes)
      BY <2>1, <3>1, FirstProperties
    <3> QED
      BY <2>3, <3>2 DEF Fifo!Write
  <2> QED
    BY <2>1, <2>2, <2>3, <2>4 DEF IInv, TypeOK, HeadFollows, Good, Fifo!Next
<1>6. ASSUME NEW data \in Chunks, NEW dropOlder \in BOOLEAN, PushRx(data, dropOlder)
      PROVE  IInv' /\ Fifo!Next
  <2>1. data \in Seq(Bytes) /\ Fifo!Chunks = Chunks /\ Len(data) \in Nat
    BY ChunkIsSeq, LenProperties DEF Chunks, Fifo!Chunks
  <2>2. Capacity \in Nat
    BY BufferAssumption DEF BufferAssumption
  <2>3. CASE /\ Len(data) > Capacity - rb.size /\ ~dropOlder
             /\ ret' = <<>> /\ UNCHANGED rb
    <3>1. Fifo!Push(data, dropOlder)
      BY <1>2, <2>1, <2>2, <2>3 DEF Fifo!Push
    <3> QED
      BY <1>1, <2>1, <2>3, <3>1 DEF IInv, TypeOK, HeadFollows, Good, Fifo!Next
  <2>4. CASE /\ Len(data) > Capacity - rb.size /\ dropOlder /\ Len(data) >= Capacity
             /\ rb' = Written(Dropped(rb, rb.size), Suffix(data))
             /\ ret' = Suffix(data)
    <3>1. /\ Good(rb') /\ Contents(rb') = Fifo!Last(q \o data, Capacity)
          /\ ret' = Fifo!Last(data, Capacity)
      BY <1>1, <2>1, <2>4, PushReplaces
    <3>2. Fifo!Push(data, dropOlder)
      BY <2>4, <3>1 DEF Fifo!Push
    <3>3. ret' \in Seq(Bytes)
      BY <2>1, <2>2, <3>1, LastProperties
    <3> QED
      BY <2>1, <3>1, <3>2, <3>3 DEF IInv, TypeOK, HeadFollows, Good, Fifo!Next
  <2>5. CASE /\ Len(data) <= Capacity - rb.size \/ (dropOlder /\ Len(data) < Capacity)
             /\ rb' = Written(RoomFor(rb, data), data)
             /\ ret' = Accepted(RoomFor(rb, data), data)
    <3>1. /\ Good(rb') /\ Contents(rb') = Fifo!Last(q \o data, Capacity)
          /\ ret' = Fifo!Last(data, Capacity)
      BY <1>1, <2>1, <2>5, PushMakesRoom
    <3>2. Len(q) + Len(data) <= Capacity \/ dropOlder
      BY <1>2, <2>1, <2>2, <2>5
    <3>3. Fifo!Push(data, dropOlder)
      BY <3>1, <3>2 DEF Fifo!Push
    <3>4. ret' \in Seq(Bytes)
      BY <2>1, <2>2, <3>1, LastProperties
    <3> QED
      BY <2>1, <3>1, <3>3, <3>4 DEF IInv, TypeOK, HeadFollows, Good, Fifo!Next
  <2> QED
    BY <1>6, <2>3, <2>4, <2>5 DEF PushRx
<1>7. CASE UNCHANGED vars
  <2>1. rb' = rb /\ ret' = ret
    BY <1>7 DEF vars
  <2> QED
    BY <1>1, <2>1 DEF IInv, TypeOK, HeadFollows, Good
<1> QED
  BY <1>4, <1>5, <1>6, <1>7 DEF Next

\* A new buffer is an empty FIFO.
LEMMA InitRefines == Init => IInv /\ Fifo!Init
<1> SUFFICES ASSUME Init PROVE IInv /\ Fifo!Init
  OBVIOUS
<1>1. Capacity \in Nat /\ Capacity > 0
  BY BufferAssumption DEF BufferAssumption
<1>2. rb \in Ring /\ rb.size = 0 /\ rb.tail = 0 /\ rb.head = 0 /\ ret = <<>>
  BY <1>1 DEF Init, Ring
<1>3. Index(0 + 0) = 0
  BY <1>1, Wrap
<1>4. Contents(rb) \in Seq(Bytes) /\ Len(Contents(rb)) = 0
  BY <1>2, ContentsIsSeq
<1>5. Contents(rb) = <<>> /\ <<>> \in Seq(Bytes)
  BY <1>4, EmptySeq
<1> QED
  BY <1>2, <1>3, <1>5 DEF IInv, TypeOK, HeadFollows, Fifo!Init

\* m_head, m_tail and m_size agree in every reachable state, for every capacity.
THEOREM HeadAlwaysFollows == Spec => []HeadFollows
<1>1. Init => IInv
  BY InitRefines
<1>2. IInv /\ [Next]_vars => IInv'
  BY StepRefines
<1>3. IInv => HeadFollows
  BY DEF IInv
<1> QED
  BY <1>1, <1>2, <1>3, PTL DEF Spec

\* The ring buffer implements the bounded FIFO: wrapped copies, partial writes
\* and both overflow policies included, for every capacity and length.
THEOREM RingIsFifo == Spec => IsFifo
<1>1. Init => IInv /\ Fifo!Init
  BY InitRefines
<1>2. IInv /\ [Next]_vars => IInv' /\ [Fifo!Next]_<<Contents(rb), ret>>
  BY StepRefines
<1> QED
  BY <1>1, <1>2, PTL DEF Spec, IsFifo, Fifo!Spec
-----------------------------------------------------------------------------
(* The value of an attribute: what holds of its buffer, of the thread that  *)
(* sets it and of the reads.                                                *)

\* The bytes of the texts, and those that the library puts.
BytesOf(text) == {text[i] : i \in DOMAIN text}
Byte == {Nul, Junk} \cup (UNION {BytesOf(text) : text \in Texts})

Value == [block : Blocks, len : Nat, capacity : Nat]
SettingAt == {"set", "append", "copy", "check"}
CallRecord ==
  [at : SettingAt \cup {"idle", "copying", "onRead", "reading", "told", "read", "onWrite"},
   text : Texts \cup {<< >>}, back : {"idle", "reading", "onWrite"}, res : Blocks,
   len : Nat, got : Seq(Byte), alone : BOOLEAN, peer : Readers \cup {Nobody}]
ReadRecord == [open : BOOLEAN, got : Seq(Byte), alone : BOOLEAN]

\* A call that serves a peer's read knows the peer.
InOnRead(c) == c.at \in SettingAt /\ c.back = "reading"
Serves(c) == c.at \in {"onRead", "reading", "told"} \/ InOnRead(c)

CallOK(c) ==
  /\ c.at # "idle" => c \in CallRecord
  /\ c.at \in SettingAt /\ c.back = "onWrite" => Len(c.text) <= MaxLength
  /\ Serves(c) => c.peer \in Readers

\* The records of the calls are complete, the bytes are those of some text.
TypeInv ==
  /\ m_value \in Value
  /\ heap \in [Blocks -> Seq(Byte)]
  /\ caller = [t \in AttThreads |-> caller[t]]
  /\ \A t \in AttThreads : CallOK(caller[t])
  /\ reads \in [Readers -> ReadRecord]
  /\ races \subseteq {"writers", "no memory", "grown"} /\ fault \subseteq {"access", "compare"}

\* Whether a thread is at work on the value.
Busy(t) == In(t) \in {"append", "copy", "check"}

\* No two threads are between the start and the end of a setValue().
OneSetter == \A t, u \in AttThreads : Busy(t) /\ Busy(u) => t = u

\* What a thread that sets the value relies on.
SetterOK(c) ==
  /\ c.at \in {"append", "copy"} => m_value.len = 0
  /\ c.at = "copy" =>
       /\ c.len = Len(c.text) /\ c.len <= m_value.capacity
       /\ m_value.capacity < Len(heap[c.res])
  /\ c.at = "check" => (Len(c.text) <= MaxLength => Stored = c.text)

\* The buffer has room for the capacity and the final 0.
BufferOK ==
  /\ m_value.len <= m_value.capacity
  /\ ~Dangling => m_value.capacity < Len(heap[m_value.block])
  /\ Stored \in Texts \cup {<< >>}

\* What a thread has copied, alone, is a value that was set, or none.
CopyOK(c) == c.at = "read" /\ c.alone => c.got \in Texts \cup {<< >>}

\* A read has the first bytes of a value that nobody sets between its parts, and
\* nothing when its onRead() is called; c is the call of the host task.
ReadOK(p, c) ==
  LET got == reads[p].got
  IN  /\ reads[p].alone /\ ~(c.at = "told" /\ c.peer = p) =>
           Len(got) <= Len(Stored) /\ got = SubSeq(Stored, 1, Len(got))
      /\ (c.at = "onRead" \/ InOnRead(c)) /\ c.peer = p => got = << >>
      /\ c.at = "told" /\ c.peer = p /\ reads[p].alone => got \in Texts \cup {<< >>}

\* The value of which a read is alone is set by its own onRead() at most.
AloneOK ==
  \A p \in Readers, u \in AttThreads : reads[p].alone /\ Busy(u) => OwnRead(u, p)

\* What holds until threads race, or the heap is out of memory.
Safe ==
  /\ "access" \notin fault
  /\ OneSetter /\ AloneOK /\ BufferOK
  /\ \A t \in AttThreads : SetterOK(caller[t]) /\ CopyOK(caller[t])
  /\ \A p \in Readers : ReadOK(p, caller["host"])

AttInv == TypeInv /\ (races = {} => Safe)

\* The attribute's value without the ring buffer, which has nothing to do with it.
AttSpec == AttInit /\ [][AttNext]_attVars

-----------------------------------------------------------------------------
(* The bytes.                                                              *)

\* The texts, the final 0 and what realloc() leaves are made of bytes.
LEMMA TextIsSeq ==
  ASSUME NEW text \in Texts \cup {<< >>}
  PROVE  text \in Seq(Byte) /\ Len(text) \in Nat
<1>1. CASE text = << >>
  BY <1>1
<1>2. CASE text \in Texts
  <2>1. Len(text) \in Nat /\ text = [i \in 1..Len(text) |-> text[i]]
    BY <1>2, ValueAssumption DEF ValueAssumption
  <2>2. \A i \in 1..Len(text) : text[i] \in Byte
    <3>1. DOMAIN text = 1..Len(text)
      BY <2>1
    <3> QED
      <4>1. \A i \in 1..Len(text) : text[i] \in BytesOf(text)
        BY <3>1 DEF BytesOf
      <4>2. BytesOf(text) \subseteq Byte
        BY <1>2 DEF Byte
      <4> QED
        BY <4>1, <4>2
  <2>3. text \in [1..Len(text) -> Byte]
    BY <2>1, <2>2
  <2> QED
    BY <2>1, <2>3
<1> QED
  BY <1>1, <1>2

LEMMA NulIs == <<Nul>> \in Seq(Byte) /\ Len(<<Nul>>) = 1 /\ Nul \in Byte /\ Junk \in Byte
<1>1. Nul \in Byte /\ Junk \in Byte
  BY DEF Byte
<1> QED
  BY <1>1

\* A copy keeps the length of the block.
LEMMA PutIs ==
  ASSUME NEW block \in Seq(Byte), NEW n \in Nat, NEW bytes \in Seq(Byte)
  PROVE  LET p == Put(block, n, bytes)
         IN  /\ p \in Seq(Byte) /\ Len(p) = Len(block)
             /\ \A i \in 1..Len(block) :
                  p[i] = IF n + 1 <= i /\ i <= n + Len(bytes) THEN bytes[i - n] ELSE block[i]
<1> DEFINE p == Put(block, n, bytes)
<1>1. DOMAIN block = 1..Len(block) /\ Len(block) \in Nat /\ Len(bytes) \in Nat
  OBVIOUS
<1>2. p = [i \in 1..Len(block) |->
             IF i \in (n + 1)..(n + Len(bytes)) THEN bytes[i - n] ELSE block[i]]
  BY <1>1 DEF Put
<1>3. ASSUME NEW i \in 1..Len(block)
      PROVE  /\ p[i] = IF n + 1 <= i /\ i <= n + Len(bytes) THEN bytes[i - n] ELSE block[i]
             /\ p[i] \in Byte
  <2>1. p[i] = IF n + 1 <= i /\ i <= n + Len(bytes) THEN bytes[i - n] ELSE block[i]
    BY <1>1, <1>2
  <2>2. CASE n + 1 <= i /\ i <= n + Len(bytes)
    <3>1. i - n \in 1..Len(bytes)
      BY <1>1, <2>2
    <3> QED
      BY <2>1, <2>2, <3>1
  <2>3. CASE ~(n + 1 <= i /\ i <= n + Len(bytes))
    BY <2>1, <2>3
  <2> QED
    BY <2>1, <2>2, <2>3
<1> HIDE DEF p
<1>4. p \in [1..Len(block) -> Byte]
  <2>1. p = [i \in 1..Len(block) |-> p[i]]
    BY <1>2
  <2> QED
    BY <1>3, <2>1
<1>5. p \in Seq(Byte) /\ Len(p) = Len(block)
  BY <1>1, <1>4
<1> QED
  BY <1>3, <1>5 DEF p

LEMMA GrownIs ==
  ASSUME NEW block \in Seq(Byte), NEW n \in Nat
  PROVE  Grown(block, n) \in Seq(Byte) /\ Len(Grown(block, n)) = n + 1
<1> DEFINE g == Grown(block, n)
<1>1. \A i \in 1..(n + 1) : (IF i <= Len(block) THEN block[i] ELSE Junk) \in Byte
  BY NulIs
<1>2. g \in [1..(n + 1) -> Byte]
  BY <1>1 DEF Grown
<1> HIDE DEF g
<1>3. g \in Seq(Byte) /\ Len(g) = n + 1
  BY <1>2
<1> QED
  BY <1>3 DEF g

\* The first n bytes of a block, as far as there are any.
First(block, n) == SubSeq(block, 1, IF n <= Len(block) THEN n ELSE Len(block))

LEMMA FirstOfIs ==
  ASSUME NEW block \in Seq(Byte), NEW n \in Nat
  PROVE  /\ First(block, n) \in Seq(Byte)
         /\ n = 0 => First(block, n) = << >>
         /\ n <= Len(block) =>
              /\ Len(First(block, n)) = n
              /\ \A i \in 1..n : First(block, n)[i] = block[i]
<1> DEFINE k == IF n <= Len(block) THEN n ELSE Len(block)
<1>1. k \in Nat /\ k <= Len(block) /\ k <= n /\ (n <= Len(block) => k = n)
  OBVIOUS
<1>2. First(block, n) = SubSeq(block, 1, k)
  BY DEF First
<1> HIDE DEF k
<1>3. \A i \in 1..k : block[i] \in Byte
  BY <1>1
<1>4. /\ SubSeq(block, 1, k) \in Seq(Byte)
      /\ Len(SubSeq(block, 1, k)) = IF 1 <= k THEN k - 1 + 1 ELSE 0
      /\ \A i \in 1..(k - 1 + 1) : SubSeq(block, 1, k)[i] = block[1 + i - 1]
  BY <1>1, <1>3, SubSeqProperties
<1>5. n = 0 => SubSeq(block, 1, k) = << >>
  BY <1>1, SubSeqEmpty
<1>6. Len(SubSeq(block, 1, k)) = k
  BY <1>1, <1>4
<1>7. \A i \in 1..k : SubSeq(block, 1, k)[i] = block[i]
  BY <1>1, <1>4
<1> QED
  BY <1>1, <1>2, <1>4, <1>5, <1>6, <1>7

LEMMA StoredIs == Stored = First(heap[m_value.block], m_value.len)
BY DEF Stored, First

\* Bytes that are copied to the front of a block are its first.
LEMMA FirstOfPut ==
  ASSUME NEW block \in Seq(Byte), NEW text \in Seq(Byte), Len(text) < Len(block)
  PROVE  First(Put(Put(block, 0, text), Len(text), <<Nul>>), Len(text)) = text
<1> DEFINE p == Put(block, 0, text)
           q == Put(p, Len(text), <<Nul>>)
           n == Len(text)
<1>0. n \in Nat /\ 0 \in Nat /\ Len(block) \in Nat
  OBVIOUS
<1>1. /\ p \in Seq(Byte) /\ Len(p) = Len(block)
      /\ \A i \in 1..Len(block) :
           p[i] = IF 0 + 1 <= i /\ i <= 0 + n THEN text[i - 0] ELSE block[i]
  BY <1>0, PutIs
<1> HIDE DEF p
<1>2. /\ q \in Seq(Byte) /\ Len(q) = Len(p)
      /\ \A i \in 1..Len(p) :
           q[i] = IF n + 1 <= i /\ i <= n + Len(<<Nul>>) THEN <<Nul>>[i - n] ELSE p[i]
  BY <1>0, <1>1, NulIs, PutIs
<1> HIDE DEF q
<1>3. ASSUME NEW i \in 1..n PROVE q[i] = text[i]
  <2>1. i \in 1..Len(block) /\ ~(n + 1 <= i) /\ 0 + 1 <= i /\ i <= 0 + n /\ i - 0 = i
    BY <1>0
  <2>2. q[i] = p[i]
    BY <1>1, <1>2, <2>1
  <2>3. p[i] = text[i - 0]
    BY <1>1, <2>1
  <2> QED
    BY <2>1, <2>2, <2>3
<1>4. First(q, n) \in Seq(Byte) /\ Len(First(q, n)) = n /\ \A i \in 1..n : First(q, n)[i] = q[i]
  <2>1. n <= Len(q)
    BY <1>0, <1>1, <1>2
  <2> QED
    BY <1>0, <1>2, <2>1, FirstOfIs
<1>5. First(q, n) = text
  BY <1>0, <1>3, <1>4
<1> QED
  BY <1>5 DEF q, p

-----------------------------------------------------------------------------
(* The types.                                                              *)

LEMMA MovesIs ==
  ASSUME TypeInv, NEW t \in AttThreads, NEW c, CallOK(c), caller' = [caller EXCEPT ![t] = c]
  PROVE  /\ caller' = [u \in AttThreads |-> caller'[u]]
         /\ caller'[t] = c
         /\ \A u \in AttThreads \ {t} : caller'[u] = caller[u]
         /\ \A u \in AttThreads : CallOK(caller'[u])
<1>1. caller = [u \in AttThreads |-> caller[u]] /\ \A u \in AttThreads : CallOK(caller[u])
  BY DEF TypeInv
<1>2. /\ caller' = [u \in AttThreads |-> caller'[u]]
      /\ caller'[t] = c
      /\ \A u \in AttThreads \ {t} : caller'[u] = caller[u]
  BY <1>1
<1> QED
  BY <1>1, <1>2

\* The record of a thread that is in a call, and its changes.
LEMMA CallIs ==
  ASSUME TypeInv, NEW t \in AttThreads, In(t) # "idle"
  PROVE  caller[t] \in CallRecord
BY DEF TypeInv, CallOK, In

LEMMA NewCallIs ==
  ASSUME NEW at \in {"set", "copying", "onRead", "reading"}, NEW text \in Texts \cup {<< >>},
         NEW back \in {"idle", "onWrite"}, NEW len \in Nat, NEW p \in Readers \cup {Nobody},
         back = "onWrite" => Len(text) <= MaxLength,
         at \in {"onRead", "reading"} => p \in Readers
  PROVE  LET c == NewCall(at, text, back, len, p)
         IN  CallOK(c) /\ c.at = at /\ c.back = back /\ c.peer = p
<1> DEFINE alone == \A u \in AttThreads : ~Setting(u)
           c == [at |-> at, text |-> text, back |-> back, res |-> 1, len |-> len,
                 got |-> << >>, alone |-> alone, peer |-> p]
<1>1. alone \in BOOLEAN /\ 1 \in Blocks
  BY ValueAssumption DEF ValueAssumption
<1>2. NewCall(at, text, back, len, p) = c
  BY DEF NewCall
<1> HIDE DEF alone
<1>3. c \in CallRecord /\ c.at = at /\ c.back = back /\ c.peer = p /\ c.text = text
  BY <1>1 DEF CallRecord, SettingAt
<1> HIDE DEF c
<1>4. CallOK(c)
  BY <1>3 DEF CallOK, Serves, InOnRead, SettingAt
<1> QED
  BY <1>2, <1>3, <1>4

LEMMA RestIs == CallOK(Rest) /\ Rest.at = "idle" /\ ~Serves(Rest)
BY DEF CallOK, Rest, SettingAt, Serves, InOnRead

LEMMA GoesTo ==
  ASSUME NEW c \in CallRecord, CallOK(c),
         NEW at \in SettingAt \cup {"idle", "reading", "onWrite", "read", "told"},
         c.at \in SettingAt \/ at \notin SettingAt,
         at \in {"reading", "told"} => Serves(c)
  PROVE  LET d == [c EXCEPT !.at = at]
         IN  /\ d \in CallRecord /\ CallOK(d) /\ d.at = at /\ d.text = c.text /\ d.back = c.back
             /\ d.got = c.got /\ d.alone = c.alone /\ d.res = c.res /\ d.len = c.len
             /\ d.peer = c.peer
<1> DEFINE d == [c EXCEPT !.at = at]
<1>1. /\ d \in CallRecord /\ d.at = at /\ d.text = c.text /\ d.back = c.back
      /\ d.got = c.got /\ d.alone = c.alone /\ d.res = c.res /\ d.len = c.len
      /\ d.peer = c.peer
  BY DEF CallRecord, SettingAt
<1> HIDE DEF d
<1>2. CallOK(d)
  BY <1>1 DEF CallOK, SettingAt, Serves, InOnRead
<1> QED
  BY <1>1, <1>2 DEF d

LEMMA DisturbIs ==
  ASSUME TypeInv, NEW t \in AttThreads, In(t) = "set", caller' = Disturb(t)
  PROVE  /\ caller' = [u \in AttThreads |-> caller'[u]]
         /\ \A u \in AttThreads : CallOK(caller'[u])
         /\ caller'[t] = [caller[t] EXCEPT !.at = "append"]
         /\ \A u \in AttThreads \ {t} :
              /\ In(u) \in {"copying", "read"} => caller'[u].at = In(u) /\ ~caller'[u].alone
              /\ In(u) \notin {"copying", "read"} => caller'[u] = caller[u]
<1>1. caller' = [u \in AttThreads |->
         IF u = t THEN [caller[u] EXCEPT !.at = "append"]
         ELSE IF In(u) \in {"copying", "read"} THEN [caller[u] EXCEPT !.alone = FALSE]
         ELSE caller[u]]
  BY DEF Disturb
<1>2. caller'[t] = [caller[t] EXCEPT !.at = "append"] /\ CallOK(caller'[t])
  <2>1. caller'[t] = [caller[t] EXCEPT !.at = "append"]
    BY <1>1
  <2>2. caller[t] \in CallRecord /\ CallOK(caller[t]) /\ caller[t].at \in SettingAt
    BY CallIs DEF TypeInv, In, SettingAt
  <2>3. "append" \in SettingAt
    BY DEF SettingAt
  <2> QED
    BY <2>1, <2>2, <2>3, GoesTo
<1>3. ASSUME NEW u \in AttThreads \ {t}, In(u) \in {"copying", "read"}
      PROVE  caller'[u].at = In(u) /\ ~caller'[u].alone /\ CallOK(caller'[u])
  <2>1. caller'[u] = [caller[u] EXCEPT !.alone = FALSE]
    BY <1>1, <1>3
  <2>2. caller[u] \in CallRecord
    BY <1>3, CallIs
  <2>3. caller'[u] \in CallRecord /\ caller'[u].at = caller[u].at /\ ~caller'[u].alone
    BY <2>1, <2>2 DEF CallRecord
  <2> QED
    BY <1>3, <2>3 DEF CallOK, In, SettingAt, Serves, InOnRead
<1>4. ASSUME NEW u \in AttThreads \ {t}, In(u) \notin {"copying", "read"}
      PROVE  caller'[u] = caller[u] /\ CallOK(caller'[u])
  BY <1>1, <1>4 DEF TypeInv
<1>5. caller' = [u \in AttThreads |-> caller'[u]]
  BY <1>1
<1> QED
  BY <1>2, <1>3, <1>4, <1>5

-----------------------------------------------------------------------------
(* The steps of a call that change nothing of the value.                   *)

Races == {"writers", "no memory", "grown"}

Faults == {"access", "compare"}

\* A call that does not set the value, of a thread that has not been in the heap.
NoNewSetter(t, c) == In(t) # "copy" /\ c.at \notin {"append", "copy", "check"}

\* The host task's call after thread t has gone on to c.
HostNow(t, c) == IF t = "host" THEN c ELSE caller["host"]

\* A read that becomes alone meets nobody who sets the value.
NobodySets(t) ==
  \A p \in Readers : reads'[p].alone => reads[p].alone \/ \A u \in AttThreads \ {t} : ~Busy(u)

LEMMA Moved ==
  ASSUME AttInv, NEW t \in AttThreads, NEW c, CallOK(c), caller' = [caller EXCEPT ![t] = c],
         UNCHANGED <<m_value, heap>>, reads' \in [Readers -> ReadRecord],
         races' \subseteq Races, fault' \subseteq Faults,
         races' = {} => races = {} /\ "access" \notin fault',
         races' = {} => NoNewSetter(t, c) /\ SetterOK(c) /\ CopyOK(c) /\ NobodySets(t),
         races' = {} => \A p \in Readers : ReadOK(p, HostNow(t, c))'
  PROVE  AttInv'
<1>1. TypeInv
  BY DEF AttInv
<1>2. /\ caller' = [u \in AttThreads |-> caller'[u]]
      /\ caller'[t] = c
      /\ \A u \in AttThreads \ {t} : caller'[u] = caller[u]
      /\ \A u \in AttThreads : CallOK(caller'[u])
  BY <1>1, MovesIs
<1>3. TypeInv'
  BY <1>1, <1>2 DEF TypeInv, Races, Faults
<1>4. ASSUME races' = {} PROVE Safe'
  <2>1. Safe /\ "access" \notin fault' /\ NoNewSetter(t, c) /\ SetterOK(c) /\ CopyOK(c) /\ NobodySets(t)
    BY <1>4 DEF AttInv
  <2>2. \A u \in AttThreads : (Busy(u))' => u # t /\ Busy(u) /\ caller'[u] = caller[u]
    BY <1>2, <2>1 DEF Busy, In, NoNewSetter
  <2>3. OneSetter'
    BY <2>1, <2>2 DEF OneSetter, Safe
  <2>4. AloneOK'
    <3>1. SUFFICES ASSUME NEW p \in Readers, NEW u \in AttThreads, reads'[p].alone, (Busy(u))'
                   PROVE  (OwnRead(u, p))'
      BY DEF AloneOK
    <3>2. u # t /\ Busy(u) /\ caller'[u] = caller[u]
      BY <2>2, <3>1
    <3>3. reads[p].alone
      BY <2>1, <3>1, <3>2 DEF NobodySets
    <3>4. OwnRead(u, p)
      BY <2>1, <3>2, <3>3 DEF AloneOK, Safe
    <3> QED
      BY <3>2, <3>4 DEF OwnRead
  <2>5. Stored' = Stored
    BY DEF Stored
  <2>6. Dangling' <=> Dangling
    BY <1>2, <2>1 DEF Dangling, In, NoNewSetter
  <2>7. BufferOK'
    BY <2>1, <2>5, <2>6 DEF BufferOK, Safe
  <2>8. ASSUME NEW u \in AttThreads PROVE (SetterOK(caller[u]) /\ CopyOK(caller[u]))'
    <3>1. CASE u = t
      BY <1>2, <2>1, <2>5, <3>1 DEF SetterOK, CopyOK
    <3>2. CASE u # t
      <4>1. SetterOK(caller[u]) /\ CopyOK(caller[u]) /\ caller'[u] = caller[u]
        BY <1>2, <2>1, <3>2 DEF Safe
      <4> QED
        BY <2>5, <4>1 DEF SetterOK, CopyOK
    <3> QED
      BY <3>1, <3>2
  <2>9. ASSUME NEW p \in Readers PROVE ReadOK(p, caller["host"])'
    <3>1. caller'["host"] = HostNow(t, c)
      BY <1>2 DEF HostNow, AttThreads
    <3>2. ReadOK(p, HostNow(t, c))'
      BY <1>4
    <3> QED
      BY <3>1, <3>2 DEF ReadOK, InOnRead, HostNow
  <2> QED
    BY <2>1, <2>3, <2>4, <2>7, <2>8, <2>9 DEF Safe
<1> QED
  BY <1>3, <1>4 DEF AttInv

\* What holds of each thread and of the value when nothing went wrong.
LEMMA SafeIs ==
  ASSUME AttInv, races = {}, NEW t \in AttThreads
  PROVE  /\ "access" \notin fault /\ BufferOK /\ SetterOK(caller[t]) /\ CopyOK(caller[t])
         /\ Busy(t) => \A u \in AttThreads \ {t} : ~Busy(u)
         /\ \A p \in Readers : ReadOK(p, caller["host"])
BY DEF AttInv, Safe, OneSetter

\* A step that is not of a read leaves the reads as they are.
LEMMA ReadsKept ==
  ASSUME AttInv, NEW t \in AttThreads, NEW c, caller' = [caller EXCEPT ![t] = c],
         UNCHANGED <<m_value, heap, reads>>, races = {},
         t = "host" => In(t) # "told" /\ c.at \notin {"onRead", "told"} /\ ~InOnRead(c)
  PROVE  NobodySets(t) /\ \A p \in Readers : ReadOK(p, HostNow(t, c))'
<1>1. NobodySets(t)
  BY DEF NobodySets
<1>2. ASSUME NEW p \in Readers PROVE ReadOK(p, HostNow(t, c))'
  <2>1. ReadOK(p, caller["host"]) /\ Stored' = Stored
    BY SafeIs DEF Stored
  <2>2. CASE t # "host"
    <3>1. caller'["host"] = caller["host"]
      BY <2>2
    <3> QED
      BY <2>1, <2>2, <3>1 DEF ReadOK, InOnRead, HostNow
  <2>3. CASE t = "host"
    <3>1. reads[p].alone => Len(reads[p].got) <= Len(Stored) /\ reads[p].got = SubSeq(Stored, 1, Len(reads[p].got))
      BY <2>1, <2>3 DEF ReadOK, In
    <3> QED
      BY <2>1, <2>3, <3>1 DEF ReadOK, InOnRead, HostNow
  <2> QED
    BY <2>2, <2>3
<1> QED
  BY <1>1, <1>2

LEMMA Typed ==
  ASSUME AttInv
  PROVE  /\ TypeInv /\ races \subseteq Races /\ fault \subseteq Faults
         /\ m_value \in Value /\ heap \in [Blocks -> Seq(Byte)]
         /\ reads \in [Readers -> ReadRecord]
         /\ \A t \in AttThreads : CallOK(caller[t])
BY DEF AttInv, TypeInv, Races, Faults

\* An access that fails is noted.
LEMMA FailsIs ==
  ASSUME NEW kind \in Faults, NEW wrong, fault \subseteq Faults, Fails(kind, wrong)
  PROVE  /\ fault' \subseteq Faults
         /\ "access" \notin fault /\ (kind = "access" => ~wrong) => "access" \notin fault'
BY DEF Fails, Faults

LEMMA StoredIsBytes ==
  ASSUME AttInv
  PROVE  Stored \in Seq(Byte) /\ (m_value.len = 0 => Stored = << >>)
<1>1. m_value.len \in Nat /\ heap[m_value.block] \in Seq(Byte)
  BY Typed DEF Value
<1> QED
  BY <1>1, StoredIs, FirstOfIs

\* The next part of the bytes s, of which a read has g.
LEMMA PartIs ==
  ASSUME NEW s \in Seq(Byte), NEW g \in Seq(Byte)
  PROVE  LET rest == SubSeq(s, Len(g) + 1, Len(s))
             n    == IF Len(rest) < Part THEN Len(rest) ELSE Part
             d    == g \o SubSeq(rest, 1, n)
         IN  /\ d \in Seq(Byte)
             /\ Len(g) <= Len(s) /\ g = SubSeq(s, 1, Len(g)) =>
                  /\ Len(rest) < Part => d = s
                  /\ ~(Len(rest) < Part) => Len(d) <= Len(s) /\ d = SubSeq(s, 1, Len(d))
<1> DEFINE k == Len(g)
           m == Len(s)
           rest == SubSeq(s, k + 1, m)
           n == IF Len(rest) < Part THEN Len(rest) ELSE Part
           p == SubSeq(rest, 1, n)
           d == g \o p
<1>1. k \in Nat /\ m \in Nat /\ Part \in Nat /\ k + 1 \in Int /\ m \in Int
  BY ValueAssumption DEF ValueAssumption
<1>2. \A i \in (k + 1)..m : s[i] \in Byte
  BY <1>1
<1>3. /\ rest \in Seq(Byte)
      /\ Len(rest) = IF k + 1 <= m THEN m - (k + 1) + 1 ELSE 0
      /\ \A i \in 1..(m - (k + 1) + 1) : rest[i] = s[k + 1 + i - 1]
  BY <1>1, <1>2, SubSeqProperties
<1> HIDE DEF rest
<1>4. n \in Nat /\ n <= Len(rest) /\ Len(rest) \in Nat
      /\ (Len(rest) < Part => n = Len(rest))
  BY <1>1, <1>3
<1> HIDE DEF n
<1>5. \A i \in 1..n : rest[i] \in Byte
  BY <1>3, <1>4
<1>6. /\ p \in Seq(Byte)
      /\ Len(p) = IF 1 <= n THEN n - 1 + 1 ELSE 0
      /\ \A i \in 1..(n - 1 + 1) : p[i] = rest[1 + i - 1]
  BY <1>4, <1>5, SubSeqProperties
<1> HIDE DEF p
<1>7. Len(p) = n /\ \A i \in 1..n : p[i] = rest[i]
  BY <1>4, <1>6
<1>8. /\ d \in Seq(Byte) /\ Len(d) = k + n
      /\ \A i \in 1..(k + n) : d[i] = IF i <= k THEN g[i] ELSE p[i - k]
  BY <1>6, <1>7, ConcatProperties
<1> HIDE DEF d
<1>9. ASSUME k <= m, g = SubSeq(s, 1, k)
      PROVE  /\ k + n <= m /\ d = SubSeq(s, 1, k + n)
             /\ Len(rest) < Part => k + n = m
  <2>1. Len(rest) = m - k /\ k + n <= m
    BY <1>1, <1>3, <1>4, <1>9
  <2>2. \A i \in 1..k : s[i] \in Byte
    BY <1>1, <1>9
  <2>3. \A i \in 1..(k - 1 + 1) : g[i] = s[1 + i - 1]
    BY <1>1, <1>9, <2>2, SubSeqProperties
  <2>4. \A i \in 1..k : g[i] = s[i]
    BY <1>1, <2>3
  <2>5. ASSUME NEW i \in 1..(k + n) PROVE d[i] = s[i]
    <3>1. CASE i <= k
      <4>1. i \in 1..k /\ d[i] = g[i]
        BY <1>1, <1>4, <1>8, <3>1
      <4> QED
        BY <2>4, <4>1
    <3>2. CASE ~(i <= k)
      <4>1. i - k \in 1..n /\ d[i] = p[i - k]
        BY <1>1, <1>4, <1>8, <3>2
      <4>2. i - k \in 1..(m - (k + 1) + 1) /\ k + 1 + (i - k) - 1 = i
        BY <1>1, <1>4, <2>1, <4>1
      <4>3. rest[i - k] = s[k + 1 + (i - k) - 1]
        BY <1>3, <4>2
      <4> QED
        BY <1>7, <4>1, <4>2, <4>3
    <3> QED
      BY <3>1, <3>2
  <2>6. \A i \in 1..(k + n) : s[i] \in Byte
    BY <1>1, <1>4, <2>1
  <2> DEFINE e == SubSeq(s, 1, k + n)
  <2>7. 1 \in Int /\ k + n \in Int
    BY <1>1, <1>4
  <2>8. /\ e \in Seq(Byte)
        /\ Len(e) = IF 1 <= k + n THEN (k + n) - 1 + 1 ELSE 0
        /\ \A i \in 1..((k + n) - 1 + 1) : e[i] = s[1 + i - 1]
    BY <2>6, <2>7, SubSeqProperties
  <2> HIDE DEF e
  <2>9. Len(e) = k + n /\ \A i \in 1..(k + n) : e[i] = s[i]
    BY <1>1, <1>4, <2>8
  <2>10. d = e
    BY <1>8, <2>5, <2>8, <2>9
  <2> QED
    BY <1>4, <2>1, <2>10 DEF e
<1>10. ASSUME k <= m, g = SubSeq(s, 1, k), Len(rest) < Part PROVE d = s
  <2>1. k + n = m /\ d = SubSeq(s, 1, m)
    BY <1>9, <1>10
  <2>2. 1 \in Int /\ m \in Int /\ \A i \in 1..m : s[i] \in Byte
    BY <1>1
  <2>3. \A i \in 1..(m - 1 + 1) : d[i] = s[1 + i - 1]
    BY <2>1, <2>2, SubSeqProperties
  <2>4. Len(d) = m /\ \A i \in 1..m : d[i] = s[i]
    BY <1>1, <1>8, <2>1, <2>3
  <2> QED
    BY <1>8, <2>4
<1> QED
  BY <1>8, <1>9, <1>10 DEF d, p, n, rest

LEMMA Nothing ==
  ASSUME NEW s \in Seq(Byte)
  PROVE  << >> \in Seq(Byte) /\ Len(<< >>) = 0 /\ 0 <= Len(s) /\ << >> = SubSeq(s, 1, 0)
<1>1. 1 \in Int /\ 0 \in Int /\ 0 < 1
  OBVIOUS
<1>2. SubSeq(s, 1, 0) = << >>
  BY <1>1, SubSeqEmpty
<1> QED
  BY <1>2

-----------------------------------------------------------------------------
(* The steps of a call that do not change the value.                       *)

\* The comparison of setValue() stays within the buffer if the value is not too long.
LEMMA ComparesWithin ==
  ASSUME AttInv, NEW t \in AttThreads, In(t) = "check", races = {}, ~TooLong(caller[t])
  PROVE  Holds(m_value.block, Len(caller[t].text))
<1>1. caller[t] \in CallRecord /\ CallOK(caller[t]) /\ caller[t].at = "check" /\ SetterOK(caller[t])
  BY Typed, CallIs, SafeIs DEF In
<1>2. Len(caller[t].text) \in Nat /\ MaxLength \in Nat
  BY <1>1, TextIsSeq, ValueAssumption DEF CallRecord, ValueAssumption
<1>3. Len(caller[t].text) <= MaxLength
  BY <1>1, <1>2 DEF TooLong, CallOK, SettingAt
<1>4. Stored = caller[t].text
  BY <1>1, <1>3 DEF SetterOK
<1>5. m_value.len \in Nat /\ heap[m_value.block] \in Seq(Byte)
  BY Typed DEF Value
<1>6. Len(Stored) <= Len(heap[m_value.block])
  <2>1. ~Dangling
    BY <1>1, SafeIs DEF Dangling, Busy, In
  <2>2. m_value.len <= m_value.capacity /\ m_value.capacity < Len(heap[m_value.block])
    BY <2>1, SafeIs DEF BufferOK
  <2>3. m_value.capacity \in Nat /\ Len(heap[m_value.block]) \in Nat
    BY <1>5, Typed DEF Value
  <2>4. m_value.len <= Len(heap[m_value.block])
    BY <1>5, <2>2, <2>3
  <2> QED
    BY <1>5, <2>4, StoredIs, FirstOfIs
<1> QED
  BY <1>4, <1>6 DEF Holds

LEMMA SetReturnsKeeps ==
  ASSUME AttInv, NEW t \in AttThreads, SetReturns(t)
  PROVE  AttInv'
<1>0. PICK c : c = [caller[t] EXCEPT !.at = caller[t].back]
  OBVIOUS
<1> DEFINE kind == IF TooLong(caller[t]) THEN "compare" ELSE "access"
           wrong == ~Holds(m_value.block, Len(caller[t].text))
<1>1. /\ In(t) = "check" /\ caller' = [caller EXCEPT ![t] = c]
      /\ Fails(kind, wrong) /\ UNCHANGED <<m_value, heap, reads, races>>
  BY <1>0 DEF SetReturns, MovesTo, Moves
<1>2. caller[t] \in CallRecord /\ CallOK(caller[t]) /\ caller[t].at = "check"
  BY <1>1, Typed, CallIs DEF In
<1>3. caller[t].back \in {"idle", "reading", "onWrite"}
  BY <1>2 DEF CallRecord
<1>4. CallOK(c) /\ c.at = caller[t].back
  <2>1. caller[t].back = "reading" => Serves(caller[t])
    BY <1>2 DEF Serves, InOnRead, SettingAt
  <2> QED
    BY <1>0, <1>2, <1>3, <2>1, GoesTo DEF SettingAt
<1>5. kind \in Faults /\ fault \subseteq Faults
  BY Typed DEF Faults
<1>6. ASSUME races = {} PROVE kind = "access" => ~wrong
  BY <1>1, <1>2, <1>6, ComparesWithin DEF TooLong
<1> HIDE DEF kind, wrong
<1>7. fault' \subseteq Faults /\ (races' = {} => races = {} /\ "access" \notin fault')
  <2>1. races = {} => "access" \notin fault
    BY SafeIs
  <2> QED
    BY <1>1, <1>5, <1>6, <2>1, FailsIs
<1>8. ASSUME races = {}
      PROVE  /\ NoNewSetter(t, c) /\ SetterOK(c) /\ CopyOK(c) /\ NobodySets(t)
             /\ \A p \in Readers : ReadOK(p, HostNow(t, c))'
  <2>1. NoNewSetter(t, c) /\ SetterOK(c) /\ CopyOK(c)
    BY <1>1, <1>3, <1>4 DEF NoNewSetter, SetterOK, CopyOK
  <2>2. In(t) # "told" /\ c.at \notin {"onRead", "told"} /\ ~InOnRead(c)
    BY <1>1, <1>3, <1>4 DEF InOnRead, SettingAt
  <2> QED
    BY <1>1, <1>8, <2>1, <2>2, ReadsKept
<1>9. reads' \in [Readers -> ReadRecord] /\ races' \subseteq Races
  BY <1>1, Typed
<1>10. /\ races' = {} => NoNewSetter(t, c) /\ SetterOK(c) /\ CopyOK(c) /\ NobodySets(t)
       /\ races' = {} => \A p \in Readers : ReadOK(p, HostNow(t, c))'
  BY <1>7, <1>8
<1> QED
  BY <1>1, <1>4, <1>7, <1>9, <1>10, Moved

\* A step that starts or ends a call and concerns neither the value nor a read.
LEMMA BeginKeeps ==
  ASSUME AttInv, NEW t \in AttThreads, In(t) \in {"idle", "onRead", "onWrite", "read"},
         NEW c, CallOK(c), c.at \in {"idle", "set", "copying", "reading"},
         t = "host" => ~InOnRead(c),
         caller' = [caller EXCEPT ![t] = c], UNCHANGED <<m_value, heap, reads, races, fault>>
  PROVE  AttInv'
<1>1. ASSUME races = {}
      PROVE  /\ "access" \notin fault /\ NoNewSetter(t, c) /\ SetterOK(c) /\ CopyOK(c)
             /\ NobodySets(t) /\ \A p \in Readers : ReadOK(p, HostNow(t, c))'
  <2>1. "access" \notin fault
    BY <1>1, SafeIs
  <2>2. NoNewSetter(t, c) /\ SetterOK(c) /\ CopyOK(c)
    BY DEF NoNewSetter, SetterOK, CopyOK
  <2>3. NobodySets(t) /\ \A p \in Readers : ReadOK(p, HostNow(t, c))'
    BY <1>1, ReadsKept
  <2> QED
    BY <2>1, <2>2, <2>3
<1>2. /\ UNCHANGED <<m_value, heap>> /\ races' \subseteq Races /\ fault' \subseteq Faults
      /\ reads' \in [Readers -> ReadRecord]
      /\ races' = {} => races = {} /\ "access" \notin fault'
      /\ races' = {} => NoNewSetter(t, c) /\ SetterOK(c) /\ CopyOK(c) /\ NobodySets(t)
      /\ races' = {} => \A p \in Readers : ReadOK(p, HostNow(t, c))'
  BY <1>1, Typed
<1> QED
  BY <1>2, Moved

LEMMA SetValueKeeps ==
  ASSUME AttInv, NEW t \in AttThreads, SetValue(t)
  PROVE  AttInv'
<1>1. PICK text \in Texts : Moves(t, NewCall("set", text, "idle", 0, Nobody))
  BY DEF SetValue
<1>2. PICK c : c = NewCall("set", text, "idle", 0, Nobody)
  OBVIOUS
<1>3. CallOK(c) /\ c.at = "set" /\ c.back = "idle"
  BY <1>2, NewCallIs
<1>4. caller' = [caller EXCEPT ![t] = c]
  BY <1>1, <1>2 DEF Moves
<1> QED
  BY <1>3, <1>4, BeginKeeps DEF SetValue, InOnRead

LEMMA CopyValueKeeps ==
  ASSUME AttInv, NEW t \in AttThreads, CopyValue(t)
  PROVE  AttInv'
<1>1. PICK c : c = NewCall("copying", << >>, "idle", m_value.capacity + 1, Nobody)
  OBVIOUS
<1>2. m_value.capacity + 1 \in Nat
  BY Typed DEF Value
<1>3. CallOK(c) /\ c.at = "copying" /\ c.back = "idle"
  BY <1>1, <1>2, NewCallIs
<1>4. caller' = [caller EXCEPT ![t] = c]
  BY <1>1 DEF CopyValue, Moves
<1> QED
  BY <1>3, <1>4, BeginKeeps DEF CopyValue, InOnRead

LEMMA CopyReturnsKeeps ==
  ASSUME AttInv, NEW t \in AttThreads, CopyReturns(t)
  PROVE  AttInv'
<1>1. In(t) = "read" /\ caller' = [caller EXCEPT ![t] = Rest] /\ UNCHANGED <<m_value, heap, reads, races, fault>>
  BY DEF CopyReturns, Moves
<1>2. ~InOnRead(Rest)
  BY RestIs DEF InOnRead, SettingAt
<1> QED
  BY <1>1, <1>2, RestIs, BeginKeeps

LEMMA HostReadsKeeps ==
  ASSUME AttInv, HostReads
  PROVE  AttInv'
<1> DEFINE alone == \A u \in AttThreads : ~Setting(u)
<1>1. PICK p \in Readers, at \in {"onRead", "reading"} :
        /\ Moves("host", NewCall(at, << >>, "idle", 0, p))
        /\ reads' = [reads EXCEPT ![p] = [open |-> TRUE, got |-> << >>, alone |-> alone]]
  BY DEF HostReads
<1>2. PICK c : c = NewCall(at, << >>, "idle", 0, p)
  OBVIOUS
<1>3. CallOK(c) /\ c.at = at /\ c.back = "idle" /\ c.peer = p
  BY <1>2, NewCallIs
<1>4. /\ caller' = [caller EXCEPT !["host"] = c] /\ "host" \in AttThreads
      /\ In("host") = "idle" /\ UNCHANGED <<m_value, heap, races, fault>>
  BY <1>1, <1>2 DEF HostReads, Moves, AttThreads
<1>5. alone \in BOOLEAN /\ (alone => \A u \in AttThreads : ~Busy(u))
  BY DEF Setting, Busy
<1> HIDE DEF alone
<1>6. /\ reads' \in [Readers -> ReadRecord] /\ reads'[p].got = << >> /\ reads'[p].alone = alone
      /\ \A q \in Readers \ {p} : reads'[q] = reads[q]
  BY <1>1, <1>5, Typed DEF ReadRecord
<1>7. ASSUME races = {}
      PROVE  /\ "access" \notin fault /\ NoNewSetter("host", c) /\ SetterOK(c) /\ CopyOK(c)
             /\ NobodySets("host") /\ \A q \in Readers : ReadOK(q, HostNow("host", c))'
  <2>1. "access" \notin fault
    BY <1>4, <1>7, SafeIs
  <2>2. NoNewSetter("host", c) /\ SetterOK(c) /\ CopyOK(c)
    BY <1>3, <1>4 DEF NoNewSetter, SetterOK, CopyOK
  <2>3. NobodySets("host")
    BY <1>5, <1>6 DEF NobodySets
  <2>4. Stored' = Stored
    BY <1>4 DEF Stored
  <2>5. ReadOK(p, c)'
    BY <1>3, <1>6, <2>4, StoredIsBytes, Nothing DEF ReadOK, InOnRead, SettingAt
  <2>6. ASSUME NEW q \in Readers \ {p} PROVE ReadOK(q, c)'
    <3>1. ReadOK(q, caller["host"]) /\ caller["host"].at # "told"
      BY <1>4, <1>7, SafeIs DEF In
    <3> QED
      BY <1>3, <1>6, <2>4, <3>1 DEF ReadOK, InOnRead, SettingAt
  <2>7. \A q \in Readers : ReadOK(q, HostNow("host", c))'
    BY <2>5, <2>6 DEF HostNow
  <2> QED
    BY <2>1, <2>2, <2>3, <2>7
<1>8. /\ races' \subseteq Races /\ fault' \subseteq Faults
      /\ races' = {} => races = {} /\ "access" \notin fault'
      /\ races' = {} => NoNewSetter("host", c) /\ SetterOK(c) /\ CopyOK(c) /\ NobodySets("host")
      /\ races' = {} => \A q \in Readers : ReadOK(q, HostNow("host", c))'
  BY <1>4, <1>7, Typed
<1> QED
  BY <1>3, <1>4, <1>6, <1>8, Moved

LEMMA HostReadsOnKeeps ==
  ASSUME AttInv, HostReadsOn
  PROVE  AttInv'
<1>1. PICK p \in Readers : Moves("host", NewCall(ReadOn, << >>, "idle", 0, p))
  BY DEF HostReadsOn
<1>2. PICK c : c = NewCall("reading", << >>, "idle", 0, p)
  OBVIOUS
<1>3. CallOK(c) /\ c.at = "reading" /\ c.back = "idle"
  BY <1>2, NewCallIs
<1>4. caller' = [caller EXCEPT !["host"] = c] /\ "host" \in AttThreads
  BY <1>1, <1>2 DEF Moves, ReadOn, AttThreads
<1> QED
  BY <1>3, <1>4, BeginKeeps DEF HostReadsOn, InOnRead, SettingAt

LEMMA HostWritesKeeps ==
  ASSUME AttInv, HostWrites
  PROVE  AttInv'
<1>1. PICK text \in Texts :
        /\ \E first \in 0..Len(text) : WriteFits(first, Len(text) - first)
        /\ Moves("host", NewCall("set", text, "onWrite", 0, Nobody))
  BY DEF HostWrites
<1>2. Len(text) <= MaxLength
  BY <1>1, TextIsSeq, ValueAssumption DEF WriteFits, ValueAssumption
<1>3. PICK c : c = NewCall("set", text, "onWrite", 0, Nobody)
  OBVIOUS
<1>4. CallOK(c) /\ c.at = "set" /\ c.back = "onWrite"
  BY <1>2, <1>3, NewCallIs
<1>5. caller' = [caller EXCEPT !["host"] = c] /\ "host" \in AttThreads
  BY <1>1, <1>3 DEF Moves, AttThreads
<1> QED
  BY <1>4, <1>5, BeginKeeps DEF HostWrites, InOnRead

LEMMA OnWriteKeeps ==
  ASSUME AttInv, OnWrite
  PROVE  AttInv'
<1>1. In("host") = "onWrite" /\ UNCHANGED <<m_value, heap, reads, races, fault>> /\ "host" \in AttThreads
  BY DEF OnWrite, AttThreads
<1>2. CASE Moves("host", Rest)
  <2>1. ~InOnRead(Rest)
    BY RestIs DEF InOnRead, SettingAt
  <2> QED
    BY <1>1, <1>2, <2>1, RestIs, BeginKeeps DEF Moves
<1>3. CASE \E text \in Texts : Sets("host", text, "idle")
  <2>1. PICK text \in Texts : Sets("host", text, "idle")
    BY <1>3
  <2> DEFINE c == [caller["host"] EXCEPT !.at = "set", !.text = text, !.back = "idle"]
  <2>2. caller["host"] \in CallRecord
    BY <1>1, Typed, CallIs
  <2>3. CallOK(c) /\ c.at = "set" /\ c.back = "idle"
    BY <2>2 DEF CallRecord, CallOK, SettingAt, Serves, InOnRead
  <2>4. caller' = [caller EXCEPT !["host"] = c]
    BY <2>1 DEF Sets, Moves
  <2> HIDE DEF c
  <2> QED
    BY <1>1, <2>3, <2>4, BeginKeeps DEF InOnRead
<1> QED
  BY <1>2, <1>3 DEF OnWrite

LEMMA OnReadKeeps ==
  ASSUME AttInv, OnRead
  PROVE  AttInv'
<1>1. /\ In("host") = "onRead" /\ UNCHANGED <<m_value, heap, reads, races, fault>>
      /\ "host" \in AttThreads
  BY DEF OnRead, AttThreads
<1>2. caller["host"] \in CallRecord /\ CallOK(caller["host"]) /\ caller["host"].at = "onRead"
  BY <1>1, Typed, CallIs DEF In
<1>3. CASE MovesTo("host", "reading")
  <2> DEFINE c == [caller["host"] EXCEPT !.at = "reading"]
  <2>1. CallOK(c) /\ c.at = "reading"
    BY <1>2, GoesTo DEF SettingAt, Serves
  <2>2. caller' = [caller EXCEPT !["host"] = c]
    BY <1>3 DEF MovesTo, Moves
  <2> HIDE DEF c
  <2> QED
    BY <1>1, <2>1, <2>2, BeginKeeps DEF InOnRead, SettingAt
<1>4. CASE \E text \in Texts : Sets("host", text, "reading")
  <2>1. PICK text \in Texts : Sets("host", text, "reading")
    BY <1>4
  <2>0. PICK c : c = [caller["host"] EXCEPT !.at = "set", !.text = text, !.back = "reading"]
    OBVIOUS
  <2>2. CallOK(c) /\ c.at = "set" /\ c.back = "reading" /\ c.peer = caller["host"].peer
    <3>1. caller["host"].peer \in Readers
      BY <1>2 DEF CallOK, Serves
    <3>2. /\ c \in CallRecord /\ c.at = "set" /\ c.back = "reading" /\ c.peer = caller["host"].peer
      BY <1>2, <2>0 DEF CallRecord, SettingAt
    <3> QED
      BY <3>1, <3>2 DEF CallOK
  <2>3. caller' = [caller EXCEPT !["host"] = c]
    BY <2>0, <2>1 DEF Sets, Moves
  <2>4. ASSUME races = {}
        PROVE  /\ "access" \notin fault /\ NoNewSetter("host", c) /\ SetterOK(c) /\ CopyOK(c)
               /\ NobodySets("host") /\ \A q \in Readers : ReadOK(q, HostNow("host", c))'
    <3>1. "access" \notin fault /\ NoNewSetter("host", c) /\ SetterOK(c) /\ CopyOK(c) /\ NobodySets("host")
      BY <1>1, <2>2, <2>4, SafeIs DEF NoNewSetter, SetterOK, CopyOK, NobodySets
    <3>2. ASSUME NEW q \in Readers PROVE ReadOK(q, HostNow("host", c))'
      <4>1. ReadOK(q, caller["host"]) /\ Stored' = Stored
        BY <1>1, <2>4, SafeIs DEF Stored
      <4> QED
        BY <1>1, <1>2, <2>2, <4>1 DEF ReadOK, InOnRead, HostNow
    <3> QED
      BY <3>1, <3>2
  <2>5. /\ reads' \in [Readers -> ReadRecord] /\ races' \subseteq Races /\ fault' \subseteq Faults
        /\ races' = {} => races = {} /\ "access" \notin fault'
        /\ races' = {} => NoNewSetter("host", c) /\ SetterOK(c) /\ CopyOK(c) /\ NobodySets("host")
        /\ races' = {} => \A q \in Readers : ReadOK(q, HostNow("host", c))'
    BY <1>1, <2>4, Typed
  <2> QED
    BY <1>1, <2>2, <2>3, <2>5, Moved
<1> QED
  BY <1>3, <1>4 DEF OnRead

\* An access of the first n bytes, if threads did not meet.
LEMMA AccessIs ==
  ASSUME AttInv, NEW n \in Nat, NEW room \in Nat, n <= m_value.len + 1,
         n <= m_value.capacity + 1, Accessed(n, room)
  PROVE  /\ races' \subseteq Races /\ fault' \subseteq Faults
         /\ races' = {} => races = {} /\ "access" \notin fault'
<1>1. /\ Fails("access", ~Holds(m_value.block, n) \/ n > room)
      /\ races' = IF Dangling \/ m_value.capacity + 1 > room THEN races \cup {"grown"} ELSE races
  BY DEF Accessed
<1>2. races \subseteq Races /\ fault \subseteq Faults /\ m_value \in Value /\ heap \in [Blocks -> Seq(Byte)]
  BY Typed
<1>3. fault' \subseteq Faults
  BY <1>1, <1>2 DEF Fails, Faults
<1>4. ASSUME races' = {} PROVE races = {} /\ "access" \notin fault'
  <2>1. races = {} /\ ~Dangling /\ m_value.capacity + 1 <= room
    <3>1. ~(Dangling \/ m_value.capacity + 1 > room)
      BY <1>1, <1>4
    <3>2. races = {}
      BY <1>1, <1>4, <3>1
    <3> QED
      BY <1>2, <3>1, <3>2 DEF Value
  <2>2. "access" \notin fault /\ BufferOK
    BY <2>1 DEF AttInv, Safe
  <2>3. m_value.capacity < Len(heap[m_value.block]) /\ heap[m_value.block] \in Seq(Byte)
        /\ m_value.capacity \in Nat
    BY <1>2, <2>1, <2>2 DEF BufferOK, Value
  <2>4. n <= Len(heap[m_value.block]) /\ ~(n > room)
    BY <2>1, <2>3
  <2> QED
    BY <1>1, <2>1, <2>2, <2>4 DEF Holds, Fails
<1>5. races' \subseteq Races
  BY <1>1, <1>2 DEF Races
<1> QED
  BY <1>3, <1>4, <1>5

\* The same of an access of the value's bytes, with its final 0 or without.
LEMMA ValueAccessIs ==
  ASSUME AttInv, NEW n \in {m_value.len, m_value.len + 1}, NEW room \in Nat, Accessed(n, room)
  PROVE  /\ races' \subseteq Races /\ fault' \subseteq Faults
         /\ races' = {} => races = {} /\ "access" \notin fault'
<1>1. m_value.len \in Nat /\ m_value.capacity \in Nat
  BY Typed DEF Value
<1>2. CASE m_value.len <= m_value.capacity
  <2>1. n \in Nat /\ n <= m_value.len + 1 /\ n <= m_value.capacity + 1
    BY <1>1, <1>2
  <2> QED
    BY <2>1, AccessIs
<1>3. CASE ~(m_value.len <= m_value.capacity)
  <2>1. races # {}
    BY <1>3 DEF AttInv, Safe, BufferOK
  <2> QED
    BY <2>1, Typed DEF Accessed, Fails, Races, Faults
<1> QED
  BY <1>2, <1>3

LEMMA CopyBytesKeeps ==
  ASSUME AttInv, NEW t \in AttThreads, CopyBytes(t)
  PROVE  AttInv'
<1>0. PICK c : c = [caller[t] EXCEPT !.at = "read", !.got = Stored]
  OBVIOUS
<1>1. /\ In(t) = "copying" /\ Accessed(m_value.len + 1, caller[t].len)
      /\ caller' = [caller EXCEPT ![t] = c] /\ UNCHANGED <<m_value, heap, reads>>
  BY <1>0 DEF CopyBytes, Moves
<1>2. caller[t] \in CallRecord /\ caller[t].len \in Nat
  BY <1>1, Typed, CallIs DEF CallRecord
<1>3. Stored \in Seq(Byte)
  BY StoredIsBytes
<1>4. CallOK(c) /\ c.at = "read" /\ c.got = Stored
  BY <1>0, <1>2, <1>3 DEF CallRecord, CallOK, SettingAt, Serves, InOnRead
<1>5. /\ races' \subseteq Races /\ fault' \subseteq Faults
      /\ races' = {} => races = {} /\ "access" \notin fault'
  BY <1>1, <1>2, ValueAccessIs
<1>6. ASSUME races = {}
      PROVE  /\ NoNewSetter(t, c) /\ SetterOK(c) /\ CopyOK(c) /\ NobodySets(t)
             /\ \A p \in Readers : ReadOK(p, HostNow(t, c))'
  <2>1. Stored \in Texts \cup {<< >>}
    BY <1>6 DEF AttInv, Safe, BufferOK
  <2>2. NoNewSetter(t, c) /\ SetterOK(c) /\ CopyOK(c)
    BY <1>1, <1>4, <2>1 DEF NoNewSetter, SetterOK, CopyOK
  <2>3. In(t) # "told" /\ c.at \notin {"onRead", "told"} /\ ~InOnRead(c)
    BY <1>1, <1>4 DEF InOnRead, SettingAt
  <2> QED
    BY <1>1, <1>6, <2>2, <2>3, ReadsKept
<1>7. /\ reads' \in [Readers -> ReadRecord]
      /\ races' = {} => NoNewSetter(t, c) /\ SetterOK(c) /\ CopyOK(c) /\ NobodySets(t)
      /\ races' = {} => \A p \in Readers : ReadOK(p, HostNow(t, c))'
  BY <1>1, <1>5, <1>6, Typed
<1> QED
  BY <1>1, <1>4, <1>5, <1>7, Moved

LEMMA ReadBytesKeeps ==
  ASSUME AttInv, ReadBytes
  PROVE  AttInv'
<1>1. /\ In("host") = "reading" /\ Accessed(m_value.len, m_value.capacity + 1)
      /\ UNCHANGED <<m_value, heap>> /\ "host" \in AttThreads
  BY DEF ReadBytes, AttThreads
<1>2. PICK p \in Readers : p = caller["host"].peer
  BY <1>1, Typed DEF CallOK, Serves, In
<1>3. PICK g : g = reads[p].got
  OBVIOUS
<1>4. g \in Seq(Byte) /\ Stored \in Seq(Byte)
  BY <1>3, Typed, StoredIsBytes DEF ReadRecord
<1> DEFINE rest == SubSeq(Stored, Len(g) + 1, Len(Stored))
<1>5. PICK short \in BOOLEAN : short <=> Len(rest) < Part
  <2>1. (Len(rest) < Part) \in BOOLEAN
    BY ValueAssumption DEF ValueAssumption
  <2> QED
    BY <2>1
<1>6. PICK d : d = g \o SubSeq(rest, 1, IF Len(rest) < Part THEN Len(rest) ELSE Part)
  OBVIOUS
<1>7. /\ d \in Seq(Byte)
      /\ Len(g) <= Len(Stored) /\ g = SubSeq(Stored, 1, Len(g)) =>
           /\ short => d = Stored
           /\ ~short => Len(d) <= Len(Stored) /\ d = SubSeq(Stored, 1, Len(d))
  BY <1>4, <1>5, <1>6, PartIs
<1>8. PICK c : c = IF short THEN [caller["host"] EXCEPT !.at = "told"] ELSE Rest
  OBVIOUS
<1>9. reads' = [reads EXCEPT ![p].got = d] /\ caller' = [caller EXCEPT !["host"] = c]
  <2>1. reads' = [reads EXCEPT ![p].got = d]
    BY <1>2, <1>3, <1>6 DEF ReadBytes
  <2>2. Moves("host", IF Len(rest) < Part THEN [caller["host"] EXCEPT !.at = "told"] ELSE Rest)
    BY <1>2, <1>3 DEF ReadBytes
  <2> HIDE DEF rest
  <2> QED
    BY <1>5, <1>8, <2>1, <2>2 DEF Moves
<1> HIDE DEF rest
<1>10. CallOK(c) /\ c.at = (IF short THEN "told" ELSE "idle") /\ (short => c.peer = p)
  <2>1. caller["host"] \in CallRecord /\ CallOK(caller["host"]) /\ Serves(caller["host"])
        /\ caller["host"].at = "reading"
    BY <1>1, Typed, CallIs DEF Serves, In
  <2>2. PICK told : told = [caller["host"] EXCEPT !.at = "told"]
    OBVIOUS
  <2>3. CallOK(told) /\ told.at = "told" /\ told.peer = p
    BY <1>2, <2>1, <2>2, GoesTo DEF SettingAt
  <2> QED
    BY <1>8, <2>2, <2>3, RestIs
<1>11. /\ races' \subseteq Races /\ fault' \subseteq Faults
       /\ races' = {} => races = {} /\ "access" \notin fault'
  <2>1. m_value.capacity + 1 \in Nat
    BY Typed DEF Value
  <2> QED
    BY <1>1, <2>1, ValueAccessIs
<1>12. /\ reads' \in [Readers -> ReadRecord]
       /\ reads'[p].got = d /\ reads'[p].alone = reads[p].alone
       /\ \A q \in Readers \ {p} : reads'[q] = reads[q]
  <2>1. reads \in [Readers -> ReadRecord] /\ reads[p] \in ReadRecord
    BY Typed
  <2>2. reads'[p] = [reads[p] EXCEPT !.got = d] /\ \A q \in Readers \ {p} : reads'[q] = reads[q]
    BY <1>9, <2>1
  <2>3. [reads[p] EXCEPT !.got = d] \in ReadRecord
    BY <1>7, <2>1 DEF ReadRecord
  <2>4. reads' \in [Readers -> ReadRecord]
    BY <1>9, <2>1, <2>3
  <2> QED
    BY <2>1, <2>2, <2>4 DEF ReadRecord
<1>13. ASSUME races = {}
       PROVE  /\ NoNewSetter("host", c) /\ SetterOK(c) /\ CopyOK(c) /\ NobodySets("host")
              /\ \A q \in Readers : ReadOK(q, HostNow("host", c))'
  <2>1. Stored \in Texts \cup {<< >>} /\ Stored' = Stored
    BY <1>1, <1>13 DEF AttInv, Safe, BufferOK, Stored
  <2>2. NoNewSetter("host", c) /\ SetterOK(c) /\ CopyOK(c)
    BY <1>1, <1>10 DEF NoNewSetter, SetterOK, CopyOK
  <2>3. NobodySets("host")
    BY <1>12 DEF NobodySets
  <2>4. \A q \in Readers : ReadOK(q, caller["host"]) /\ caller["host"].at = "reading"
    BY <1>1, <1>13, SafeIs DEF In
  <2>5. reads[p].alone => Len(g) <= Len(Stored) /\ g = SubSeq(Stored, 1, Len(g))
    BY <1>3, <2>4 DEF ReadOK
  <2>6. ReadOK(p, c)'
    BY <1>7, <1>10, <1>12, <2>1, <2>5 DEF ReadOK, InOnRead, SettingAt
  <2>7. ASSUME NEW q \in Readers \ {p} PROVE ReadOK(q, c)'
    BY <1>10, <1>12, <2>1, <2>4 DEF ReadOK, InOnRead, SettingAt
  <2>8. \A q \in Readers : ReadOK(q, HostNow("host", c))'
    BY <2>6, <2>7 DEF HostNow
  <2> QED
    BY <2>2, <2>3, <2>8
<1>14. /\ races' = {} => NoNewSetter("host", c) /\ SetterOK(c) /\ CopyOK(c) /\ NobodySets("host")
       /\ races' = {} => \A q \in Readers : ReadOK(q, HostNow("host", c))'
  BY <1>11, <1>13
<1> QED
  BY <1>1, <1>9, <1>10, <1>11, <1>12, <1>14, Moved

LEMMA ReadReturnsKeeps ==
  ASSUME AttInv, ReadReturns
  PROVE  AttInv'
<1> DEFINE p == caller["host"].peer
<1>1. /\ In("host") = "told" /\ caller' = [caller EXCEPT !["host"] = Rest]
      /\ reads' = [reads EXCEPT ![p] = NoRead] /\ UNCHANGED <<m_value, heap, races, fault>>
      /\ "host" \in AttThreads
  BY DEF ReadReturns, Moves, AttThreads
<1>2. p \in Readers
  BY <1>1, Typed DEF CallOK, Serves, In
<1>3. /\ reads' \in [Readers -> ReadRecord] /\ ~reads'[p].alone
      /\ \A q \in Readers \ {p} : reads'[q] = reads[q]
  BY <1>1, <1>2, Typed DEF ReadRecord, NoRead
<1>4. ASSUME races = {}
      PROVE  /\ "access" \notin fault /\ NoNewSetter("host", Rest) /\ SetterOK(Rest) /\ CopyOK(Rest)
             /\ NobodySets("host") /\ \A q \in Readers : ReadOK(q, HostNow("host", Rest))'
  <2>1. "access" \notin fault /\ NoNewSetter("host", Rest) /\ SetterOK(Rest) /\ CopyOK(Rest)
    BY <1>1, <1>4, RestIs, SafeIs DEF NoNewSetter, SetterOK, CopyOK
  <2>2. NobodySets("host")
    BY <1>3 DEF NobodySets
  <2>3. ASSUME NEW q \in Readers PROVE ReadOK(q, HostNow("host", Rest))'
    <3>1. ReadOK(q, caller["host"]) /\ Stored' = Stored
      BY <1>1, <1>4, SafeIs DEF Stored
    <3> QED
      BY <1>3, <3>1, RestIs DEF ReadOK, HostNow, InOnRead, SettingAt
  <2> QED
    BY <2>1, <2>2, <2>3
<1>5. /\ races' \subseteq Races /\ fault' \subseteq Faults
      /\ races' = {} => races = {} /\ "access" \notin fault'
      /\ races' = {} => NoNewSetter("host", Rest) /\ SetterOK(Rest) /\ CopyOK(Rest) /\ NobodySets("host")
      /\ races' = {} => \A q \in Readers : ReadOK(q, HostNow("host", Rest))'
  BY <1>1, <1>4, Typed
<1> QED
  BY <1>1, <1>3, <1>5, RestIs, Moved

-----------------------------------------------------------------------------
(* The steps that set the value.                                           *)

\* A thread that sets the value goes on, alone: what the others hold is untouched.
LEMMA ActsKeeps ==
  ASSUME AttInv, NEW t \in AttThreads, Busy(t),
         NEW c, CallOK(c), c.at \in {"copy", "check"}, c.back = caller[t].back, c.peer = caller[t].peer,
         caller' = [caller EXCEPT ![t] = c], reads' = reads,
         m_value' \in Value, heap' \in [Blocks -> Seq(Byte)],
         races' \subseteq Races, fault' \subseteq Faults,
         races' = {} => races = {} /\ "access" \notin fault' /\ BufferOK' /\ SetterOK(c)'
  PROVE  AttInv'
<1>1. TypeInv
  BY Typed
<1>2. /\ caller' = [u \in AttThreads |-> caller'[u]]
      /\ caller'[t] = c
      /\ \A u \in AttThreads \ {t} : caller'[u] = caller[u]
      /\ \A u \in AttThreads : CallOK(caller'[u])
  BY <1>1, MovesIs
<1>3. TypeInv'
  BY <1>1, <1>2 DEF TypeInv, Races, Faults
<1>4. ASSUME races' = {} PROVE Safe'
  <2>1. races = {} /\ "access" \notin fault' /\ BufferOK' /\ SetterOK(c)'
    BY <1>4
  <2>2. Safe /\ \A u \in AttThreads \ {t} : ~Busy(u)
    BY <2>1, SafeIs DEF AttInv
  <2>3. \A u \in AttThreads : (Busy(u))' <=> Busy(u)
    BY <1>2 DEF Busy, In
  <2>4. OneSetter'
    BY <2>2, <2>3 DEF OneSetter, Safe
  <2>5. AloneOK'
    BY <1>2, <2>2, <2>3 DEF AloneOK, Safe, OwnRead
  <2>6. ASSUME NEW u \in AttThreads PROVE SetterOK(caller[u])' /\ CopyOK(caller[u])'
    <3>1. CASE u = t
      BY <1>2, <2>1, <3>1 DEF SetterOK, CopyOK
    <3>2. CASE u # t
      <4>1. caller'[u] = caller[u] /\ ~Busy(u) /\ CopyOK(caller[u])
        BY <1>2, <2>2, <3>2 DEF Safe
      <4> QED
        BY <4>1 DEF SetterOK, CopyOK, Busy, In
    <3> QED
      BY <3>1, <3>2
  <2>7. ASSUME NEW p \in Readers PROVE ReadOK(p, caller["host"])'
    <3>1. ReadOK(p, caller["host"]) /\ caller[t].at \in {"append", "copy", "check"}
      BY <2>2 DEF Safe, Busy, In
    <3>2. reads[p].alone => OwnRead(t, p)
      BY <2>2 DEF AloneOK, Safe
    <3>3. reads[p].alone => reads[p].got = << >> /\ t = "host"
      BY <3>1, <3>2 DEF ReadOK, OwnRead, InOnRead, SettingAt
    <3>4. Stored' \in Seq(Byte)
      <4>1. Stored' = First(heap'[m_value'.block], m_value'.len)
        BY DEF Stored, First
      <4> QED
        BY <4>1, FirstOfIs DEF Value
    <3>5. reads[p].alone => Len(reads[p].got) <= Len(Stored') /\ reads[p].got = SubSeq(Stored', 1, Len(reads[p].got))
      BY <3>3, <3>4, Nothing
    <3>6. CASE t = "host"
      BY <1>2, <3>1, <3>5, <3>6 DEF ReadOK, InOnRead, SettingAt
    <3>7. CASE t # "host"
      <4>1. caller'["host"] = caller["host"] /\ ~reads[p].alone
        BY <1>2, <3>3, <3>7 DEF AttThreads
      <4> QED
        BY <3>1, <4>1 DEF ReadOK, InOnRead
    <3> QED
      BY <3>6, <3>7
  <2> QED
    BY <2>1, <2>4, <2>5, <2>6, <2>7 DEF Safe
<1> QED
  BY <1>3, <1>4 DEF AttInv

LEMMA SetEmptiesKeeps ==
  ASSUME AttInv, NEW t \in AttThreads, SetEmpties(t)
  PROVE  AttInv'
<1> DEFINE b == m_value.block
           p == Put(heap[b], 0, <<Nul>>)
<1>1. /\ In(t) = "set" /\ caller' = Disturb(t)
      /\ m_value' = [m_value EXCEPT !.len = 0] /\ heap' = [heap EXCEPT ![b] = p]
      /\ Fails("access", ~Holds(b, 1)) /\ reads' = DisturbReads(t)
      /\ races' = IF \E u \in AttThreads \ {t} : Setting(u) /\ In(u) # "set"
                  THEN races \cup {"writers"} ELSE races
  BY DEF SetEmpties
<1>2. TypeInv /\ m_value \in Value /\ b \in Blocks /\ heap \in [Blocks -> Seq(Byte)]
  BY Typed DEF Value
<1>3. p \in Seq(Byte) /\ Len(p) = Len(heap[b])
  <2>1. heap[b] \in Seq(Byte) /\ 0 \in Nat /\ <<Nul>> \in Seq(Byte)
    BY <1>2, NulIs
  <2> QED
    BY <2>1, PutIs
<1> HIDE DEF p
<1>4. /\ m_value' \in Value /\ m_value'.block = b /\ m_value'.len = 0
      /\ m_value'.capacity = m_value.capacity
      /\ heap' \in [Blocks -> Seq(Byte)] /\ heap'[b] = p
  BY <1>1, <1>2, <1>3 DEF Value
<1>5. /\ caller' = [u \in AttThreads |-> caller'[u]]
      /\ \A u \in AttThreads : CallOK(caller'[u])
      /\ caller'[t] = [caller[t] EXCEPT !.at = "append"]
      /\ \A u \in AttThreads \ {t} :
           /\ In(u) \in {"copying", "read"} => caller'[u].at = In(u) /\ ~caller'[u].alone
           /\ In(u) \notin {"copying", "read"} => caller'[u] = caller[u]
  BY <1>1, <1>2, DisturbIs
<1>6. races' \subseteq Races /\ fault' \subseteq Faults
  BY <1>1, Typed DEF Races, Faults, Fails
<1>60. /\ reads' \in [Readers -> ReadRecord]
       /\ \A r \in Readers : /\ reads'[r].got = reads[r].got
                             /\ reads'[r].alone => reads[r].alone /\ OwnRead(t, r)
  <2>1. \A r \in Readers : reads[r] \in ReadRecord
    BY Typed
  <2>2. reads' = [r \in Readers |-> IF OwnRead(t, r) THEN reads[r] ELSE [reads[r] EXCEPT !.alone = FALSE]]
    BY <1>1 DEF DisturbReads
  <2>3. \A r \in Readers : [reads[r] EXCEPT !.alone = FALSE] \in ReadRecord
    BY <2>1 DEF ReadRecord
  <2>4. reads' \in [Readers -> ReadRecord]
    BY <2>1, <2>2, <2>3
  <2>5. ASSUME NEW r \in Readers
        PROVE  reads'[r].got = reads[r].got /\ (reads'[r].alone => reads[r].alone /\ OwnRead(t, r))
    BY <2>1, <2>2 DEF ReadRecord
  <2> QED
    BY <2>4, <2>5
<1>7. TypeInv'
  BY <1>4, <1>5, <1>6, <1>60 DEF TypeInv, Races, Faults
<1>8. caller'[t].at = "append" /\ caller'[t].back = caller[t].back /\ caller'[t].peer = caller[t].peer
  BY <1>1, <1>2, <1>5, CallIs DEF CallRecord
<1>9. ASSUME races' = {} PROVE Safe'
  <2>1. races = {} /\ \A u \in AttThreads \ {t} : ~Busy(u)
    BY <1>1, <1>9 DEF Setting, Busy
  <2>2. Safe
    BY <2>1 DEF AttInv
  <2>3. ~Dangling
    BY <1>1, <2>1 DEF Dangling, Busy
  <2>4. m_value.capacity < Len(heap[b]) /\ m_value.capacity \in Nat
    BY <1>2, <2>2, <2>3 DEF Safe, BufferOK, Value
  <2>5. "access" \notin fault'
    <3>1. 1 <= Len(heap[b])
      BY <1>2, <2>4
    <3> QED
      BY <1>1, <2>2, <3>1 DEF Holds, Safe, Fails
  <2>6. \A u \in AttThreads \ {t} : caller'[u].at \notin {"append", "copy", "check"}
    BY <1>5, <2>1 DEF Busy, In
  <2>7. OneSetter'
    BY <2>6 DEF OneSetter, Busy, In
  <2>8. AloneOK'
    BY <1>8, <1>60, <2>6 DEF AloneOK, OwnRead, Busy, In
  <2>9. (Stored = << >>)'
    <3>1. Stored' = First(heap'[b], m_value'.len)
      BY <1>4 DEF Stored, First
    <3>2. heap'[b] \in Seq(Byte) /\ m_value'.len \in Nat
      BY <1>3, <1>4
    <3> QED
      BY <1>4, <3>1, <3>2, FirstOfIs
  <2>10. BufferOK'
    <3>1. m_value'.len <= m_value'.capacity /\ m_value'.capacity < Len(heap'[m_value'.block])
      BY <1>3, <1>4, <2>4
    <3> QED
      BY <2>9, <3>1 DEF BufferOK
  <2>11. ASSUME NEW u \in AttThreads PROVE SetterOK(caller[u])' /\ CopyOK(caller[u])'
    <3>1. CASE u = t
      BY <1>4, <1>8, <3>1 DEF SetterOK, CopyOK
    <3>2. CASE u # t
      <4>1. SetterOK(caller[u])'
        BY <2>6, <3>2 DEF SetterOK
      <4>2. CopyOK(caller[u])
        BY <2>2 DEF Safe
      <4>3. CASE In(u) \in {"copying", "read"}
        BY <1>5, <3>2, <4>1, <4>3 DEF CopyOK
      <4>4. CASE In(u) \notin {"copying", "read"}
        BY <1>5, <3>2, <4>1, <4>2, <4>4 DEF CopyOK
      <4> QED
        BY <4>3, <4>4
    <3> QED
      BY <3>1, <3>2
  <2>12. ASSUME NEW r \in Readers PROVE ReadOK(r, caller["host"])'
    <3>1. ReadOK(r, caller["host"]) /\ caller[t].at = "set"
      BY <1>1, <2>2 DEF Safe, In
    <3>2. reads'[r].alone => reads[r].got = << >>
      BY <1>60, <3>1 DEF ReadOK, OwnRead, InOnRead, SettingAt
    <3>3. Stored' \in Seq(Byte)
      BY <2>9
    <3>4. reads'[r].alone => Len(reads'[r].got) <= Len(Stored') /\ reads'[r].got = SubSeq(Stored', 1, Len(reads'[r].got))
      BY <1>60, <3>2, <3>3, Nothing
    <3>5. CASE t = "host"
      BY <1>8, <1>60, <3>1, <3>4, <3>5 DEF ReadOK, InOnRead, SettingAt
    <3>6. CASE t # "host"
      <4>1. ~reads'[r].alone
        BY <1>60, <3>6 DEF OwnRead
      <4>2. CASE In("host") \in {"copying", "read"}
        BY <1>5, <1>60, <3>1, <3>6, <4>1, <4>2 DEF ReadOK, InOnRead, SettingAt, AttThreads, In
      <4>3. CASE In("host") \notin {"copying", "read"}
        BY <1>5, <1>60, <3>1, <3>6, <4>1, <4>3 DEF ReadOK, InOnRead, SettingAt, AttThreads, In
      <4> QED
        BY <4>2, <4>3
    <3> QED
      BY <3>5, <3>6
  <2> QED
    BY <2>5, <2>7, <2>8, <2>10, <2>11, <2>12 DEF Safe
<1> QED
  BY <1>7, <1>9 DEF AttInv

LEMMA SetCopiesKeeps ==
  ASSUME AttInv, NEW t \in AttThreads, SetCopies(t)
  PROVE  AttInv'
<1> DEFINE b == caller[t].res
           text == caller[t].text
           n == caller[t].len
           p == Put(heap[b], m_value.len, text)
           q == Put(p, n, <<Nul>>)
<1>0. PICK c : c = [caller[t] EXCEPT !.at = "check"]
  OBVIOUS
<1>1. /\ In(t) = "copy" /\ caller' = [caller EXCEPT ![t] = c]
      /\ heap' = [heap EXCEPT ![b] = q] /\ m_value' = [m_value EXCEPT !.block = b, !.len = n]
      /\ Fails("access", ~Holds(b, m_value.len + Len(text)) \/ ~Holds(b, n + 1))
      /\ UNCHANGED <<reads, races>>
  BY <1>0 DEF SetCopies, MovesTo, Moves
<1>2. /\ m_value \in Value /\ m_value.len \in Nat /\ heap \in [Blocks -> Seq(Byte)]
      /\ caller[t] \in CallRecord /\ CallOK(caller[t]) /\ caller[t].at = "copy"
  BY <1>1, Typed, CallIs DEF Value, In
<1>3. b \in Blocks /\ text \in Texts \cup {<< >>} /\ n \in Nat /\ heap[b] \in Seq(Byte)
  BY <1>2 DEF CallRecord
<1>4. text \in Seq(Byte) /\ Len(text) \in Nat
  BY <1>3, TextIsSeq
<1>5. /\ CallOK(c) /\ c.at = "check" /\ c.text = text /\ c.back = caller[t].back
      /\ c.peer = caller[t].peer
  BY <1>0, <1>2, GoesTo DEF SettingAt
<1> HIDE DEF b, text, n
<1>6. p \in Seq(Byte) /\ Len(p) = Len(heap[b])
  BY <1>2, <1>3, <1>4, PutIs
<1>7. q \in Seq(Byte) /\ Len(q) = Len(heap[b])
  <2> HIDE DEF p
  <2> QED
    BY <1>3, <1>6, NulIs, PutIs
<1>8. m_value.len = 0 /\ n = Len(text) /\ Len(text) < Len(heap[b]) => First(q, n) = text
  BY <1>3, <1>4, FirstOfPut
<1> HIDE DEF q
<1>9. /\ m_value' \in Value /\ m_value'.block = b /\ m_value'.len = n
      /\ m_value'.capacity = m_value.capacity
      /\ heap' \in [Blocks -> Seq(Byte)] /\ heap'[b] = q
  BY <1>1, <1>2, <1>3, <1>7 DEF Value
<1>10. ASSUME races' = {} PROVE races = {} /\ "access" \notin fault' /\ BufferOK' /\ SetterOK(c)'
  <2>1. races = {} /\ "access" \notin fault /\ SetterOK(caller[t]) /\ \A u \in AttThreads \ {t} : ~Busy(u)
    BY <1>1, <1>10, SafeIs DEF Busy
  <2>2. /\ m_value.len = 0 /\ n = Len(text) /\ n <= m_value.capacity
        /\ m_value.capacity < Len(heap[b]) /\ m_value.capacity \in Nat
    BY <1>2, <2>1 DEF SetterOK, Value, b, n, text
  <2>3. m_value.len + Len(text) <= Len(heap[b]) /\ n + 1 <= Len(heap[b]) /\ Len(text) < Len(heap[b])
    BY <1>3, <1>4, <2>2
  <2>4. "access" \notin fault'
    BY <1>1, <2>1, <2>3 DEF Holds, Fails
  <2>5. Stored' = text
    <3>1. Stored' = First(q, n)
      BY <1>9 DEF Stored, First
    <3> QED
      BY <1>8, <2>2, <2>3, <3>1
  <2>6. BufferOK'
    <3>1. m_value'.len <= m_value'.capacity /\ m_value'.capacity < Len(heap'[m_value'.block])
      BY <1>7, <1>9, <2>2
    <3> QED
      BY <1>3, <2>5, <3>1 DEF BufferOK
  <2>7. SetterOK(c)'
    BY <1>5, <2>5 DEF SetterOK
  <2> QED
    BY <2>1, <2>4, <2>6, <2>7
<1>11. races' \subseteq Races /\ fault' \subseteq Faults /\ Busy(t)
  BY <1>1, Typed DEF Busy, Fails, Faults
<1> QED
  BY <1>1, <1>5, <1>9, <1>10, <1>11, ActsKeeps

\* The outcomes of realloc().
LEMMA ReallocIs ==
  ASSUME TypeInv, NEW n \in Nat, NEW r \in Realloc(n)
  PROVE  r.heap \in [Blocks -> Seq(Byte)] /\ r.block \in Blocks /\ Len(r.heap[r.block]) = n + 1
<1> DEFINE b == m_value.block
<1>1. b \in Blocks /\ heap \in [Blocks -> Seq(Byte)] /\ heap[b] \in Seq(Byte)
  BY DEF TypeInv, Value
<1>2. Grown(heap[b], n) \in Seq(Byte) /\ Len(Grown(heap[b], n)) = n + 1
  BY <1>1, GrownIs
<1>3. CASE r = [heap |-> [heap EXCEPT ![b] = Grown(@, n)], block |-> b]
  BY <1>1, <1>2, <1>3
<1>4. CASE \E c \in Blocks \ InUse :
             r = [heap |-> [heap EXCEPT ![b] = << >>, ![c] = Grown(heap[b], n)], block |-> c]
  <2>1. PICK c \in Blocks \ InUse :
             r = [heap |-> [heap EXCEPT ![b] = << >>, ![c] = Grown(heap[b], n)], block |-> c]
    BY <1>4
  <2>2. << >> \in Seq(Byte)
    OBVIOUS
  <2>3. [heap EXCEPT ![b] = << >>] \in [Blocks -> Seq(Byte)]
    BY <1>1, <2>2
  <2> QED
    BY <1>1, <1>2, <2>1, <2>3
<1> QED
  BY <1>3, <1>4 DEF Realloc

LEMMA SetAppendsKeeps ==
  ASSUME AttInv, NEW t \in AttThreads, SetAppends(t)
  PROVE  AttInv'
<1> DEFINE text == caller[t].text
           n == m_value.len + Len(text)
<1>1. In(t) = "append" /\ reads' = reads
  BY DEF SetAppends
<1>2. /\ m_value \in Value /\ m_value.len \in Nat /\ m_value.block \in Blocks
      /\ m_value.capacity \in Nat /\ heap \in [Blocks -> Seq(Byte)]
      /\ caller[t] \in CallRecord /\ CallOK(caller[t]) /\ caller[t].at = "append"
      /\ races \subseteq Races /\ fault \subseteq Faults /\ TypeInv
  BY <1>1, Typed, CallIs DEF Value, In
<1>3. text \in Texts \cup {<< >>} /\ Len(text) \in Nat /\ n \in Nat
  <2>1. text \in Texts \cup {<< >>}
    BY <1>2 DEF CallRecord
  <2> QED
    BY <1>2, <2>1, TextIsSeq
<1>4. Busy(t) /\ MaxLength \in Nat /\ Len(<< >>) = 0
  BY <1>1, ValueAssumption DEF Busy, ValueAssumption
<1>5. races = {} => /\ "access" \notin fault /\ BufferOK /\ m_value.len = 0 /\ Stored = << >>
                    /\ \A u \in AttThreads \ {t} : ~Busy(u)
  BY <1>2, <1>4, SafeIs, StoredIsBytes DEF SetterOK
<1>6. CASE MovesTo(t, "check") /\ (text = << >> \/ n > MaxLength) /\ UNCHANGED <<m_value, heap, races, fault>>
  <2>1. PICK c : c = [caller[t] EXCEPT !.at = "check"]
    OBVIOUS
  <2>2. /\ CallOK(c) /\ c.at = "check" /\ c.text = text /\ c.back = caller[t].back
        /\ c.peer = caller[t].peer
    BY <1>2, <2>1, GoesTo DEF SettingAt
  <2>3. caller' = [caller EXCEPT ![t] = c]
    BY <1>6, <2>1 DEF MovesTo, Moves
  <2> HIDE DEF text
  <2>4. ASSUME races' = {} PROVE races = {} /\ "access" \notin fault' /\ BufferOK' /\ SetterOK(c)'
    <3>1. races = {} /\ "access" \notin fault' /\ Stored' = << >> /\ m_value.len = 0
      BY <1>5, <1>6, <2>4 DEF Stored
    <3>2. ~Dangling /\ ~Dangling'
      BY <1>1, <1>2, <1>5, <2>2, <2>3, <3>1, MovesIs DEF Dangling, Busy, In
    <3>3. BufferOK'
      BY <1>5, <1>6, <3>1, <3>2 DEF BufferOK
    <3>4. Len(text) <= MaxLength => text = << >>
      BY <1>3, <1>4, <1>6, <3>1
    <3>5. SetterOK(c)'
      BY <2>2, <3>1, <3>4 DEF SetterOK
    <3> QED
      BY <3>1, <3>3, <3>5
  <2>5. m_value' \in Value /\ heap' \in [Blocks -> Seq(Byte)] /\ races' \subseteq Races /\ fault' \subseteq Faults
    BY <1>2, <1>6
  <2> QED
    BY <1>1, <1>4, <2>2, <2>3, <2>4, <2>5, ActsKeeps
<1>7. ASSUME NEW res \in Blocks, Moves(t, [caller[t] EXCEPT !.at = "copy", !.res = res, !.len = n]),
             m_value' \in Value, m_value'.len = m_value.len, m_value'.block = m_value.block,
             n <= m_value'.capacity, heap' \in [Blocks -> Seq(Byte)],
             fault' = fault \/ Fails("access", ~Holds(m_value.block, 1)), races' = races,
             races = {} /\ BufferOK => m_value'.capacity < Len(heap'[res])
      PROVE  AttInv'
  <2>1. PICK c : c = [caller[t] EXCEPT !.at = "copy", !.res = res, !.len = n]
    OBVIOUS
  <2>2. /\ CallOK(c) /\ c.at = "copy" /\ c.text = text /\ c.back = caller[t].back
        /\ c.peer = caller[t].peer /\ c.res = res /\ c.len = n
    <3>1. /\ c \in CallRecord /\ c.at = "copy" /\ c.text = text /\ c.back = caller[t].back
          /\ c.peer = caller[t].peer /\ c.res = res /\ c.len = n
      BY <1>2, <1>3, <2>1 DEF CallRecord, SettingAt
    <3> QED
      BY <1>2, <3>1 DEF CallOK, SettingAt, Serves, InOnRead
  <2>3. caller' = [caller EXCEPT ![t] = c]
    BY <1>7, <2>1 DEF Moves
  <2> HIDE DEF text
  <2>4. ASSUME races' = {} PROVE races = {} /\ "access" \notin fault' /\ BufferOK' /\ SetterOK(c)'
    <3>1. races = {} /\ "access" \notin fault /\ BufferOK /\ m_value.len = 0
      BY <1>5, <1>7, <2>4
    <3>2. ~Dangling
      BY <1>1, <1>5, <3>1 DEF Dangling, Busy, In
    <3>3. m_value.capacity < Len(heap[m_value.block])
      BY <3>1, <3>2 DEF BufferOK
    <3>4. "access" \notin fault'
      <4>1. Len(heap[m_value.block]) \in Nat
        BY <1>2
      <4>2. 1 <= Len(heap[m_value.block])
        BY <1>2, <3>3, <4>1
      <4> QED
        BY <1>7, <3>1, <4>2 DEF Holds, Fails
    <3>5. m_value'.len = 0 /\ m_value'.capacity < Len(heap'[res]) /\ m_value'.capacity \in Nat
      BY <1>7, <3>1 DEF Value
    <3>6. Stored' = << >>
      <4>1. heap'[m_value'.block] \in Seq(Byte) /\ m_value'.len \in Nat
        BY <1>2, <1>7
      <4>2. Stored' = First(heap'[m_value'.block], m_value'.len)
        BY DEF Stored, First
      <4> QED
        BY <3>5, <4>1, <4>2, FirstOfIs
    <3>7. ~Dangling' => m_value'.block = res
      <4>1. caller'[t] = c
        BY <1>2, <2>2, <2>3, MovesIs
      <4> QED
        BY <2>2, <4>1 DEF Dangling, In
    <3>8. BufferOK'
      BY <3>5, <3>6, <3>7 DEF BufferOK
    <3>9. n = Len(text)
      BY <1>3, <3>1
    <3>10. SetterOK(c)'
      BY <1>7, <2>2, <3>5, <3>9 DEF SetterOK
    <3> QED
      BY <3>1, <3>4, <3>8, <3>10
  <2>5. races' \subseteq Races /\ fault' \subseteq Faults
    BY <1>2, <1>7 DEF Fails, Faults
  <2> QED
    BY <1>1, <1>4, <1>7, <2>2, <2>3, <2>4, <2>5, ActsKeeps
<1>8. CASE FitsCapacity(n) /\ UNCHANGED <<m_value, heap, races, fault>>
           /\ Moves(t, [caller[t] EXCEPT !.at = "copy", !.res = m_value.block, !.len = n])
  <2>1. races = {} /\ BufferOK => m_value.capacity < Len(heap[m_value.block])
    BY <1>1, <1>5 DEF BufferOK, Dangling, Busy, In
  <2>2. n <= m_value.capacity
    BY <1>8 DEF FitsCapacity
  <2> HIDE DEF n
  <2> QED
    BY <1>2, <1>7, <1>8, <2>1, <2>2
<1>9. CASE m_value' = [m_value EXCEPT !.capacity = n] /\ MovesTo(t, "check")
           /\ races' = races \cup {"no memory"} /\ UNCHANGED <<heap, fault>>
  <2>1. PICK c : c = [caller[t] EXCEPT !.at = "check"]
    OBVIOUS
  <2>2. /\ CallOK(c) /\ c.at = "check" /\ c.back = caller[t].back /\ c.peer = caller[t].peer
    BY <1>2, <2>1, GoesTo DEF SettingAt
  <2>3. caller' = [caller EXCEPT ![t] = c]
    BY <1>9, <2>1 DEF MovesTo, Moves
  <2>4. m_value' \in Value /\ heap' \in [Blocks -> Seq(Byte)] /\ races' \subseteq Races
        /\ fault' \subseteq Faults /\ races' # {}
    BY <1>2, <1>3, <1>9 DEF Value, Races
  <2> QED
    BY <1>1, <1>4, <2>2, <2>3, <2>4, ActsKeeps
<1>10. CASE m_value' = [m_value EXCEPT !.capacity = n]
            /\ \E r \in Realloc(n) :
                 /\ heap' = r.heap
                 /\ Moves(t, [caller[t] EXCEPT !.at = "copy", !.res = r.block, !.len = n])
                 /\ Fails("access", ~Holds(m_value.block, 1))
                 /\ UNCHANGED races
  <2>1. PICK r \in Realloc(n) :
          /\ heap' = r.heap
          /\ Moves(t, [caller[t] EXCEPT !.at = "copy", !.res = r.block, !.len = n])
          /\ Fails("access", ~Holds(m_value.block, 1))
          /\ UNCHANGED races
    BY <1>10
  <2>2. heap' \in [Blocks -> Seq(Byte)] /\ r.block \in Blocks /\ Len(heap'[r.block]) = n + 1
    BY <1>2, <1>3, <2>1, ReallocIs
  <2>3. /\ m_value' \in Value /\ m_value'.len = m_value.len /\ m_value'.block = m_value.block
        /\ m_value'.capacity = n
    BY <1>2, <1>3, <1>10 DEF Value
  <2> HIDE DEF n
  <2>4. n <= n /\ n < n + 1
    BY <1>3
  <2> QED
    BY <1>7, <2>1, <2>2, <2>3, <2>4
<1> QED
  BY <1>6, <1>8, <1>9, <1>10 DEF SetAppends

-----------------------------------------------------------------------------
LEMMA InitAttInv == AttInit => AttInv
<1> SUFFICES ASSUME AttInit PROVE AttInv
  OBVIOUS
<1> DEFINE first == [i \in 1..(InitLength + 1) |-> Nul]
<1>1. InitLength \in Nat /\ 1 \in Blocks
  BY ValueAssumption DEF ValueAssumption
<1>2. first \in Seq(Byte) /\ Len(first) = InitLength + 1
  <2>1. first \in [1..(InitLength + 1) -> Byte] /\ InitLength + 1 \in Nat
    BY <1>1, NulIs
  <2> HIDE DEF first
  <2> QED
    BY <2>1
<1>3. /\ m_value = [block |-> 1, len |-> 0, capacity |-> InitLength]
      /\ heap = [b \in Blocks |-> IF b = 1 THEN first ELSE << >>]
      /\ \A t \in AttThreads : caller[t] = Rest
      /\ caller = [t \in AttThreads |-> caller[t]]
      /\ reads = [p \in Readers |-> NoRead]
      /\ races = {} /\ fault = {}
  BY DEF AttInit
<1> HIDE DEF first
<1>4. m_value \in Value /\ heap \in [Blocks -> Seq(Byte)] /\ heap[1] = first
  BY <1>1, <1>2, <1>3 DEF Value
<1>5. TypeInv
  <2>1. NoRead \in ReadRecord
    BY DEF NoRead, ReadRecord
  <2> QED
    BY <1>3, <1>4, <2>1, RestIs DEF TypeInv
<1>6. Stored = << >>
  <2>1. Stored = First(first, 0) /\ 0 \in Nat
    BY <1>3, <1>4, StoredIs
  <2> QED
    BY <1>2, <2>1, FirstOfIs
<1>7. BufferOK
  <2>1. 0 <= InitLength /\ InitLength < Len(first)
    BY <1>1, <1>2
  <2> QED
    BY <1>3, <1>4, <1>6, <2>1 DEF BufferOK
<1>8. \A t \in AttThreads : SetterOK(caller[t]) /\ CopyOK(caller[t])
  BY <1>3, RestIs DEF SetterOK, CopyOK
<1>80. \A p \in Readers : ReadOK(p, caller["host"])
  BY <1>3, RestIs DEF ReadOK, NoRead, AttThreads, InOnRead, SettingAt
<1>9. OneSetter /\ AloneOK
  BY <1>3, RestIs DEF OneSetter, AloneOK, Busy, In
<1> QED
  BY <1>3, <1>5, <1>7, <1>8, <1>80, <1>9 DEF AttInv, Safe

LEMMA NextAttInv == AttInv /\ [AttNext]_attVars => AttInv'
<1> SUFFICES ASSUME AttInv, [AttNext]_attVars PROVE AttInv'
  OBVIOUS
<1>1. CASE UNCHANGED attVars
  <2>1. UNCHANGED <<m_value, heap, caller, reads, races, fault>>
    BY <1>1 DEF attVars
  <2>2. Stored' = Stored /\ (Dangling' <=> Dangling) /\ \A t \in AttThreads : (Busy(t))' <=> Busy(t)
    BY <2>1 DEF Stored, Dangling, Busy, In
  <2>3. TypeInv'
    BY <2>1 DEF AttInv, TypeInv
  <2>4. ASSUME Safe PROVE Safe'
    <3>1. OneSetter' /\ AloneOK' /\ BufferOK'
      BY <2>1, <2>2, <2>4 DEF Safe, OneSetter, AloneOK, BufferOK, OwnRead
    <3>2. \A t \in AttThreads : (SetterOK(caller[t]) /\ CopyOK(caller[t]))'
      BY <2>1, <2>2, <2>4 DEF Safe, SetterOK, CopyOK
    <3>3. \A p \in Readers : ReadOK(p, caller["host"])'
      BY <2>1, <2>2, <2>4 DEF Safe, ReadOK, InOnRead
    <3> QED
      BY <2>1, <2>4, <3>1, <3>2, <3>3 DEF Safe
  <2> QED
    BY <2>1, <2>3, <2>4 DEF AttInv
<1>2. CASE \E t \in AttThreads : SetEmpties(t) \/ SetAppends(t) \/ SetCopies(t) \/ SetReturns(t)
  BY <1>2, SetEmptiesKeeps, SetAppendsKeeps, SetCopiesKeeps, SetReturnsKeeps
<1>3. CASE \E t \in Tasks : SetValue(t) \/ CopyValue(t) \/ CopyBytes(t) \/ CopyReturns(t)
  BY <1>3, SetValueKeeps, CopyValueKeeps, CopyBytesKeeps, CopyReturnsKeeps DEF AttThreads
<1> QED
  BY <1>1, <1>2, <1>3, HostReadsKeeps, HostReadsOnKeeps, OnReadKeeps, ReadBytesKeeps,
     ReadReturnsKeeps, HostWritesKeeps, OnWriteKeeps
     DEF AttNext

\* The threads' records, the lengths, the contents of the buffers and what each
\* peer has got of the value agree in every state: with any number of tasks and
\* of peers whose reads are open at once, for all texts, capacities and sizes of
\* the parts in which a peer reads.
THEOREM ValueIsKept == AttSpec => []AttInv
BY InitAttInv, NextAttInv, PTL DEF AttSpec

\* append(), getValue(), notify() and handleGattEvent() access bytes that are
\* not the value's only after two threads have set it at once, the value has
\* grown during a copy or a read, or realloc() has failed.  The comparison at
\* the end of setValue() stays within the buffer wherever the value it was
\* called with is not longer than maxLen, as one that a peer writes never is.
THEOREM MemoryStaysSafe == AttSpec => []MemoryIsSafe
<1>1. AttInv => MemoryIsSafe
  <2>1. AttInv => ("access" \in fault => races # {})
    BY DEF AttInv, Safe
  <2> QED
    BY <2>1, ComparesWithin DEF MemoryIsSafe
<1> QED
  BY <1>1, ValueIsKept, PTL

\* When setValue() returns, the value is the one it was called with, if it is
\* not too long and no other thread sets it at once.  A write that
\* handleGattEvent() has accepted is never too long.
THEOREM WhatIsSetIsStored == AttSpec => []SetIsStored
<1>1. AttInv => SetIsStored
  BY DEF AttInv, TypeInv, CallOK, Safe, SetterOK, SetIsStored, In, SettingAt
<1> QED
  BY <1>1, ValueIsKept, PTL

\* A copy of the value, and what a peer has read of it in any number of parts,
\* between which the host task serves any other reads and writes, is a value
\* that was set, or none, unless somebody has set it since the first part's
\* onRead(): the read's own onRead() is called for the first part alone.
THEOREM ReadsAreWhole == AttSpec => []ReadIsWhole
<1>1. AttInv => ReadIsWhole
  <2>1. SUFFICES ASSUME AttInv, races = {} PROVE ReadIsWhole
    BY DEF ReadIsWhole
  <2>2. \A t \in Tasks : CopyOK(caller[t])
    BY <2>1, SafeIs DEF AttThreads
  <2>3. "host" \in AttThreads /\ (In("host") = "told" => caller["host"].peer \in Readers)
    BY <2>1, Typed DEF AttThreads, CallOK, Serves, In
  <2>4. \A p \in Readers : ReadOK(p, caller["host"])
    BY <2>1, <2>3, SafeIs
  <2> QED
    BY <2>2, <2>3, <2>4 DEF ReadIsWhole, CopyOK, ReadOK, In
<1> QED
  BY <1>1, ValueIsKept, PTL

-----------------------------------------------------------------------------
(* UUIDs.                                                                  *)

\* The fields of a UUID.
LEMMA UUIDIs ==
  ASSUME NEW u \in UUID
  PROVE  /\ u = [bits |-> u.bits, base |-> u.base, val |-> u.val]
         /\ u.bits \in {16, 32, 128} /\ u.base \in BOOLEAN /\ u.val \in 0..(Long - 1)
         /\ u.bits = 16 => u.val < Short
         /\ u.bits # 128 => u.base
<1>1. Short \in Nat \ {0} /\ Long \in Nat /\ Short <= Long
  BY SizeAssumption DEF SizeAssumption
<1>2. CASE \E v \in 0..Short - 1 : u = UUID16(v)
  BY <1>1, <1>2 DEF UUID16
<1>3. CASE \E v \in 0..Long - 1 : u = UUID32(v)
  BY <1>1, <1>3 DEF UUID32
<1>4. CASE \E v \in 0..Long - 1, b \in BOOLEAN : u = UUID128(v, b)
  BY <1>1, <1>4 DEF UUID128
<1> QED
  BY <1>2, <1>3, <1>4 DEF UUID

LEMMA UUID128Of ==
  ASSUME NEW b, NEW x, NEW v
  PROVE  To128([bits |-> b, base |-> x, val |-> v]) = UUID128(v, x)
BY DEF To128, UUID128

LEMMA To128Is ==
  ASSUME NEW u \in UUID
  PROVE  To128(u) = UUID128(u.val, u.base) /\ To128(u) \in UUID
<1>1. To128(u) = UUID128(u.val, u.base)
  BY UUIDIs DEF To128, UUID128
<1>2. u.val \in 0..(Long - 1) /\ u.base \in BOOLEAN
  BY UUIDIs
<1> QED
  BY <1>1, <1>2 DEF UUID

LEMMA OtherFormIs ==
  ASSUME NEW u \in UUID
  PROVE  OtherForm(u) \in UUID
<1>1. u.val \in 0..(Long - 1) /\ Short \in Nat \ {0} /\ Long \in Nat
  BY UUIDIs, SizeAssumption DEF SizeAssumption
<1>2. u.val % Short \in 0..(Short - 1)
  BY <1>1
<1>3. To16(u) \in UUID
  BY <1>2 DEF To16, UUID
<1> QED
  BY <1>3, To128Is DEF OtherForm

\* A UUID equals itself.
LEMMA EqualSelf ==
  ASSUME NEW u \in UUID PROVE Equal(u, u)
BY UUIDIs DEF Equal

\* Among the UUIDs of ATT those that equal one of the forms of a plain UUID are its forms.
LEMMA FormsAre ==
  ASSUME NEW u \in UUID, Plain(u), NEW t \in UUID, t.bits # 32
  PROVE  /\ Plain(OtherForm(u))
         /\ Equal(t, OtherForm(u)) => t \in {u, OtherForm(u)}
         /\ Equal(t, u) <=> t \in {u, OtherForm(u)}
         /\ OtherForm(u) = u => (Equal(t, u) => t = u)
<1>1. /\ u = [bits |-> u.bits, base |-> u.base, val |-> u.val]
      /\ u.bits \in {16, 128} /\ u.base \in BOOLEAN /\ u.val \in Nat
      /\ u.bits = 16 => u.val < Short /\ u.base = TRUE
  BY UUIDIs, SizeAssumption DEF Plain, SizeAssumption
<1>2. /\ t = [bits |-> t.bits, base |-> t.base, val |-> t.val]
      /\ t.bits \in {16, 128} /\ t.base \in BOOLEAN /\ t.val \in Nat
      /\ t.bits = 16 => t.val < Short /\ t.base = TRUE
  BY UUIDIs, SizeAssumption DEF SizeAssumption
<1>3. To128(t) = UUID128(t.val, t.base) /\ To128(u) = UUID128(u.val, u.base)
  BY To128Is
<1>4. Equal(t, u) <=> t.val = u.val /\ t.base = u.base
  <2>1. To128(t) = To128(u) <=> t.val = u.val /\ t.base = u.base
    BY <1>3 DEF UUID128
  <2>2. Equal(t, u) <=> To128(t) = To128(u)
    BY <1>1, <1>2 DEF Equal
  <2> QED
    BY <2>1, <2>2
<1>5. Short \in Nat /\ u.val < Short => u.val % Short = u.val
  BY <1>1
<1>6. CASE u.bits = 16
  <2>1. PICK w : w = OtherForm(u) /\ w = UUID128(u.val, u.base)
    BY <1>3, <1>6 DEF OtherForm
  <2>2. w.bits = 128 /\ w.val = u.val /\ w.base = u.base
    BY <2>1 DEF UUID128
  <2>3. To128(w) = UUID128(u.val, u.base)
    BY <2>1, UUID128Of DEF UUID128
  <2>4. Equal(t, w) <=> t.val = u.val /\ t.base = u.base
    <3>1. To128(t) = To128(w) <=> t.val = u.val /\ t.base = u.base
      BY <1>3, <2>3 DEF UUID128
    <3>2. Equal(t, w) <=> To128(t) = To128(w)
      BY <1>2, <2>2 DEF Equal
    <3> QED
      BY <3>1, <3>2
  <2>5. t = w <=> t.bits = 128 /\ t.val = u.val /\ t.base = u.base
    BY <1>2, <2>1 DEF UUID128
  <2>6. t = u <=> t.bits = 16 /\ t.val = u.val /\ t.base = u.base
    BY <1>1, <1>2, <1>6
  <2>7. Plain(w) /\ w # u
    BY <1>1, <1>6, <2>2 DEF Plain
  <2> QED
    BY <1>2, <1>4, <2>1, <2>4, <2>5, <2>6, <2>7
<1>7. CASE u.bits = 128 /\ ~u.base
  <2>1. OtherForm(u) = u
    BY <1>7 DEF OtherForm, To16
  <2>2. t.bits = 16 => t.base # u.base
    BY <1>2, <1>7
  <2>3. t = u <=> t.bits = 128 /\ t.val = u.val /\ t.base = u.base
    BY <1>1, <1>2, <1>7
  <2> QED
    BY <1>2, <1>4, <2>1, <2>2, <2>3
<1>8. CASE u.bits = 128 /\ u.base
  <2>1. PICK w : w = OtherForm(u) /\ w = [bits |-> 16, base |-> u.base, val |-> u.val]
    <3>1. u.base = TRUE
      BY <1>1, <1>8
    <3>2. OtherForm(u) = UUID16(u.val)
      BY <1>5, <1>8, SizeAssumption DEF OtherForm, To16, Plain, SizeAssumption
    <3> QED
      BY <3>1, <3>2, Zenon DEF UUID16
  <2>2. w.bits = 16 /\ w.val = u.val /\ w.base = u.base
    BY <2>1
  <2>3. To128(w) = UUID128(u.val, u.base)
    BY <2>1, UUID128Of
  <2>4. Equal(t, w) <=> t.val = u.val /\ t.base = u.base
    <3>1. To128(t) = To128(w) <=> t.val = u.val /\ t.base = u.base
      BY <1>3, <2>3 DEF UUID128
    <3>2. Equal(t, w) <=> To128(t) = To128(w)
      BY <1>2, <2>2 DEF Equal
    <3> QED
      BY <3>1, <3>2
  <2>5. t = w <=> t.bits = 16 /\ t.val = u.val /\ t.base = u.base
    BY <1>2, <2>1
  <2>6. t = u <=> t.bits = 128 /\ t.val = u.val /\ t.base = u.base
    <3>1. u.bits = 128
      BY <1>8
    <3> QED
      BY <1>1, <1>2, <3>1
  <2>7. Plain(w) /\ w # u
    BY <1>8, <2>2 DEF Plain
  <2> QED
    BY <1>2, <1>4, <2>1, <2>4, <2>5, <2>6, <2>7
<1> QED
  BY <1>1, <1>6, <1>7, <1>8

-----------------------------------------------------------------------------
(* The peer's table.                                                       *)

\* The attributes of the peer by their kind.
LEMMA HandlesAre ==
  /\ Len(Peer) \in Nat /\ Handle = 1..Len(Peer)
  /\ \A h \in Handle :
       /\ Peer[h].kind \in {"svc", "chr", "val", "dsc"} /\ Peer[h].chunks \in Nat
       /\ Peer[h].uuid \in UUID /\ Peer[h].uuid.bits # 32
  /\ \A h : h \in Services <=> h \in Handle /\ Peer[h].kind = "svc"
  /\ \A h : h \in Characteristics <=> h \in Handle /\ Peer[h].kind = "chr"
  /\ \A h : h \in Of("dsc") <=> h \in Handle /\ Peer[h].kind = "dsc"
<1>1. Peer \in Seq([kind : {"svc", "chr", "val", "dsc"}, uuid : UUID, chunks : Nat])
  BY PeerAssumption DEF PeerAssumption
<1>2. /\ Len(Peer) \in Nat /\ Handle = 1..Len(Peer)
      /\ \A h \in Handle : Peer[h] \in [kind : {"svc", "chr", "val", "dsc"}, uuid : UUID, chunks : Nat]
  <2>1. PICK T : T = [kind : {"svc", "chr", "val", "dsc"}, uuid : UUID, chunks : Nat]
    OBVIOUS
  <2>2. Peer \in Seq(T)
    BY <1>1, <2>1
  <2>3. DOMAIN Peer = 1..Len(Peer) /\ Len(Peer) \in Nat /\ \A h \in 1..Len(Peer) : Peer[h] \in T
    BY <2>2
  <2> QED
    BY <2>1, <2>3 DEF Handle
<1> QED
  BY <1>2, PeerAssumption DEF PeerAssumption, Of, Services, Characteristics

\* The largest number of a set that has a bound.
LEMMA MaxIs ==
  ASSUME NEW n \in Nat, NEW S \in SUBSET (0..n), S # {}
  PROVE  Max(S) \in S /\ \A k \in S : k <= Max(S)
<1> DEFINE T == {n - k : k \in S}
<1>1. T \in SUBSET Nat /\ T # {}
  <2>1. \A k \in S : n - k \in Nat
    OBVIOUS
  <2> QED
    BY <2>1
<1> HIDE DEF T
<1>2. PICK x \in T : \A y \in T : x <= y
  BY <1>1, LeastIs
<1>3. PICK k \in S : x = n - k
  BY <1>2 DEF T
<1>4. ASSUME NEW j \in S PROVE j <= k
  <2>1. n - j \in T
    BY DEF T
  <2>2. n - k <= n - j
    BY <1>2, <1>3, <2>1
  <2> QED
    BY <2>2
<1> QED
  BY <1>4 DEF Max

LEMMA MinIs ==
  ASSUME NEW S \in SUBSET Nat, S # {}
  PROVE  Min(S) \in S /\ \A k \in S : Min(S) <= k
BY LeastIs DEF Min

\* Each attribute is of the last service before it.
LEMMA ServiceOfIs ==
  ASSUME NEW h \in Handle
  PROVE  /\ ServiceOf[h] \in Services /\ ServiceOf[h] <= h
         /\ \A s \in Services : s <= h => s <= ServiceOf[h]
<1> DEFINE S == {s \in Services : s <= h}
<1>1. 1 \in S
  BY HandlesAre, PeerAssumption DEF PeerAssumption
<1>2. S \in SUBSET (0..Len(Peer)) /\ Len(Peer) \in Nat
  BY HandlesAre
<1>3. ServiceOf[h] = Max(S)
  BY DEF ServiceOf
<1>4. \A s : s \in S <=> s \in Services /\ s <= h
  OBVIOUS
<1> HIDE DEF S
<1>5. Max(S) \in S /\ \A k \in S : k <= Max(S)
  BY <1>1, <1>2, MaxIs
<1> QED
  BY <1>3, <1>4, <1>5

\* A service ends where the next one, or nothing, follows.
LEMMA EndIs ==
  ASSUME NEW s \in Services
  PROVE  /\ End[s] \in Handle /\ s <= End[s]
         /\ \A h \in Handle : s <= h /\ h <= End[s] <=> ServiceOf[h] = s
<1> DEFINE S == {h \in Services : h > s} \cup {Top}
<1>1. /\ Len(Peer) \in Nat /\ Handle = 1..Len(Peer) /\ s \in Handle /\ Top = Len(Peer) + 1
      /\ \A h \in Services : h \in Nat
      /\ \A h \in Handle : h \in Nat
  BY HandlesAre DEF Top
<1>2. S \in SUBSET Nat /\ S # {} /\ Top \in S
  <2>1. Top \in Nat
    BY <1>1
  <2> QED
    BY <1>1, <2>1
<1>3. End[s] = Min(S) - 1
  BY DEF End
<1>4. \A h : h \in S <=> (h \in Services /\ h > s) \/ h = Top
  OBVIOUS
<1> HIDE DEF S
<1>5. Min(S) \in S /\ \A k \in S : Min(S) <= k
  BY <1>2, MinIs
<1>6. PICK m : m = Min(S)
  OBVIOUS
<1>7. End[s] = m - 1 /\ m \in Nat /\ m > s /\ m <= Len(Peer) + 1
  <2>1. m \in S /\ m <= Top /\ m \in Nat
    BY <1>2, <1>5, <1>6
  <2> QED
    BY <1>1, <1>3, <1>4, <1>6, <2>1
<1>8. ASSUME NEW h \in Handle, s <= h, h <= End[s] PROVE ServiceOf[h] = s
  <2>1. ServiceOf[h] \in Services /\ ServiceOf[h] <= h /\ s <= ServiceOf[h]
    BY <1>8, ServiceOfIs
  <2>2. ServiceOf[h] \in Nat /\ h \in Nat /\ s \in Nat
    BY <1>1, <2>1
  <2>3. ServiceOf[h] > s => m <= ServiceOf[h]
    BY <1>4, <1>5, <1>6, <2>1
  <2> QED
    BY <1>7, <1>8, <2>1, <2>2, <2>3
<1>9. ASSUME NEW h \in Handle, ServiceOf[h] = s PROVE s <= h /\ h <= End[s]
  <2>1. s <= h /\ \A r \in Services : r <= h => r <= s
    BY <1>9, ServiceOfIs
  <2>2. m = Top \/ (m \in Services /\ m > s)
    BY <1>4, <1>5, <1>6
  <2>3. ~(m <= h)
    BY <1>1, <1>7, <2>1, <2>2
  <2> QED
    BY <1>1, <1>7, <2>1, <2>3
<1> QED
  BY <1>1, <1>7, <1>8, <1>9

\* The value of a characteristic follows it, in the same service.
LEMMA ValueIs ==
  ASSUME NEW c \in Characteristics
  PROVE  /\ c \in Handle /\ c + 1 \in Handle /\ Peer[c + 1].kind = "val"
         /\ ServiceOf[c] \in Services /\ ServiceOf[c] < c /\ c + 1 <= End[ServiceOf[c]]
         /\ c \in CharacteristicsOf[ServiceOf[c]]
<1>1. c \in Handle /\ Peer[c].kind = "chr"
  BY HandlesAre
<1>2. c + 1 \in Of("val")
  BY PeerAssumption DEF PeerAssumption
<1>3. c + 1 \in Handle /\ Peer[c + 1].kind = "val"
  BY <1>2 DEF Of
<1>4. /\ ServiceOf[c] \in Services /\ ServiceOf[c] <= c /\ ServiceOf[c] # c
      /\ ServiceOf[c] \in Nat /\ c \in Nat
  BY <1>1, ServiceOfIs, HandlesAre
<1>5. ServiceOf[c + 1] = ServiceOf[c]
  <2>1. /\ ServiceOf[c + 1] \in Services /\ ServiceOf[c + 1] <= c + 1 /\ ServiceOf[c + 1] # c + 1
        /\ \A s \in Services : s <= c + 1 => s <= ServiceOf[c + 1]
    BY <1>3, ServiceOfIs, HandlesAre
  <2>2. \A s \in Services : s <= c => s <= ServiceOf[c]
    BY <1>1, ServiceOfIs
  <2>3. ServiceOf[c + 1] \in Nat
    BY <2>1, HandlesAre
  <2>4. ServiceOf[c + 1] <= c
    BY <1>4, <2>1, <2>3
  <2>5. ServiceOf[c + 1] <= ServiceOf[c] /\ ServiceOf[c] <= ServiceOf[c + 1]
    BY <1>4, <2>1, <2>2, <2>4
  <2> QED
    BY <1>4, <2>3, <2>5
<1>6. c + 1 <= End[ServiceOf[c]]
  BY <1>3, <1>4, <1>5, EndIs
<1>7. c \in CharacteristicsOf[ServiceOf[c]]
  BY <1>4 DEF CharacteristicsOf
<1> QED
  BY <1>1, <1>3, <1>4, <1>6, <1>7

-----------------------------------------------------------------------------
(* Lists in the order of the handles.                                      *)

Asc(s) == \A i, j \in 1..Len(s) : i < j => s[i] < s[j]

LEMMA AscIsInjective ==
  ASSUME NEW s \in Seq(Nat), Asc(s)
  PROVE  IsInjective(s) /\ \A i, j \in 1..Len(s) : s[i] < s[j] => i < j
<1>1. Len(s) \in Nat /\ DOMAIN s = 1..Len(s) /\ \A i \in 1..Len(s) : s[i] \in Nat
  OBVIOUS
<1>2. ASSUME NEW i \in 1..Len(s), NEW j \in 1..Len(s) PROVE (s[i] = s[j] => i = j) /\ (s[i] < s[j] => i < j)
  <2>1. i < j \/ j < i \/ i = j
    BY <1>1
  <2>2. s[i] \in Nat /\ s[j] \in Nat
    BY <1>1
  <2>3. (i < j => s[i] < s[j]) /\ (j < i => s[j] < s[i])
    BY DEF Asc
  <2> QED
    BY <2>1, <2>2, <2>3
<1> QED
  BY <1>1, <1>2 DEF IsInjective

\* What the stack reports of a set: its members in order.
LEMMA AscendingIs ==
  ASSUME NEW S \in SUBSET Handle
  PROVE  /\ Ascending(S) \in Seq(Handle) /\ Asc(Ascending(S)) /\ ToSet(Ascending(S)) = S
<1> DEFINE all == [h \in Handle |-> h]
           q == Ascending(S)
<1>1. Handle = 1..Len(Peer) /\ Len(Peer) \in Nat
  BY HandlesAre
<1>2. all \in Seq(Handle) /\ Len(all) = Len(Peer) /\ \A h \in Handle : all[h] = h
  BY <1>1
<1> HIDE DEF all
<1>3. S \in SUBSET (1..Len(all))
  BY <1>1, <1>2
<1>4. q = Picked(all, S)
  BY DEF Ascending, all
<1>5. q \in Seq(Handle) /\ Len(q) = Cardinality(S)
  BY <1>2, <1>3, <1>4, PickedIs
<1>6. PICK f \in [1..Cardinality(S) -> S] :
        /\ \A i \in 1..Cardinality(S) : q[i] = all[f[i]]
        /\ \A k \in S : \E i \in 1..Cardinality(S) : f[i] = k
        /\ \A i, j \in 1..Cardinality(S) : i < j => f[i] < f[j]
  BY <1>2, <1>3, <1>4, PickedIs
<1> HIDE DEF q
<1>7. \A i \in 1..Len(q) : q[i] = f[i] /\ f[i] \in S
  BY <1>2, <1>5, <1>6
<1>8. Asc(q)
  BY <1>5, <1>6, <1>7 DEF Asc
<1>9. \A a : a \in ToSet(q) <=> \E i \in 1..Len(q) : q[i] = a
  BY <1>5, Members
<1>10. \A a : a \in ToSet(q) <=> a \in S
  BY <1>5, <1>6, <1>7, <1>9
<1> QED
  BY <1>5, <1>8, <1>10 DEF q

\* Removal keeps the order.
LEMMA KeptAsc ==
  ASSUME NEW s \in Seq(Handle), Asc(s), NEW D
  PROVE  Kept(s, D) \in Seq(Handle) /\ Asc(Kept(s, D)) /\ ToSet(Kept(s, D)) = ToSet(s) \ D
<1> DEFINE q == Kept(s, D)
<1>1. s \in Seq(Nat) /\ Len(s) \in Nat /\ \A i \in 1..Len(s) : s[i] \in Nat
  BY HandlesAre
<1>2. IsInjective(s)
  BY <1>1, AscIsInjective
<1>3. /\ q \in Seq(Handle) /\ ToSet(q) = ToSet(s) \ D
      /\ \A i, j \in 1..Len(q), m, n \in 1..Len(s) :
           q[i] = s[m] /\ q[j] = s[n] => (i < j <=> m < n)
  BY <1>2, KeptIs
<1> HIDE DEF q
<1>4. \A i \in 1..Len(q) : \E m \in 1..Len(s) : q[i] = s[m]
  <2>1. \A i \in 1..Len(q) : q[i] \in ToSet(q)
    BY <1>3, Members
  <2> QED
    BY <1>3, <2>1, Members
<1>5. ASSUME NEW i \in 1..Len(q), NEW j \in 1..Len(q), i < j PROVE q[i] < q[j]
  <2>1. PICK m \in 1..Len(s) : q[i] = s[m]
    BY <1>4
  <2>2. PICK n \in 1..Len(s) : q[j] = s[n]
    BY <1>4
  <2>3. m < n
    BY <1>3, <1>5, <2>1, <2>2
  <2> QED
    BY <2>1, <2>2, <2>3 DEF Asc
<1>6. Asc(q)
  BY <1>5 DEF Asc
<1> QED
  BY <1>3, <1>6 DEF q

LEMMA AscConcat ==
  ASSUME NEW s \in Seq(Handle), NEW t \in Seq(Handle), Asc(s), Asc(t),
         \A a \in ToSet(s), b \in ToSet(t) : a < b
  PROVE  Asc(s \o t)
<1> DEFINE r == s \o t
<1>1. /\ r \in Seq(Handle) /\ Len(r) = Len(s) + Len(t) /\ Len(s) \in Nat /\ Len(t) \in Nat
      /\ \A i \in 1..(Len(s) + Len(t)) : r[i] = IF i <= Len(s) THEN s[i] ELSE t[i - Len(s)]
  BY ConcatProperties
<1> HIDE DEF r
<1>2. ASSUME NEW i \in 1..Len(r), NEW j \in 1..Len(r), i < j PROVE r[i] < r[j]
  <2>1. CASE j <= Len(s)
    <3>1. i \in 1..Len(s) /\ j \in 1..Len(s) /\ r[i] = s[i] /\ r[j] = s[j]
      BY <1>1, <1>2, <2>1
    <3> QED
      BY <1>2, <3>1 DEF Asc
  <2>2. CASE i > Len(s)
    <3>1. /\ i - Len(s) \in 1..Len(t) /\ j - Len(s) \in 1..Len(t) /\ i - Len(s) < j - Len(s)
          /\ r[i] = t[i - Len(s)] /\ r[j] = t[j - Len(s)]
      BY <1>1, <1>2, <2>2
    <3> QED
      BY <3>1 DEF Asc
  <2>3. CASE i <= Len(s) /\ ~(j <= Len(s))
    <3>1. /\ i \in 1..Len(s) /\ j - Len(s) \in 1..Len(t)
          /\ r[i] = s[i] /\ r[j] = t[j - Len(s)]
      BY <1>1, <1>2, <2>3
    <3>2. s[i] \in ToSet(s) /\ t[j - Len(s)] \in ToSet(t)
      BY <3>1, Members
    <3> QED
      BY <3>1, <3>2
  <2> QED
    BY <1>1, <2>1, <2>2, <2>3
<1> QED
  BY <1>2 DEF Asc, r

LEMMA OneAsc ==
  ASSUME NEW h \in Handle
  PROVE  <<h>> \in Seq(Handle) /\ Asc(<<h>>) /\ ToSet(<<h>>) = {h} /\ IsInjective(<<h>>)
<1>1. <<h>> \in Seq(Handle) /\ Len(<<h>>) = 1 /\ <<h>>[1] = h
  OBVIOUS
<1>2. Asc(<<h>>) /\ IsInjective(<<h>>)
  BY <1>1 DEF Asc, IsInjective
<1>3. \A a : a \in ToSet(<<h>>) <=> \E i \in 1..Len(<<h>>) : <<h>>[i] = a
  BY <1>1, Members
<1> QED
  BY <1>1, <1>2, <1>3

\* characteristicDiscCB() keeps the characteristics in the order of their handles.
LEMMA InsertIs ==
  ASSUME NEW s \in Seq(Handle), Asc(s), ToSet(s) \subseteq Characteristics,
         NEW c \in Characteristics, c \notin ToSet(s)
  PROVE  /\ InsertChr(s, c) \in Seq(Handle) /\ Asc(InsertChr(s, c))
         /\ ToSet(InsertChr(s, c)) = ToSet(s) \cup {c}
<1> DEFINE later == {e \in Characteristics : ValueHandle(e) > c}
           u == Kept(s, later)
           v == Kept(s, Characteristics \ later)
<1>1. c \in Handle /\ c \in Nat /\ \A e \in Characteristics : e \in Nat
  BY HandlesAre
<1>2. \A e : e \in later <=> e \in Characteristics /\ e + 1 > c
  BY DEF ValueHandle
<1> HIDE DEF later
<1>3. u \in Seq(Handle) /\ Asc(u) /\ ToSet(u) = ToSet(s) \ later
  BY KeptAsc
<1>4. v \in Seq(Handle) /\ Asc(v) /\ ToSet(v) = ToSet(s) \ (Characteristics \ later)
  BY KeptAsc
<1>5. InsertChr(s, c) = u \o <<c>> \o v
  BY DEF InsertChr, later
<1> HIDE DEF u, v
<1>6. <<c>> \in Seq(Handle) /\ Asc(<<c>>) /\ ToSet(<<c>>) = {c}
  BY <1>1, OneAsc
<1>7. \A a \in ToSet(u) : a < c
  <2>1. ASSUME NEW a \in ToSet(u) PROVE a < c
    <3>1. a \in Nat /\ ~(a + 1 > c)
      BY <1>1, <1>2, <1>3
    <3> QED
      BY <1>1, <3>1
  <2> QED
    BY <2>1
<1>8. \A b \in ToSet(v) : c < b
  <2>1. ASSUME NEW b \in ToSet(v) PROVE c < b
    <3>1. b \in Nat /\ b + 1 > c /\ b # c
      BY <1>1, <1>2, <1>4
    <3> QED
      BY <1>1, <3>1
  <2> QED
    BY <2>1
<1>9. /\ u \o <<c>> \in Seq(Handle) /\ Asc(u \o <<c>>)
      /\ ToSet(u \o <<c>>) = ToSet(u) \cup {c}
  <2>1. \A a \in ToSet(u), b \in ToSet(<<c>>) : a < b
    BY <1>6, <1>7
  <2>2. PICK one : one = <<c>>
    OBVIOUS
  <2>3. Asc(u \o one)
    BY <1>3, <1>6, <2>1, <2>2, AscConcat
  <2>4. u \o one \in Seq(Handle) /\ ToSet(u \o one) = ToSet(u) \cup ToSet(one)
    BY <1>3, <1>6, <2>2, ConcatLemma
  <2> QED
    BY <1>6, <2>2, <2>3, <2>4
<1>10. \A a \in ToSet(u \o <<c>>), b \in ToSet(v) : a < b
  <2>1. \A b \in ToSet(v) : b \in Nat
    BY <1>1, <1>4
  <2>2. \A a \in ToSet(u) : a \in Nat
    BY <1>1, <1>3
  <2> QED
    BY <1>1, <1>7, <1>8, <1>9, <2>1, <2>2
<1>11. PICK w : w = u \o <<c>>
  OBVIOUS
<1>12. /\ w \o v \in Seq(Handle) /\ Asc(w \o v)
       /\ ToSet(w \o v) = ToSet(w) \cup ToSet(v)
  BY <1>4, <1>9, <1>10, <1>11, AscConcat, ConcatLemma
<1>13. ToSet(u) \cup {c} \cup ToSet(v) = ToSet(s) \cup {c}
  BY <1>3, <1>4
<1> QED
  BY <1>5, <1>9, <1>11, <1>12, <1>13

\* The list without its head.
LEMMA TailAsc ==
  ASSUME NEW s \in Seq(Handle), Asc(s), s # << >>
  PROVE  /\ Tail(s) \in Seq(Handle) /\ Asc(Tail(s))
         /\ Head(s) \in ToSet(s) /\ ToSet(s) = {Head(s)} \cup ToSet(Tail(s))
         /\ \A a \in ToSet(Tail(s)) : Head(s) < a
<1>1. s \in Seq(Nat)
  BY HandlesAre
<1>2. /\ Head(s) \in Handle /\ Tail(s) \in Seq(Handle) /\ ToSet(s) = {Head(s)} \cup ToSet(Tail(s))
  BY <1>1, AscIsInjective, TailLemma
<1>3. PICK r : r = Tail(s)
  OBVIOUS
<1>4. /\ r \in Seq(Handle) /\ Len(r) = Len(s) - 1 /\ Len(s) \in Nat /\ Head(s) = s[1]
      /\ \A i \in 1..Len(r) : r[i] = s[i + 1]
  BY <1>3
<1>5. Asc(r)
  <2>1. ASSUME NEW i \in 1..Len(r), NEW j \in 1..Len(r), i < j PROVE r[i] < r[j]
    <3>1. i + 1 \in 1..Len(s) /\ j + 1 \in 1..Len(s) /\ i + 1 < j + 1
      BY <1>4, <2>1
    <3> QED
      BY <1>4, <3>1 DEF Asc
  <2> QED
    BY <2>1 DEF Asc
<1>6. ASSUME NEW a \in ToSet(r) PROVE Head(s) < a
  <2>1. PICK i \in 1..Len(r) : r[i] = a
    BY <1>4, Members
  <2>2. i + 1 \in 1..Len(s) /\ 1 \in 1..Len(s) /\ 1 < i + 1 /\ a = s[i + 1]
    BY <1>4, <2>1
  <2> QED
    BY <1>4, <2>2 DEF Asc
<1> QED
  BY <1>2, <1>3, <1>5, <1>6

LEMMA FrontIs ==
  ASSUME NEW s \in Seq(Handle)
  PROVE  IF s = << >> THEN FrontOf(s) = NoAttr ELSE FrontOf(s) \in ToSet(s) /\ FrontOf(s) \in Handle
BY HeadIsMember DEF FrontOf

\* What follows in the list: the least of those that are greater.
LEMMA AfterIs ==
  ASSUME NEW s \in Seq(Handle), Asc(s), NEW h \in ToSet(s)
  PROVE  \/ After(s, h) = NoAttr /\ \A e \in ToSet(s) : e <= h
         \/ /\ After(s, h) \in ToSet(s) /\ After(s, h) \in Handle /\ h < After(s, h)
            /\ \A e \in ToSet(s) : e > h => After(s, h) <= e
<1>1. s \in Seq(Nat) /\ Len(s) \in Nat /\ DOMAIN s = 1..Len(s) /\ \A i \in 1..Len(s) : s[i] \in Nat /\ s[i] \in Handle
  BY HandlesAre
<1>2. \A i, j \in 1..Len(s) : (s[i] < s[j] => i < j) /\ (s[i] = s[j] => i = j)
  BY <1>1, AscIsInjective DEF IsInjective
<1>3. PICK k \in 1..Len(s) : s[k] = h
  BY Members
<1>4. (CHOOSE i \in DOMAIN s : s[i] = h) = k
  BY <1>1, <1>2, <1>3
<1>5. After(s, h) = IF k = Len(s) THEN NoAttr ELSE s[k + 1]
  <2> DEFINE m == CHOOSE i \in DOMAIN s : s[i] = h
  <2>1. After(s, h) = IF m = Len(s) THEN NoAttr ELSE s[m + 1]
    BY DEF After
  <2>2. m = k
    BY <1>4
  <2> HIDE DEF m
  <2> QED
    BY <2>1, <2>2
<1>6. \A a : a \in ToSet(s) <=> \E i \in 1..Len(s) : s[i] = a
  BY Members
<1>7. ASSUME NEW i \in 1..Len(s), s[i] > h PROVE k < i
  BY <1>1, <1>2, <1>3, <1>7
<1>8. CASE k = Len(s)
  <2>1. ASSUME NEW e \in ToSet(s) PROVE e <= h
    <3>1. PICK i \in 1..Len(s) : s[i] = e
      BY <1>6
    <3>2. ~(s[i] > h) /\ s[i] \in Nat /\ h \in Nat
      BY <1>1, <1>3, <1>7, <1>8
    <3> QED
      BY <3>1, <3>2
  <2> QED
    BY <1>5, <1>8, <2>1
<1>9. CASE k # Len(s)
  <2>1. k + 1 \in 1..Len(s) /\ k < k + 1
    <3>1. Len(s) \in Nat /\ k \in 1..Len(s)
      BY <1>1
    <3> HIDE <1>1
    <3> QED
      BY <1>9, <3>1
  <2>2. s[k + 1] \in ToSet(s) /\ s[k + 1] \in Handle /\ h < s[k + 1]
    BY <1>1, <1>3, <1>6, <2>1 DEF Asc
  <2>3. ASSUME NEW e \in ToSet(s), e > h PROVE s[k + 1] <= e
    <3>1. PICK i \in 1..Len(s) : s[i] = e
      BY <1>6
    <3>2. k < i
      BY <1>7, <2>3, <3>1
    <3>3. k + 1 = i \/ k + 1 < i
      BY <3>2
    <3>4. s[k + 1] \in Nat /\ s[i] \in Nat /\ (k + 1 < i => s[k + 1] < s[i])
      BY <1>1, <2>1 DEF Asc
    <3> QED
      BY <3>1, <3>3, <3>4
  <2> QED
    BY <1>5, <1>9, <2>2, <2>3
<1> QED
  BY <1>8, <1>9

\* The search with which a lookup begins.
LEMMA CachedIs ==
  ASSUME NEW level, NEW at, NEW uuid, Vector(level, at) \in Seq(Handle)
  PROVE  LET c == Cached(level, at, uuid)
         IN  \/ c = NoAttr /\ \A h \in ToSet(Vector(level, at)) : ~Equal(UUIDOf(level, h), uuid)
             \/ /\ c \in ToSet(Vector(level, at)) /\ c \in Handle /\ c # NoAttr
                /\ Equal(UUIDOf(level, c), uuid)
<1> DEFINE s == Vector(level, at)
           S == {h \in Handle : Equal(UUIDOf(level, h), uuid)}
           i == SelectInSeq(s, LAMBDA h : h \in S)
           j == SelectInSeq(s, LAMBDA h : Equal(UUIDOf(level, h), uuid))
<1>1. i = j
  <2>1. {k \in 1..Len(s) : s[k] \in S} = {k \in 1..Len(s) : Equal(UUIDOf(level, s[k]), uuid)}
    <3>1. \A k \in 1..Len(s) : s[k] \in Handle
      OBVIOUS
    <3> QED
      BY <3>1
  <2> HIDE DEF s, S
  <2> QED
    BY <2>1 DEF SelectInSeq
<1>2. \/ i = 0 /\ ToSet(s) \cap S = {}
      \/ i \in 1..Len(s) /\ s[i] \in S
  <2> HIDE DEF S
  <2> QED
    BY FirstIs
<1>3. Cached(level, at, uuid) = IF j = 0 THEN NoAttr ELSE s[j]
  BY DEF Cached
<1> HIDE DEF i, j
<1>4. ToSet(s) \subseteq Handle /\ \A k \in 1..Len(s) : s[k] \in ToSet(s)
  BY Members
<1>5. NoAttr \notin Handle
  BY PeerAssumption DEF PeerAssumption
<1>6. CASE i = 0
  BY <1>1, <1>2, <1>3, <1>4, <1>6
<1>7. CASE i \in 1..Len(s) /\ s[i] \in S
  BY <1>1, <1>3, <1>4, <1>5, <1>7
<1> QED
  BY <1>2, <1>6, <1>7

-----------------------------------------------------------------------------
(* The range in which the descriptors of a characteristic are searched.    *)

\* An attribute between the value of a characteristic and whatever follows is a
\* descriptor of it, if no characteristic of the service is between.
LEMMA BetweenIs ==
  ASSUME NEW c \in Characteristics, NEW h \in Handle, c + 1 < h, h <= End[ServiceOf[c]],
         \A e \in CharacteristicsOf[ServiceOf[c]] : ~(c < e /\ e <= h)
  PROVE  h \in OwnDescriptors[c]
<1> DEFINE s == ServiceOf[c]
<1>1. /\ c \in Handle /\ c + 1 \in Handle /\ Peer[c + 1].kind = "val" /\ s \in Services /\ s < c
      /\ c \in Nat /\ h \in Nat /\ s \in Nat /\ Peer[c].kind = "chr"
  BY ValueIs, HandlesAre
<1>2. ASSUME NEW g \in c + 1 .. h
      PROVE  g \in Handle /\ g \in Nat /\ Peer[g].kind # "svc" /\ Peer[g].kind # "chr"
  <2>1. g \in Handle /\ g \in Nat
    BY <1>1, HandlesAre
  <2>2. g <= End[s] /\ s < g /\ End[s] \in Nat
    BY <1>1, <2>1, EndIs, HandlesAre
  <2>3. ServiceOf[g] = s
    BY <1>1, <2>1, <2>2, EndIs
  <2>4. Peer[g].kind # "svc"
    <3>1. ASSUME g \in Services PROVE FALSE
      <4>1. g <= ServiceOf[g]
        BY <2>1, <3>1, ServiceOfIs
      <4> QED
        BY <1>1, <2>1, <2>2, <2>3, <4>1
    <3> QED
      BY <2>1, <3>1, HandlesAre
  <2>5. Peer[g].kind # "chr"
    <3>1. ASSUME g \in Characteristics PROVE FALSE
      <4>1. g \in CharacteristicsOf[s]
        BY <1>1, <2>3, <3>1 DEF CharacteristicsOf
      <4> QED
        BY <1>1, <2>1, <4>1
    <3> QED
      BY <2>1, <3>1, HandlesAre
  <2> QED
    BY <2>1, <2>4, <2>5
<1>3. Peer[h].kind # "val"
  <2>1. ASSUME Peer[h].kind = "val" PROVE FALSE
    <3>1. h \in Of("val")
      BY <2>1 DEF Of
    <3>2. PICK e \in Characteristics : h = e + 1
      BY <3>1, PeerAssumption DEF PeerAssumption
    <3>3. e \in Nat /\ Peer[e].kind = "chr"
      BY HandlesAre
    <3>4. e = h - 1
      BY <1>1, <3>2, <3>3
    <3>5. e \in c + 1 .. h
      BY <1>1, <3>4
    <3> QED
      BY <1>2, <3>3, <3>5
  <2> QED
    BY <2>1
<1>4. \A g \in c + 1 .. h : Peer[g].kind \in {"val", "dsc"}
  BY <1>2, HandlesAre
<1>5. h \in c + 1 .. h
  BY <1>1
<1>6. h \in Of("dsc")
  BY <1>3, <1>4, <1>5, HandlesAre
<1> QED
  BY <1>1, <1>4, <1>6 DEF OwnDescriptors

\* A descriptor of a characteristic is behind its value and before the next service
\* and the next characteristic.
LEMMA OwnIs ==
  ASSUME NEW c \in Characteristics, NEW d \in OwnDescriptors[c]
  PROVE  /\ d \in Handle /\ Peer[d].kind = "dsc" /\ c + 1 < d /\ d <= End[ServiceOf[c]]
         /\ \A e \in Characteristics : c < e => d < e
<1> DEFINE s == ServiceOf[c]
<1>1. /\ c \in Handle /\ c + 1 \in Handle /\ Peer[c + 1].kind = "val" /\ s \in Services /\ s < c
      /\ c \in Nat /\ s \in Nat
  BY ValueIs, HandlesAre
<1>2. d \in Of("dsc") /\ d > c /\ \A h \in c + 1 .. d : Peer[h].kind \in {"val", "dsc"}
  BY DEF OwnDescriptors
<1>3. d \in Handle /\ Peer[d].kind = "dsc" /\ d \in Nat
  BY <1>2, HandlesAre
<1>4. c + 1 < d
  BY <1>1, <1>2, <1>3
<1>5. ASSUME NEW h \in Handle, h \in Services \/ h \in Characteristics, c < h PROVE d < h
  <2>1. h \in Nat /\ Peer[h].kind \notin {"val", "dsc"}
    BY <1>5, HandlesAre
  <2>2. h \notin c + 1 .. d
    BY <1>2, <2>1
  <2> QED
    BY <1>1, <1>3, <1>5, <2>1, <2>2
<1>6. d <= End[s]
  <2>1. /\ ServiceOf[d] \in Services /\ ServiceOf[d] <= d
        /\ \A r \in Services : r <= d => r <= ServiceOf[d]
    BY <1>3, ServiceOfIs
  <2>2. ServiceOf[d] \in Handle /\ ServiceOf[d] \in Nat
    BY <2>1, HandlesAre
  <2>3. ~(c < ServiceOf[d])
    BY <1>3, <1>5, <2>1, <2>2
  <2>4. s <= ServiceOf[d]
    BY <1>1, <1>2, <1>3, <2>1
  <2>5. ServiceOf[d] <= s
    BY <1>1, <2>1, <2>2, <2>3, ServiceOfIs
  <2>6. ServiceOf[d] = s
    BY <1>1, <2>2, <2>4, <2>5
  <2> QED
    BY <1>1, <1>3, <2>6, EndIs
<1> QED
  BY <1>3, <1>4, <1>5, <1>6, HandlesAre

\* What retrieveDescriptors() relies on: the range ends in the table, and if the
\* client knows all characteristics of the service, it holds the descriptors of the
\* characteristic and nothing else but the declaration of the next one.
LEMMA RangeIs ==
  ASSUME NEW c \in Characteristics, cache.chrs[ServiceOf[c]] \in Seq(Handle),
         Asc(cache.chrs[ServiceOf[c]]), c \in ToSet(cache.chrs[ServiceOf[c]]),
         ToSet(cache.chrs[ServiceOf[c]]) \subseteq CharacteristicsOf[ServiceOf[c]]
  PROVE  /\ SearchEnd(c) \in Handle /\ ValueHandle(c) + 1 .. SearchEnd(c) \in SUBSET Handle
         /\ SearchEnd(c) = ValueHandle(c) => OwnDescriptors[c] = {}
         /\ ToSet(cache.chrs[ServiceOf[c]]) = CharacteristicsOf[ServiceOf[c]] =>
              /\ ValueHandle(c) + 1 .. SearchEnd(c) \subseteq OwnDescriptors[c] \cup NextDeclaration(c)
              /\ OwnDescriptors[c] \subseteq ValueHandle(c) + 1 .. SearchEnd(c)
<1> DEFINE s == ServiceOf[c]
           known == cache.chrs[s]
           next == After(known, c)
<1>1. /\ c \in Handle /\ c + 1 \in Handle /\ Peer[c + 1].kind = "val" /\ s \in Services /\ s < c
      /\ c + 1 <= End[s] /\ c \in Nat /\ s \in Nat
  BY ValueIs, HandlesAre
<1>2. End[s] \in Handle /\ End[s] \in Nat
  BY <1>1, EndIs, HandlesAre
<1>3. ToSet(known) \subseteq Characteristics /\ \A e \in Characteristics : e \in Handle /\ e \in Nat
  <2>1. CharacteristicsOf[s] = {e \in Characteristics : ServiceOf[e] = s}
    BY <1>1 DEF CharacteristicsOf
  <2>2. \A e \in Characteristics : e \in Handle /\ e \in Nat
    BY HandlesAre
  <2> QED
    BY <2>1, <2>2
<1>4. \/ next = NoAttr /\ \A e \in ToSet(known) : e <= c
      \/ /\ next \in ToSet(known) /\ next \in Handle /\ c < next
         /\ \A e \in ToSet(known) : e > c => next <= e
  BY AfterIs
<1>5. SearchEnd(c) = IF next = NoAttr THEN End[s] ELSE ValueHandle(next) - 1
  <2> HIDE DEF next
  <2>1. next = After(cache.chrs[ServiceOf[c]], c)
    BY DEF next
  <2>2. \A n : n = After(cache.chrs[ServiceOf[c]], c) =>
          SearchEnd(c) = IF n = NoAttr THEN End[s] ELSE ValueHandle(n) - 1
    BY Zenon DEF SearchEnd
  <2> QED
    BY <2>1, <2>2
<1>6. NoAttr \notin Handle
  BY PeerAssumption DEF PeerAssumption
<1>7. ValueHandle(c) = c + 1
  BY DEF ValueHandle
<1> HIDE DEF next
<1>8. CASE next = NoAttr
  <2>1. SearchEnd(c) = End[s] /\ \A e \in ToSet(known) : e <= c
    BY <1>4, <1>5, <1>6, <1>8
  <2>2. c + 2 .. End[s] \in SUBSET Handle
    BY <1>1, <1>2, HandlesAre
  <2>3. ASSUME End[s] = c + 1 PROVE OwnDescriptors[c] = {}
    <3>1. ASSUME NEW d \in OwnDescriptors[c] PROVE FALSE
      <4>1. d \in Handle /\ c + 1 < d /\ d <= End[s]
        BY OwnIs
      <4> QED
        BY <1>1, <2>3, <4>1, HandlesAre
    <3> QED
      BY <3>1
  <2>4. ASSUME ToSet(known) = CharacteristicsOf[s], NEW h \in c + 2 .. End[s]
        PROVE  h \in OwnDescriptors[c]
    <3>1. h \in Handle /\ c + 1 < h /\ h <= End[s]
      BY <1>1, <1>2, <2>2
    <3>2. \A e \in CharacteristicsOf[s] : ~(c < e /\ e <= h)
      <4>1. ASSUME NEW e \in CharacteristicsOf[s] PROVE ~(c < e)
        <5>1. e \in ToSet(known) /\ e \in Nat /\ e <= c
          BY <1>3, <2>1, <2>4
        <5> QED
          BY <1>1, <5>1
      <4> QED
        BY <4>1
    <3> QED
      BY <3>1, <3>2, BetweenIs
  <2>5. ASSUME NEW d \in OwnDescriptors[c] PROVE d \in c + 2 .. End[s]
    <3>1. d \in Handle /\ c + 1 < d /\ d <= End[s] /\ d \in Nat
      BY OwnIs, HandlesAre
    <3> QED
      BY <1>1, <1>2, <3>1
  <2>6. c + 1 + 1 = c + 2
    BY <1>1
  <2> QED
    BY <1>2, <1>7, <2>1, <2>2, <2>3, <2>4, <2>5, <2>6
<1>9. CASE next # NoAttr
  <2>1. /\ next \in ToSet(known) /\ next \in Handle /\ c < next /\ next \in Nat
        /\ \A e \in ToSet(known) : e > c => next <= e
    BY <1>3, <1>4, <1>9
  <2>2. SearchEnd(c) = next
    BY <1>5, <1>9, <2>1 DEF ValueHandle
  <2>3. next \in Characteristics /\ next # c + 1 /\ c + 1 < next
    <3>1. next \in Characteristics /\ Peer[next].kind = "chr"
      BY <1>3, <2>1, HandlesAre
    <3> QED
      BY <1>1, <2>1, <3>1
  <2>4. c + 2 .. next \in SUBSET Handle
    BY <1>1, <2>1, HandlesAre
  <2>5. ASSUME ToSet(known) = CharacteristicsOf[s]
        PROVE  c + 2 .. next \subseteq OwnDescriptors[c] \cup NextDeclaration(c)
    <3>0. ServiceOf[next] = s /\ next <= End[s]
      <4>1. ServiceOf[next] = s
        BY <1>1, <2>1, <2>5 DEF CharacteristicsOf
      <4> QED
        BY <1>1, <2>1, <4>1, EndIs
    <3>1. ASSUME NEW h \in c + 2 .. next, h # next PROVE h \in OwnDescriptors[c]
      <4>1. h \in Handle /\ h \in Nat /\ c + 1 < h /\ h < next /\ h <= End[s]
        BY <1>1, <1>2, <2>1, <2>4, <3>0, <3>1
      <4>2. \A e \in CharacteristicsOf[s] : ~(c < e /\ e <= h)
        <5>1. ASSUME NEW e \in CharacteristicsOf[s], c < e, e <= h PROVE FALSE
          <6>1. e \in ToSet(known) /\ e \in Nat /\ next <= e
            BY <1>3, <2>1, <2>5, <5>1
          <6> QED
            BY <2>1, <4>1, <5>1, <6>1
        <5> QED
          BY <5>1
      <4> QED
        BY <4>1, <4>2, BetweenIs
    <3>2. next \in NextDeclaration(c)
      <4>1. ASSUME NEW g \in Characteristics, g > c PROVE next <= g
        <5>1. g \in Handle /\ g \in Nat
          BY <1>3
        <5>2. CASE g <= End[s]
          <6>1. ServiceOf[g] = s
            BY <1>1, <4>1, <5>1, <5>2, EndIs
          <6>2. g \in ToSet(known)
            BY <1>1, <2>5, <6>1 DEF CharacteristicsOf
          <6> QED
            BY <2>1, <4>1, <6>2
        <5>3. CASE ~(g <= End[s])
          BY <1>2, <2>1, <3>0, <5>1, <5>3
        <5> QED
          BY <5>2, <5>3
      <4> QED
        BY <2>1, <2>3, <4>1 DEF NextDeclaration
    <3> QED
      BY <3>1, <3>2
  <2>6. ASSUME NEW d \in OwnDescriptors[c] PROVE d \in c + 2 .. next
    <3>1. d \in Handle /\ c + 1 < d /\ d < next /\ d \in Nat
      BY <2>1, <2>3, OwnIs, HandlesAre
    <3> QED
      BY <1>1, <2>1, <3>1
  <2>7. c + 1 + 1 = c + 2
    BY <1>1
  <2> QED
    BY <1>1, <1>7, <2>1, <2>2, <2>3, <2>4, <2>5, <2>6, <2>7
<1> QED
  BY <1>8, <1>9

-----------------------------------------------------------------------------
(* The inductive invariant.                                                *)

Looking == app.pc # "idle" /\ app.op \in {"get", "subscribe"}
Searching == stk.busy /\ app.level \in {"svc", "chr", "dsc"}
Others(c) == OwnDescriptors[c] \cup NextDeclaration(c)

\* The vectors hold what the peer has where they belong, each object once.
VectorsAreOf ==
  /\ IsInjective(cache.svcs) /\ ToSet(cache.svcs) \subseteq Services
  /\ \A s \in Services : Asc(cache.chrs[s]) /\ ToSet(cache.chrs[s]) \subseteq CharacteristicsOf[s]
  /\ \A c \in Characteristics :
       IsInjective(cache.dscs[c]) /\ (c \notin blind => ToSet(cache.dscs[c]) \subseteq Others(c))

\* Where a call searches, reads or writes.
PlaceIs ==
  /\ app.level = "chr" => app.at \in ToSet(cache.svcs)
  /\ app.level = "dsc" => /\ app.at \in Characteristics /\ ServiceOf[app.at] \in ToSet(cache.svcs)
                          /\ app.at \in ToSet(cache.chrs[ServiceOf[app.at]])
  /\ app.level \in {"read", "write"} => app.at \in Handle

\* What goes together in the fields of a call.
AskedIs ==
  /\ app.pc = "idle" => app = NoCall
  /\ app.op = "value" <=> app.level \in {"read", "write"}
  /\ app.op = "subscribe" => app.level = "dsc"
  /\ app.any <=> app.op \in {"refresh", "discover"}
  /\ app.pc = "answer" => app.op = "get"
  /\ app.pc = "secure" => app.op = "value" /\ app.retry > 0
  /\ app.goal # "none" => app.op = "get" /\ app.level \in {"svc", "chr"}
  /\ Plain(app.uuid) /\ Plain(app.sub)
  /\ app.level = "dsc" /\ ~app.any => ~Equal(Declared, app.uuid)
  /\ app.pc = "call" /\ Looking => app.found = NoAttr

\* What the stack has yet to report: in the order of the handles, where it is
\* sought, and no object that the client has.
TodoIs ==
  Searching =>
    /\ stk.todo \in Seq(Handle) /\ Asc(stk.todo)
    /\ \A h \in ToSet(stk.todo) : Exactly(h) => h \notin ToSet(Vector(app.level, app.at))
    /\ app.level = "svc" => \A h \in ToSet(stk.todo) : h \in Services /\ Exactly(h)
    /\ app.level = "chr" => \A h \in ToSet(stk.todo) : h \in CharacteristicsOf[app.at] /\ Exactly(h)
    /\ app.level = "dsc" /\ app.at \notin blind => ToSet(stk.todo) \subseteq Others(app.at)

\* A lookup searches for what the client has not.
VectorLacks(u) == \A h \in ToSet(Vector(app.level, app.at)) : UUIDOf(app.level, h) # u
NotYet ==
  /\ Looking /\ app.found = NoAttr =>
       /\ ~app.again /\ OtherForm(app.uuid) # app.uuid => VectorLacks(OtherForm(app.uuid))
       /\ app.pc = "call" => VectorLacks(app.uuid)
  /\ app.pc = "call" /\ app.op \in {"refresh", "discover"} => Vector(app.level, app.at) = << >>

FoundIs ==
  Looking /\ app.found # NoAttr =>
    /\ app.found \in ToSet(Vector(app.level, app.at))
    /\ Equal(UUIDOf(app.level, app.found), app.uuid)

\* A lookup that has found nothing has yet to be told of it, or there is none.
ScopeOf(level, at) ==
  CASE level = "svc" -> Services
    [] level = "chr" -> CharacteristicsOf[at]
    [] level = "dsc" -> OwnDescriptors[at]
Scope == ScopeOf(app.level, app.at)
LastForm == app.again \/ OtherForm(app.uuid) = app.uuid
MissIs ==
  Looking /\ app.found = NoAttr /\ (app.level = "dsc" => app.at \notin blind /\ ~app.late) =>
    /\ LastForm => \A h \in Scope : Equal(UUIDOf(app.level, h), app.uuid) => UUIDOf(app.level, h) = app.uuid
    /\ stk.busy => \A h \in Scope : UUIDOf(app.level, h) = app.uuid => h \in ToSet(stk.todo)
    /\ ~stk.busy /\ app.pc \in {"count", "woken", "answer"} /\ app.rc = "ok" =>
         \A h \in Scope : UUIDOf(app.level, h) # app.uuid
    /\ app.pc = "answer" /\ app.rc = "ok" => LastForm

\* discoverAttributes() goes through the services and their characteristics in the
\* order of their handles, and has found nothing behind the place where it is.
Behind(a, h) == a < h \/ (app.pc = "call" /\ a = h)
DiscoverIs ==
  app.op = "discover" =>
    /\ Asc(cache.svcs)
    /\ app.level = "svc" =>
         /\ \A s \in Services : cache.chrs[s] = << >>
         /\ \A c \in Characteristics : cache.dscs[c] = << >>
         /\ stk.busy => \A s \in ToSet(cache.svcs), h \in ToSet(stk.todo) : s < h
    /\ app.level # "svc" =>
         /\ \A s \in Services : Behind(app.at, s) => cache.chrs[s] = << >>
         /\ \A c \in Characteristics : Behind(app.at, c) => cache.dscs[c] = << >>

RemoteInv ==
  /\ RemoteTypeOK /\ VectorsAreOf /\ PlaceIs /\ AskedIs /\ TodoIs /\ NotYet /\ FoundIs /\ MissIs /\ DiscoverIs

-----------------------------------------------------------------------------
(* Parts of a step.                                                        *)

LEMMA PlainsAre ==
  ASSUME LookupsArePlain
  PROVE  /\ CCCD \in UUID /\ Plain(CCCD) /\ ~Equal(Declared, CCCD)
         /\ \A level \in {"svc", "chr", "dsc"} : \A u \in Lookups[level] : u \in UUID /\ Plain(u)
         /\ \A u \in Lookups["dsc"] : ~Equal(Declared, u)
<1>1. CCCD \in UUID /\ \A level \in {"svc", "chr", "dsc"} : Lookups[level] \subseteq UUID
  BY PeerAssumption DEF PeerAssumption
<1> QED
  BY <1>1 DEF LookupsArePlain

LEMMA UUIDOfIs ==
  ASSUME NEW level, NEW h \in Handle
  PROVE  UUIDOf(level, h) \in UUID /\ UUIDOf(level, h).bits # 32
<1>1. Declared \in UUID /\ Declared.bits = 16
  BY PeerAssumption DEF PeerAssumption
<1> QED
  BY <1>1, HandlesAre DEF UUIDOf

LEMMA VectorsIs ==
  ASSUME RemoteTypeOK
  PROVE  /\ cache = [svcs |-> cache.svcs, chrs |-> cache.chrs, dscs |-> cache.dscs]
         /\ cache.svcs \in Seq(Handle)
         /\ cache.chrs \in [Services -> Seq(Handle)] /\ cache.dscs \in [Characteristics -> Seq(Handle)]
         /\ \A s \in Services : cache.chrs[s] \in Seq(Handle)
         /\ \A c \in Characteristics : cache.dscs[c] \in Seq(Handle)
BY DEF RemoteTypeOK, Vectors

\* The vector in which a call looks.
LEMMA VectorIs ==
  ASSUME RemoteTypeOK, VectorsAreOf, NEW level \in {"svc", "chr", "dsc"}, NEW at,
         level = "chr" => at \in Services, level = "dsc" => at \in Characteristics
  PROVE  /\ Vector(level, at) \in Seq(Handle) /\ IsInjective(Vector(level, at))
         /\ ToSet(Vector(level, at)) \subseteq Handle
         /\ level = "svc" => Vector(level, at) = cache.svcs /\ ToSet(Vector(level, at)) \subseteq Services
         /\ level = "chr" => /\ Vector(level, at) = cache.chrs[at] /\ Asc(Vector(level, at))
                             /\ ToSet(Vector(level, at)) \subseteq CharacteristicsOf[at]
         /\ level = "dsc" => /\ Vector(level, at) = cache.dscs[at]
                             /\ at \notin blind => ToSet(Vector(level, at)) \subseteq Others(at)
<1>1. CASE level = "svc"
  BY <1>1, VectorsIs, Members DEF Vector, VectorsAreOf
<1>2. CASE level = "chr"
  <2>1. Vector(level, at) = cache.chrs[at] /\ cache.chrs[at] \in Seq(Handle)
    BY <1>2, VectorsIs DEF Vector
  <2>2. Asc(cache.chrs[at]) /\ ToSet(cache.chrs[at]) \subseteq CharacteristicsOf[at]
    BY <1>2 DEF VectorsAreOf
  <2>3. cache.chrs[at] \in Seq(Nat)
    BY <2>1, HandlesAre
  <2> QED
    BY <1>2, <2>1, <2>2, <2>3, AscIsInjective, Members
<1>3. CASE level = "dsc"
  BY <1>3, VectorsIs, Members DEF Vector, VectorsAreOf
<1> QED
  BY <1>1, <1>2, <1>3

\* The place of a call.
LEMMA PlaceLemma ==
  ASSUME VectorsAreOf, PlaceIs
  PROVE  /\ app.level = "chr" => app.at \in Services
         /\ app.level = "dsc" => app.at \in Characteristics /\ ServiceOf[app.at] \in Services
BY DEF PlaceIs, VectorsAreOf

LEMMA NoCallIs ==
  /\ NoCall \in [pc : {"idle"}, op : {"get"}, level : {"svc"}, at : {NoAttr}, uuid : {CCCD},
                 any : {FALSE}, again : {FALSE}, found : {NoAttr}, retry : {0},
                 long : {FALSE}, got : {0}, late : {FALSE}, goal : {"none"}, sub : {CCCD}, rc : {"ok"}]
  /\ NoCall \in Call
<1>1. CCCD \in UUID
  BY PeerAssumption DEF PeerAssumption
<1> QED
  BY <1>1 DEF NoCall, Call, Level

LEMMA ValueCallIs ==
  ASSUME NEW h \in Handle, NEW a, a = ReadOf(h) \/ \E long \in BOOLEAN : a = WriteOf(h, long)
  PROVE  /\ a \in Call /\ a.pc = "call" /\ a.op = "value" /\ a.level \in {"read", "write"}
         /\ a.at = h /\ a.uuid = CCCD /\ ~a.any /\ a.goal = "none"
         /\ a.sub = CCCD /\ a.got = 0
<1>1. PICK n \in 0..2 : n = 1
  OBVIOUS
<1>2. CASE a = ReadOf(h)
  <2>1. a = [NoCall EXCEPT !.pc = "call", !.op = "value", !.level = "read", !.at = h, !.retry = n]
    BY <1>1, <1>2, Zenon DEF ReadOf
  <2> QED
    BY <2>1, NoCallIs DEF Call, Level
<1>3. CASE \E long \in BOOLEAN : a = WriteOf(h, long)
  <2>1. PICK long \in BOOLEAN : a = WriteOf(h, long)
    BY <1>3
  <2>2. a = [NoCall EXCEPT !.pc = "call", !.op = "value", !.level = "write", !.at = h,
                           !.retry = n, !.long = long]
    BY <1>1, <2>1, Zenon DEF WriteOf
  <2> QED
    BY <2>2, NoCallIs DEF Call, Level
<1> QED
  BY <1>2, <1>3

\* A call has returned.
LEMMA IdleNow ==
  ASSUME LookupsArePlain, RemoteTypeOK', VectorsAreOf', app' = NoCall
  PROVE  RemoteInv'
<1>1. /\ app'.pc = "idle" /\ app'.op = "get" /\ app'.level = "svc" /\ app'.uuid = CCCD
      /\ app'.any = FALSE /\ app'.sub = CCCD
  BY NoCallIs
<1>2. Plain(CCCD)
  BY PlainsAre
<1>3. ~stk'.busy
  BY <1>1 DEF RemoteTypeOK
<1> QED
  BY <1>1, <1>2, <1>3 DEF RemoteInv, PlaceIs, AskedIs, TodoIs, NotYet, FoundIs, MissIs, DiscoverIs, Looking, Searching

\* A value is read or written.
LEMMA ValueNow ==
  ASSUME RemoteTypeOK', VectorsAreOf', AskedIs', PlaceIs', app'.op = "value"
  PROVE  RemoteInv'
<1>1. app'.level \in {"read", "write"}
  BY DEF AskedIs
<1> QED
  BY <1>1 DEF RemoteInv, TodoIs, NotYet, FoundIs, MissIs, DiscoverIs, Looking, Searching

\* The invariant after the beginning of a read or a write.
LEMMA ReadOfIs ==
  ASSUME LookupsArePlain, RemoteTypeOK, VectorsAreOf, cache' = cache, stk' = stk, blind' = blind, ~stk.busy,
         NEW h \in Handle, app' = ReadOf(h) \/ \E long \in BOOLEAN : app' = WriteOf(h, long)
  PROVE  RemoteInv'
<1>1. /\ app' \in Call /\ app'.pc = "call" /\ app'.op = "value" /\ app'.level \in {"read", "write"}
      /\ app'.at = h /\ app'.uuid = CCCD /\ ~app'.any /\ app'.goal = "none"
      /\ app'.sub = CCCD /\ app'.got = 0
  <2>1. PICK a : a = app'
    OBVIOUS
  <2>2. a = ReadOf(h) \/ \E long \in BOOLEAN : a = WriteOf(h, long)
    BY <2>1
  <2> QED
    BY <2>1, <2>2, ValueCallIs
<1>2. RemoteTypeOK'
  BY <1>1, PeerAssumption DEF RemoteTypeOK, PeerAssumption
<1>3. VectorsAreOf'
  BY DEF VectorsAreOf
<1>4. AskedIs' /\ PlaceIs'
  BY <1>1, PlainsAre DEF AskedIs, PlaceIs, Looking
<1> QED
  BY <1>1, <1>2, <1>3, <1>4, ValueNow

LEMMA ScopeIs ==
  ASSUME NEW level \in {"svc", "chr", "dsc"}, NEW at,
         level = "chr" => at \in Services, level = "dsc" => at \in Characteristics
  PROVE  ScopeOf(level, at) \subseteq Handle
<1>1. CASE level = "svc"
  BY <1>1, HandlesAre DEF ScopeOf
<1>2. CASE level = "chr"
  <2>1. ScopeOf(level, at) = {c \in Characteristics : ServiceOf[c] = at}
    BY <1>2 DEF ScopeOf, CharacteristicsOf
  <2> QED
    BY <2>1, HandlesAre
<1>3. CASE level = "dsc"
  <2>1. ScopeOf(level, at) = OwnDescriptors[at] /\ at \in Characteristics
    BY <1>3 DEF ScopeOf
  <2> QED
    BY <2>1, OwnIs
<1> QED
  BY <1>1, <1>2, <1>3

\* A lookup begins with the vector.
LEMMA LookupNow ==
  ASSUME RemoteTypeOK, VectorsAreOf, cache' = cache, stk' = stk, blind' = blind, ~stk.busy,
         app' \in Call, app'.pc \in {"call", "answer"}, app'.op \in {"get", "subscribe"},
         app'.op = "subscribe" => app'.level = "dsc" /\ app'.pc = "call",
         app'.level \in {"svc", "chr", "dsc"}, PlaceIs',
         Plain(app'.uuid), Plain(app'.sub),
         app'.level = "dsc" => app'.goal = "none" /\ ~Equal(Declared, app'.uuid),
         ~app'.any, ~app'.again, app'.got = 0,
         app'.found = Cached(app'.level, app'.at, app'.uuid),
         app'.pc = "call" <=> app'.found = NoAttr
  PROVE  RemoteInv'
<1>1. RemoteTypeOK'
  BY PeerAssumption DEF RemoteTypeOK, PeerAssumption
<1>2. VectorsAreOf'
  BY DEF VectorsAreOf
<1>3. PICK level, at, u : level = app'.level /\ at = app'.at /\ u = app'.uuid
  OBVIOUS
<1>4. level = "chr" => at \in Services
  BY <1>2, <1>3 DEF PlaceIs, VectorsAreOf
<1>5. level = "dsc" => at \in Characteristics
  BY <1>3 DEF PlaceIs
<1>6. Vector(level, at) \in Seq(Handle) /\ ToSet(Vector(level, at)) \subseteq Handle
  BY <1>3, <1>4, <1>5, VectorIs
<1>7. Vector(level, at)' = Vector(level, at)
  BY DEF Vector
<1>8. Vector(app.level, app.at)' = Vector(level, at)
  BY <1>3 DEF Vector
<1>9. u \in UUID
  BY <1>3 DEF Call
<1>10. AskedIs'
  BY <1>1 DEF AskedIs, Looking
<1>11. TodoIs'
  BY DEF TodoIs, Searching
<1>12. \/ /\ app'.found = NoAttr
          /\ \A h \in ToSet(Vector(level, at)) : ~Equal(UUIDOf(level, h), u)
       \/ /\ app'.found \in ToSet(Vector(level, at)) /\ app'.found # NoAttr
          /\ Equal(UUIDOf(level, app'.found), u)
  BY <1>3, <1>6, CachedIs
<1>13. NotYet'
  <2>1. ASSUME app'.found = NoAttr, NEW h \in ToSet(Vector(level, at))
        PROVE  UUIDOf(level, h) # u /\ UUIDOf(level, h) # OtherForm(u)
    <3>1. h \in Handle /\ ~Equal(UUIDOf(level, h), u)
      BY <1>6, <1>12, <2>1
    <3>2. UUIDOf(level, h) \in UUID /\ UUIDOf(level, h).bits # 32
      BY <3>1, UUIDOfIs
    <3> QED
      BY <1>3, <1>9, <3>1, <3>2, FormsAre
  <2> QED
    BY <1>3, <1>8, <2>1 DEF NotYet, VectorLacks
<1>14. FoundIs'
  BY <1>3, <1>8, <1>12 DEF FoundIs
<1>15. MissIs'
  <2>1. ScopeOf(level, at) \subseteq Handle
    BY <1>3, <1>4, <1>5, ScopeIs
  <2>2. ASSUME OtherForm(u) = u, NEW h \in ScopeOf(level, at), Equal(UUIDOf(level, h), u)
        PROVE  UUIDOf(level, h) = u
    <3>1. UUIDOf(level, h) \in UUID /\ UUIDOf(level, h).bits # 32
      BY <2>1, UUIDOfIs
    <3> QED
      BY <1>3, <1>9, <2>2, <3>1, FormsAre
  <2> QED
    BY <1>3, <2>2 DEF MissIs, LastForm, Scope
<1>16. DiscoverIs'
  BY DEF DiscoverIs
<1> QED
  BY <1>1, <1>2, <1>10, <1>11, <1>13, <1>14, <1>15, <1>16 DEF RemoteInv

LEMMA SoughtIs ==
  ASSUME NEW level \in {"svc", "chr", "dsc"}, NEW at \in Handle \cup {NoAttr}, NEW uuid \in UUID,
         NEW goal \in {"none", "read", "write"}, NEW sub \in UUID, NEW c \in Handle \cup {NoAttr},
         c = Cached(level, at, uuid), NEW a, a = Sought(level, at, uuid, goal, sub)
  PROVE  /\ a \in Call /\ a.pc = (IF c = NoAttr THEN "call" ELSE "answer") /\ a.op = "get"
         /\ a.level = level /\ a.at = at /\ a.uuid = uuid /\ a.found = c
         /\ a.goal = goal /\ a.sub = sub /\ ~a.any /\ ~a.again /\ a.got = 0
<1>1. PICK pc \in {"call", "answer"} : pc = IF c = NoAttr THEN "call" ELSE "answer"
  OBVIOUS
<1>2. a = [NoCall EXCEPT !.pc = pc, !.level = level, !.at = at, !.uuid = uuid, !.found = c,
                         !.goal = goal, !.sub = sub]
  BY <1>1, Zenon DEF Sought
<1>3. ASSUME NEW r \in Call PROVE [r EXCEPT !.pc = pc, !.level = level, !.at = at] \in Call
  BY <1>3 DEF Call, Level
<1>4. ASSUME NEW r \in Call PROVE [r EXCEPT !.uuid = uuid, !.found = c, !.goal = goal, !.sub = sub] \in Call
  BY <1>4 DEF Call
<1>5. [[NoCall EXCEPT !.pc = pc, !.level = level, !.at = at]
          EXCEPT !.uuid = uuid, !.found = c, !.goal = goal, !.sub = sub] \in Call
  BY <1>3, <1>4, NoCallIs
<1>6. a \in Call
  BY <1>2, <1>5
<1>7. /\ a.pc = pc /\ a.op = "get" /\ a.level = level /\ a.at = at /\ a.uuid = uuid /\ a.found = c
      /\ a.goal = goal /\ a.sub = sub /\ ~a.any /\ ~a.again /\ a.got = 0
  BY <1>2, NoCallIs DEF Call
<1> QED
  BY <1>1, <1>6, <1>7

\* The invariant after the beginning of a lookup.
LEMMA SoughtNow ==
  ASSUME RemoteTypeOK, VectorsAreOf, cache' = cache, stk' = stk, blind' = blind, ~stk.busy,
         NEW level \in {"svc", "chr", "dsc"}, NEW at \in Handle \cup {NoAttr},
         level = "chr" => at \in ToSet(cache.svcs),
         level = "dsc" => /\ at \in Characteristics /\ ServiceOf[at] \in ToSet(cache.svcs)
                          /\ at \in ToSet(cache.chrs[ServiceOf[at]]),
         NEW uuid \in UUID, NEW goal \in {"none", "read", "write"}, NEW sub \in UUID,
         Plain(uuid), Plain(sub), level = "dsc" => goal = "none" /\ ~Equal(Declared, uuid),
         app' = Sought(level, at, uuid, goal, sub)
  PROVE  RemoteInv'
<1>1. (level = "chr" => at \in Services) /\ (level = "dsc" => at \in Characteristics)
  BY DEF VectorsAreOf
<1>2. PICK c \in Handle \cup {NoAttr} : c = Cached(level, at, uuid)
  <2>1. Vector(level, at) \in Seq(Handle)
    BY <1>1, VectorIs
  <2> QED
    BY <2>1, CachedIs
<1>3. PICK a : a = app'
  OBVIOUS
<1>4. a = Sought(level, at, uuid, goal, sub)
  BY <1>3
<1>5. /\ a \in Call /\ a.pc = (IF c = NoAttr THEN "call" ELSE "answer") /\ a.op = "get"
      /\ a.level = level /\ a.at = at /\ a.uuid = uuid /\ a.found = c
      /\ a.goal = goal /\ a.sub = sub /\ ~a.any /\ ~a.again /\ a.got = 0
  BY <1>2, <1>4, SoughtIs
<1>6. PlaceIs'
  BY <1>3, <1>5 DEF PlaceIs
<1> QED
  BY <1>2, <1>3, <1>5, <1>6, LookupNow

\* The search of a vector that is empty.
LEMMA RefreshNow ==
  ASSUME RemoteTypeOK', VectorsAreOf', PlaceIs', DiscoverIs',
         app'.pc = "call", app'.op \in {"refresh", "discover"}, app'.any,
         app'.level \in {"svc", "chr", "dsc"}, app'.goal = "none", Plain(app'.uuid), Plain(app'.sub),
         (Vector(app.level, app.at) = << >>)'
  PROVE  RemoteInv'
<1>1. ~stk'.busy
  BY DEF RemoteTypeOK
<1>2. AskedIs'
  BY DEF AskedIs, Looking
<1>3. TodoIs' /\ NotYet' /\ FoundIs' /\ MissIs'
  BY <1>1 DEF TodoIs, Searching, NotYet, Looking, FoundIs, MissIs
<1> QED
  BY <1>2, <1>3 DEF RemoteInv

-----------------------------------------------------------------------------
(* The application's calls.                                                *)

LEMMA NothingIs ==
  /\ << >> \in Seq(Handle) /\ Asc(<< >>) /\ IsInjective(<< >>) /\ ToSet(<< >>) = {}
  /\ \A S : << >> \in Seq(S)
BY DEF Asc, IsInjective, ToSet

LEMMA EmptyIs ==
  /\ Empty \in Vectors /\ Empty.svcs = << >>
  /\ \A s \in Services : Empty.chrs[s] = << >>
  /\ \A c \in Characteristics : Empty.dscs[c] = << >>
BY NothingIs DEF Empty, Vectors

\* Vectors that lose objects, but no descriptors that stay are lost.
LEMMA ServiceKeepsLess ==
  ASSUME VectorsAreOf, blind' = blind,
         IsInjective(cache'.svcs), ToSet(cache'.svcs) \subseteq ToSet(cache.svcs),
         \A s \in Services : /\ Asc(cache'.chrs[s])
                             /\ ToSet(cache'.chrs[s]) \subseteq ToSet(cache.chrs[s]),
         \A c \in Characteristics : /\ IsInjective(cache'.dscs[c])
                                    /\ ToSet(cache'.dscs[c]) \subseteq ToSet(cache.dscs[c])
  PROVE  VectorsAreOf'
BY DEF VectorsAreOf

\* The vector of characteristics of s becomes v, and those of t lose their descriptors.
LEMMA KeepOnlyIs ==
  ASSUME RemoteTypeOK, VectorsAreOf, NEW s \in Services, NEW v \in Seq(Handle), NEW t \in Seq(Handle),
         Asc(v), ToSet(v) \subseteq ToSet(cache.chrs[s]), NEW k, k = KeepOnly(s, v, t)
  PROVE  /\ k \in Vectors /\ k.svcs = cache.svcs
         /\ k.chrs = [cache.chrs EXCEPT ![s] = v]
         /\ \A r \in Services : Asc(k.chrs[r]) /\ ToSet(k.chrs[r]) \subseteq ToSet(cache.chrs[r])
         /\ \A c \in Characteristics :
              IsInjective(k.dscs[c]) /\ ToSet(k.dscs[c]) \subseteq ToSet(cache.dscs[c])
<1>1. /\ cache.svcs \in Seq(Handle)
      /\ cache.chrs \in [Services -> Seq(Handle)] /\ cache.dscs \in [Characteristics -> Seq(Handle)]
  BY VectorsIs
<1>2. PICK x, d : /\ x = [cache.chrs EXCEPT ![s] = v]
                  /\ d = [c \in Characteristics |-> IF c \in ToSet(t) THEN << >> ELSE cache.dscs[c]]
  OBVIOUS
<1>4. k = [svcs |-> cache.svcs, chrs |-> x, dscs |-> d]
  BY <1>2 DEF KeepOnly
<1>5. k.svcs = cache.svcs /\ k.chrs = [cache.chrs EXCEPT ![s] = v] /\ k.dscs = d
  <2>1. k.svcs = cache.svcs /\ k.chrs = x /\ k.dscs = d
    BY <1>4
  <2> QED
    BY <1>2, <2>1
<1>6. d \in [Characteristics -> Seq(Handle)]
  BY <1>1, <1>2, NothingIs
<1>7. k.chrs \in [Services -> Seq(Handle)]
  BY <1>1, <1>5
<1>8. k \in Vectors
  BY <1>1, <1>4, <1>5, <1>6, <1>7 DEF Vectors
<1>9. \A r \in Services : Asc(k.chrs[r]) /\ ToSet(k.chrs[r]) \subseteq ToSet(cache.chrs[r])
  BY <1>1, <1>5 DEF VectorsAreOf
<1>10. ASSUME NEW c \in Characteristics
       PROVE  IsInjective(k.dscs[c]) /\ ToSet(k.dscs[c]) \subseteq ToSet(cache.dscs[c])
  <2>1. k.dscs[c] = << >> \/ k.dscs[c] = cache.dscs[c]
    BY <1>2, <1>5
  <2> QED
    BY <2>1, NothingIs DEF VectorsAreOf
<1> QED
  BY <1>5, <1>8, <1>9, <1>10

\* deleteServices(), deleteCharacteristics(), deleteDescriptors()
LEMMA DeletionsAre ==
  ASSUME RemoteTypeOK, VectorsAreOf, blind' = blind,
         \/ cache' = DeleteServices
         \/ \E s \in Services : cache' = DeleteCharacteristics(s)
         \/ \E c \in Characteristics : cache' = DeleteDescriptors(c)
  PROVE  VectorsAreOf' /\ cache' \in Vectors
<1>1. CASE cache' = DeleteServices
  BY <1>1, EmptyIs, NothingIs DEF DeleteServices, VectorsAreOf
<1>2. ASSUME NEW s \in Services, cache' = DeleteCharacteristics(s)
      PROVE  VectorsAreOf' /\ cache' \in Vectors
  <2>1. PICK k, v, t : k = cache' /\ v = << >> /\ t = cache.chrs[s]
    OBVIOUS
  <2>2. k = KeepOnly(s, v, t)
    BY <1>2, <2>1 DEF DeleteCharacteristics
  <2>3. v \in Seq(Handle) /\ t \in Seq(Handle) /\ Asc(v) /\ ToSet(v) \subseteq ToSet(cache.chrs[s])
    BY <2>1, VectorsIs, NothingIs
  <2>4. /\ k \in Vectors /\ k.svcs = cache.svcs
        /\ \A r \in Services : Asc(k.chrs[r]) /\ ToSet(k.chrs[r]) \subseteq ToSet(cache.chrs[r])
        /\ \A c \in Characteristics :
             IsInjective(k.dscs[c]) /\ ToSet(k.dscs[c]) \subseteq ToSet(cache.dscs[c])
    <3>1. k.svcs = cache.svcs
      BY <2>2 DEF KeepOnly
    <3>2. k \in Vectors
      BY <2>2, <2>3, KeepOnlyIs
    <3>3. \A r \in Services : Asc(k.chrs[r]) /\ ToSet(k.chrs[r]) \subseteq ToSet(cache.chrs[r])
      BY <2>2, <2>3, KeepOnlyIs
    <3>4. \A c \in Characteristics :
            IsInjective(k.dscs[c]) /\ ToSet(k.dscs[c]) \subseteq ToSet(cache.dscs[c])
      BY <2>2, <2>3, KeepOnlyIs
    <3> QED
      BY <3>1, <3>2, <3>3, <3>4
  <2> QED
    BY <2>1, <2>4, ServiceKeepsLess DEF VectorsAreOf
<1>3. ASSUME NEW c \in Characteristics, cache' = DeleteDescriptors(c)
      PROVE  VectorsAreOf' /\ cache' \in Vectors
  <2>1. /\ cache' \in Vectors /\ cache'.svcs = cache.svcs /\ cache'.chrs = cache.chrs
        /\ cache'.dscs = [cache.dscs EXCEPT ![c] = << >>]
    BY <1>3, VectorsIs, NothingIs DEF DeleteDescriptors, Vectors
  <2>2. ASSUME NEW e \in Characteristics
        PROVE  IsInjective(cache'.dscs[e]) /\ ToSet(cache'.dscs[e]) \subseteq ToSet(cache.dscs[e])
    <3>1. cache'.dscs[e] = << >> \/ cache'.dscs[e] = cache.dscs[e]
      BY <2>1, VectorsIs
    <3> QED
      BY <3>1, NothingIs DEF VectorsAreOf
  <2> QED
    BY <2>1, <2>2, ServiceKeepsLess DEF VectorsAreOf
<1> QED
  BY <1>1, <1>2, <1>3

\* What the application holds are objects of the client.
LEMMA KnownIs ==
  ASSUME RemoteTypeOK, VectorsAreOf, NEW level \in {"svc", "chr", "dsc"}, NEW at \in Known(level)
  PROVE  /\ at \in Handle \cup {NoAttr}
         /\ level = "svc" => at = NoAttr
         /\ level = "chr" => at \in ToSet(cache.svcs) /\ at \in Services
         /\ level = "dsc" => /\ at \in Characteristics /\ ServiceOf[at] \in ToSet(cache.svcs)
                             /\ ServiceOf[at] \in Services
                             /\ at \in ToSet(cache.chrs[ServiceOf[at]])
<1>1. CASE level = "svc"
  BY <1>1 DEF Known
<1>2. CASE level = "chr"
  BY <1>2, HandlesAre DEF Known, VectorsAreOf
<1>3. CASE level = "dsc"
  <2>1. PICK s \in ToSet(cache.svcs) : at \in ToSet(cache.chrs[s])
    BY <1>3 DEF Known
  <2>2. s \in Services /\ at \in CharacteristicsOf[s]
    BY <2>1 DEF VectorsAreOf
  <2>3. at \in Characteristics /\ ServiceOf[at] = s
    BY <2>2 DEF CharacteristicsOf
  <2> QED
    BY <1>3, <2>1, <2>2, <2>3, HandlesAre
<1> QED
  BY <1>1, <1>2, <1>3

LEMMA CallNowIs ==
  ASSUME NEW op \in {"refresh", "discover", "subscribe"}, NEW level \in {"svc", "chr", "dsc"},
         NEW at \in Handle \cup {NoAttr}, NEW any \in BOOLEAN, CallNow(op, level, at, CCCD, any)
  PROVE  /\ app' \in Call /\ app'.pc = "call" /\ app'.op = op /\ app'.level = level /\ app'.at = at
         /\ app'.uuid = CCCD /\ app'.sub = CCCD /\ (app'.any <=> any) /\ app'.goal = "none"
         /\ app'.found = NoAttr /\ ~app'.again /\ app'.got = 0
<1>1. CCCD \in UUID
  BY PeerAssumption DEF PeerAssumption
<1>2. app' = [NoCall EXCEPT !.pc = "call", !.op = op, !.level = level, !.at = at,
                            !.uuid = CCCD, !.any = any]
  BY DEF CallNow
<1> QED
  BY <1>1, <1>2, NoCallIs DEF Call, Level

\* Between two calls
LEMMA FreeIs ==
  ASSUME RemoteInv, Free
  PROVE  ~stk.busy /\ RemoteTypeOK /\ VectorsAreOf
BY DEF RemoteInv, RemoteTypeOK, Free

\* All is sought again: the vector that will be filled is empty.
LEMMA RefreshStep ==
  ASSUME LookupsArePlain, RemoteInv,
         \/ DiscoverAttributes
         \/ \E level \in {"svc", "chr", "dsc"} : \E at \in Known(level) : Refresh(level, at)
  PROVE  RemoteInv'
<1>0. PICK op \in {"refresh", "discover"}, level \in {"svc", "chr", "dsc"} :
        \E at \in Known(level) :
          /\ Free /\ CallNow(op, level, at, CCCD, TRUE) /\ stk' = stk /\ blind' = blind
          /\ level = "svc" => cache' = DeleteServices
          /\ level = "chr" => cache' = DeleteCharacteristics(at)
          /\ level = "dsc" => cache' = DeleteDescriptors(at)
          /\ op = "discover" => level = "svc"
  <2>1. CASE DiscoverAttributes
    BY <2>1 DEF DiscoverAttributes, Known
  <2>2. CASE \E level \in {"svc", "chr", "dsc"} : \E at \in Known(level) : Refresh(level, at)
    BY <2>2 DEF Refresh
  <2> QED
    BY <2>1, <2>2
<1>1. PICK at \in Known(level) :
        /\ Free /\ CallNow(op, level, at, CCCD, TRUE) /\ stk' = stk /\ blind' = blind
        /\ level = "svc" => cache' = DeleteServices
        /\ level = "chr" => cache' = DeleteCharacteristics(at)
        /\ level = "dsc" => cache' = DeleteDescriptors(at)
        /\ op = "discover" => level = "svc"
  BY <1>0
<1>2. /\ ~stk.busy /\ RemoteTypeOK /\ VectorsAreOf
  BY <1>1, FreeIs
<1>3. /\ at \in Handle \cup {NoAttr}
      /\ level = "chr" => at \in ToSet(cache.svcs) /\ at \in Services
      /\ level = "dsc" => /\ at \in Characteristics /\ ServiceOf[at] \in ToSet(cache.svcs)
                          /\ at \in ToSet(cache.chrs[ServiceOf[at]])
  BY <1>1, <1>2, KnownIs
<1>4. /\ app' \in Call /\ app'.pc = "call" /\ app'.op = op /\ app'.level = level /\ app'.at = at
      /\ app'.uuid = CCCD /\ app'.sub = CCCD /\ app'.any /\ app'.goal = "none" /\ app'.got = 0
  BY <1>1, <1>3, CallNowIs
<1>5. VectorsAreOf' /\ cache' \in Vectors
  BY <1>1, <1>2, <1>3, DeletionsAre
<1>6. RemoteTypeOK'
  BY <1>1, <1>2, <1>4, <1>5, PeerAssumption DEF RemoteTypeOK, PeerAssumption
<1>7. /\ level = "svc" => /\ cache'.svcs = << >> /\ \A s \in Services : cache'.chrs[s] = << >>
                          /\ \A c \in Characteristics : cache'.dscs[c] = << >>
      /\ level = "chr" => cache'.svcs = cache.svcs /\ cache'.chrs[at] = << >>
      /\ level = "dsc" => /\ cache'.svcs = cache.svcs /\ cache'.chrs = cache.chrs
                          /\ cache'.dscs[at] = << >>
  <2>1. CASE level = "svc"
    BY <1>1, <2>1, EmptyIs DEF DeleteServices
  <2>2. CASE level = "chr"
    <3>1. cache'.svcs = cache.svcs
      BY <1>1, <2>2 DEF DeleteCharacteristics, KeepOnly
    <3>2. cache'.chrs = [cache.chrs EXCEPT ![at] = << >>]
      BY <1>1, <2>2 DEF DeleteCharacteristics, KeepOnly
    <3> QED
      BY <1>2, <1>3, <2>2, <3>1, <3>2, VectorsIs
  <2>3. CASE level = "dsc"
    BY <1>1, <1>2, <1>3, <2>3, VectorsIs DEF DeleteDescriptors
  <2> QED
    BY <2>1, <2>2, <2>3
<1>8. PlaceIs'
  BY <1>3, <1>4, <1>7 DEF PlaceIs
<1>9. (Vector(app.level, app.at) = << >>)'
  BY <1>4, <1>7 DEF Vector
<1>10. DiscoverIs'
  BY <1>1, <1>2, <1>4, <1>7, NothingIs DEF DiscoverIs
<1> QED
  BY <1>4, <1>5, <1>6, <1>8, <1>9, <1>10, PlainsAre, RefreshNow

\* A deletion between calls leaves the other vectors as they are.
LEMMA DeleteOneStep ==
  ASSUME LookupsArePlain, RemoteInv,
         \/ \E uuid \in Lookups["svc"] : DeleteService(uuid)
         \/ \E s \in Known("chr") : \E uuid \in Lookups["chr"] : DeleteCharacteristic(s, uuid)
         \/ \E c \in Known("dsc") : \E uuid \in Lookups["dsc"] : DeleteDescriptor(c, uuid)
  PROVE  RemoteInv'
<1>1. /\ Free /\ app' = NoCall /\ stk' = stk /\ blind' = blind
  BY DEF DeleteService, DeleteCharacteristic, DeleteDescriptor
<1>2. ~stk.busy /\ RemoteTypeOK /\ VectorsAreOf
  BY <1>1, FreeIs
<1>3. ASSUME NEW s \in Seq(Handle), IsInjective(s), NEW D
      PROVE  /\ Kept(s, D) \in Seq(Handle) /\ IsInjective(Kept(s, D))
             /\ ToSet(Kept(s, D)) \subseteq ToSet(s)
  BY <1>3, KeptIs
<1>4. ASSUME NEW uuid \in Lookups["svc"], DeleteService(uuid)
      PROVE  VectorsAreOf' /\ cache' \in Vectors
  <2>1. PICK s : /\ s = Cached("svc", NoAttr, uuid) /\ s # NoAttr
                 /\ cache' = [DeleteCharacteristics(s) EXCEPT !.svcs = Kept(@, {s})]
    BY <1>4 DEF DeleteService
  <2>2. s \in ToSet(cache.svcs) /\ s \in Services
    BY <1>2, <2>1, VectorIs, CachedIs
  <2>3. PICK k, v, t : k = DeleteCharacteristics(s) /\ v = << >> /\ t = cache.chrs[s]
    OBVIOUS
  <2>4. k = KeepOnly(s, v, t)
    BY <2>3 DEF DeleteCharacteristics
  <2>5. v \in Seq(Handle) /\ t \in Seq(Handle) /\ Asc(v) /\ ToSet(v) \subseteq ToSet(cache.chrs[s])
    BY <1>2, <2>2, <2>3, VectorsIs, NothingIs
  <2>6. k.svcs = cache.svcs /\ k \in Vectors
    <3>1. k.svcs = cache.svcs
      BY <2>4 DEF KeepOnly
    <3>2. k \in Vectors
      BY <1>2, <2>2, <2>4, <2>5, KeepOnlyIs
    <3> QED
      BY <3>1, <3>2
  <2>7. /\ \A r \in Services : Asc(k.chrs[r]) /\ ToSet(k.chrs[r]) \subseteq ToSet(cache.chrs[r])
        /\ \A c \in Characteristics :
             IsInjective(k.dscs[c]) /\ ToSet(k.dscs[c]) \subseteq ToSet(cache.dscs[c])
    BY <1>2, <2>2, <2>4, <2>5, KeepOnlyIs
  <2>8. PICK w : w = Kept(cache.svcs, {s})
    OBVIOUS
  <2>9. w \in Seq(Handle) /\ IsInjective(w) /\ ToSet(w) \subseteq ToSet(cache.svcs)
    <3>1. cache.svcs \in Seq(Handle) /\ IsInjective(cache.svcs)
      BY <1>2, VectorsIs DEF VectorsAreOf
    <3> QED
      BY <1>3, <2>8, <3>1
  <2>10. cache' = [k EXCEPT !.svcs = w]
    BY <2>1, <2>3, <2>6, <2>8
  <2>11. cache' \in Vectors /\ cache'.svcs = w /\ cache'.chrs = k.chrs /\ cache'.dscs = k.dscs
    BY <2>6, <2>9, <2>10 DEF Vectors
  <2> QED
    BY <1>1, <1>2, <2>7, <2>9, <2>11, ServiceKeepsLess
<1>5. ASSUME NEW s \in Known("chr"), NEW uuid \in Lookups["chr"], DeleteCharacteristic(s, uuid)
      PROVE  VectorsAreOf' /\ cache' \in Vectors
  <2>1. s \in Services
    BY <1>2, KnownIs
  <2>2. cache.chrs[s] \in Seq(Handle) /\ Asc(cache.chrs[s])
    BY <1>2, <2>1, VectorsIs DEF VectorsAreOf
  <2>3. PICK c : /\ c = Cached("chr", s, uuid) /\ c # NoAttr
                 /\ cache' = KeepOnly(s, Kept(cache.chrs[s], {c}), <<c>>)
    BY <1>5 DEF DeleteCharacteristic
  <2>4. c \in Handle
    BY <1>2, <2>1, <2>3, VectorIs, CachedIs
  <2>5. PICK k, v, t : k = cache' /\ v = Kept(cache.chrs[s], {c}) /\ t = <<c>>
    OBVIOUS
  <2>6. v \in Seq(Handle) /\ t \in Seq(Handle) /\ Asc(v) /\ ToSet(v) \subseteq ToSet(cache.chrs[s])
    BY <2>2, <2>4, <2>5, KeptAsc
  <2>7. k = KeepOnly(s, v, t)
    BY <2>3, <2>5
  <2>8. k.svcs = cache.svcs
    BY <2>7 DEF KeepOnly
  <2>9. k \in Vectors
    BY <1>2, <2>1, <2>6, <2>7, KeepOnlyIs
  <2>10. /\ \A r \in Services : Asc(k.chrs[r]) /\ ToSet(k.chrs[r]) \subseteq ToSet(cache.chrs[r])
         /\ \A e \in Characteristics :
              IsInjective(k.dscs[e]) /\ ToSet(k.dscs[e]) \subseteq ToSet(cache.dscs[e])
    BY <1>2, <2>1, <2>6, <2>7, KeepOnlyIs
  <2> QED
    BY <1>1, <1>2, <2>5, <2>8, <2>9, <2>10, ServiceKeepsLess DEF VectorsAreOf
<1>6. ASSUME NEW c \in Known("dsc"), NEW uuid \in Lookups["dsc"], DeleteDescriptor(c, uuid)
      PROVE  VectorsAreOf' /\ cache' \in Vectors
  <2>1. c \in Characteristics
    BY <1>2, KnownIs
  <2>2. PICK d, w : w = Kept(cache.dscs[c], {d}) /\ cache' = [cache EXCEPT !.dscs[c] = w]
    BY <1>6 DEF DeleteDescriptor
  <2>3. w \in Seq(Handle) /\ IsInjective(w) /\ ToSet(w) \subseteq ToSet(cache.dscs[c])
    <3>1. cache.dscs[c] \in Seq(Handle) /\ IsInjective(cache.dscs[c])
      BY <1>2, <2>1, VectorsIs DEF VectorsAreOf
    <3> QED
      BY <1>3, <2>2, <3>1
  <2>4. /\ cache' \in Vectors /\ cache'.svcs = cache.svcs /\ cache'.chrs = cache.chrs
        /\ cache'.dscs = [cache.dscs EXCEPT ![c] = w]
    BY <1>2, <2>1, <2>2, <2>3, VectorsIs DEF Vectors
  <2>5. ASSUME NEW e \in Characteristics
        PROVE  IsInjective(cache'.dscs[e]) /\ ToSet(cache'.dscs[e]) \subseteq ToSet(cache.dscs[e])
    <3>1. cache'.dscs[e] = IF e = c THEN w ELSE cache.dscs[e]
      BY <1>2, <2>1, <2>4, VectorsIs
    <3> QED
      BY <1>2, <2>3, <3>1 DEF VectorsAreOf
  <2> QED
    BY <1>1, <1>2, <2>4, <2>5, ServiceKeepsLess DEF VectorsAreOf
<1>7. VectorsAreOf' /\ cache' \in Vectors
  BY <1>4, <1>5, <1>6
<1>8. RemoteTypeOK'
  BY <1>1, <1>2, <1>7, NoCallIs, PeerAssumption DEF RemoteTypeOK, PeerAssumption
<1> QED
  BY <1>1, <1>7, <1>8, IdleNow

\* A lookup answers from its vector, or begins to search for what the vector lacks.
LEMMA LookupStep ==
  ASSUME LookupsArePlain, RemoteInv,
         \/ \E level \in {"svc", "chr", "dsc"} : \E at \in Known(level) :
              \E uuid \in Lookups[level] : Get(level, at, uuid)
         \/ \E svc \in Lookups["svc"], chr \in Lookups["chr"] :
              ClientGetValue(svc, chr) \/ ClientSetValue(svc, chr)
         \/ \E s \in Known("chr") : \E chr \in Lookups["chr"] :
              ServiceGetValue(s, chr) \/ ServiceSetValue(s, chr)
  PROVE  RemoteInv'
<1>1. Free /\ cache' = cache /\ stk' = stk /\ blind' = blind
  BY DEF Get, ClientGetValue, ClientSetValue, ServiceGetValue, ServiceSetValue
<1>2. ~stk.busy /\ RemoteTypeOK /\ VectorsAreOf
  BY <1>1, FreeIs
<1>3. ASSUME NEW level \in {"svc", "chr", "dsc"}, NEW at \in Known(level), NEW uuid \in UUID,
             NEW goal \in {"none", "read", "write"}, NEW sub \in UUID, Plain(uuid), Plain(sub),
             level = "dsc" => goal = "none" /\ ~Equal(Declared, uuid),
             app' = Sought(level, at, uuid, goal, sub)
      PROVE  RemoteInv'
  <2>1. /\ at \in Handle \cup {NoAttr}
        /\ level = "chr" => at \in ToSet(cache.svcs)
        /\ level = "dsc" => /\ at \in Characteristics /\ ServiceOf[at] \in ToSet(cache.svcs)
                            /\ at \in ToSet(cache.chrs[ServiceOf[at]])
    BY <1>2, <1>3, KnownIs
  <2> QED
    BY <1>1, <1>2, <1>3, <2>1, SoughtNow
<1>4. ASSUME NEW level \in {"svc", "chr", "dsc"}, NEW at \in Known(level), NEW uuid \in Lookups[level],
             Get(level, at, uuid)
      PROVE  RemoteInv'
  <2>1. /\ uuid \in UUID /\ CCCD \in UUID /\ Plain(uuid) /\ Plain(CCCD)
        /\ level = "dsc" => ~Equal(Declared, uuid)
        /\ app' = Sought(level, at, uuid, "none", CCCD)
    BY <1>4, PlainsAre DEF Get
  <2> QED
    BY <1>3, <2>1
<1>5. ASSUME NEW svc \in Lookups["svc"], NEW chr \in Lookups["chr"],
             ClientGetValue(svc, chr) \/ ClientSetValue(svc, chr)
      PROVE  RemoteInv'
  <2>1. /\ svc \in UUID /\ chr \in UUID /\ Plain(svc) /\ Plain(chr) /\ NoAttr \in Known("svc")
        /\ \E goal \in {"read", "write"} : app' = Sought("svc", NoAttr, svc, goal, chr)
    BY <1>5, PlainsAre DEF ClientGetValue, ClientSetValue, Known
  <2> QED
    BY <1>3, <2>1
<1>6. ASSUME NEW s \in Known("chr"), NEW chr \in Lookups["chr"],
             ServiceGetValue(s, chr) \/ ServiceSetValue(s, chr)
      PROVE  RemoteInv'
  <2>1. /\ chr \in UUID /\ CCCD \in UUID /\ Plain(chr) /\ Plain(CCCD)
        /\ \E goal \in {"read", "write"} : app' = Sought("chr", s, chr, goal, CCCD)
    BY <1>6, PlainsAre DEF ServiceGetValue, ServiceSetValue
  <2> QED
    BY <1>3, <2>1
<1> QED
  BY <1>4, <1>5, <1>6

\* A lookup of the CCCD, or a write to it.
LEMMA SetNotifyStep ==
  ASSUME LookupsArePlain, RemoteInv, NEW c \in Known("dsc"), SetNotify(c)
  PROVE  RemoteInv'
<1>1. Free /\ cache' = cache /\ stk' = stk /\ blind' = blind
  BY DEF SetNotify
<1>2. ~stk.busy /\ RemoteTypeOK /\ VectorsAreOf
  BY <1>1, FreeIs
<1>3. /\ c \in Handle /\ c \in Characteristics /\ ServiceOf[c] \in ToSet(cache.svcs)
      /\ c \in ToSet(cache.chrs[ServiceOf[c]])
  BY <1>2, KnownIs, HandlesAre
<1>4. PICK d : d = Cached("dsc", c, CCCD)
  OBVIOUS
<1>5. d = NoAttr \/ d \in Handle
  <2>1. Vector("dsc", c) \in Seq(Handle)
    BY <1>2, <1>3, VectorIs
  <2> QED
    BY <1>4, <2>1, CachedIs
<1>6. CASE d # NoAttr
  <2>1. app' = WriteOf(d, FALSE)
    BY <1>4, <1>6 DEF SetNotify
  <2> QED
    BY <1>1, <1>2, <1>5, <1>6, <2>1, ReadOfIs
<1>7. CASE d = NoAttr
  <2>1. CallNow("subscribe", "dsc", c, CCCD, FALSE)
    BY <1>4, <1>7 DEF SetNotify
  <2>2. /\ app' \in Call /\ app'.pc = "call" /\ app'.op = "subscribe" /\ app'.level = "dsc" /\ app'.at = c
        /\ app'.uuid = CCCD /\ app'.sub = CCCD /\ ~app'.any /\ app'.goal = "none"
        /\ app'.found = NoAttr /\ ~app'.again /\ app'.got = 0
    BY <1>3, <2>1, CallNowIs
  <2>3. PlaceIs'
    BY <1>1, <1>3, <2>2 DEF PlaceIs
  <2>4. app'.found = Cached(app'.level, app'.at, app'.uuid)
    BY <1>4, <1>7, <2>2
  <2> QED
    BY <1>1, <1>2, <2>2, <2>3, <2>4, PlainsAre, LookupNow
<1> QED
  BY <1>6, <1>7

LEMMA ValueStep ==
  ASSUME LookupsArePlain, RemoteInv,
         \E c \in Known("dsc") : \/ ReadValue(ValueHandle(c))
                                 \/ \E long \in BOOLEAN : WriteValue(ValueHandle(c), long)
  PROVE  RemoteInv'
<1>1. PICK c \in Known("dsc") : \/ ReadValue(ValueHandle(c))
                                \/ \E long \in BOOLEAN : WriteValue(ValueHandle(c), long)
  OBVIOUS
<1>2. /\ Free /\ cache' = cache /\ stk' = stk /\ blind' = blind
      /\ app' = ReadOf(ValueHandle(c)) \/ \E long \in BOOLEAN : app' = WriteOf(ValueHandle(c), long)
  BY <1>1 DEF ReadValue, WriteValue
<1>3. ~stk.busy /\ RemoteTypeOK /\ VectorsAreOf
  BY <1>2, FreeIs
<1>4. ValueHandle(c) \in Handle
  BY <1>3, KnownIs, ValueIs DEF ValueHandle
<1> QED
  BY <1>2, <1>3, <1>4, ReadOfIs

LEMMA ReconnectStep ==
  ASSUME LookupsArePlain, RemoteInv, NEW delete \in BOOLEAN, Reconnect(delete)
  PROVE  RemoteInv'
<1>1. ~stk.busy /\ RemoteTypeOK /\ VectorsAreOf
  BY FreeIs DEF Reconnect
<1>2. VectorsAreOf' /\ cache' \in Vectors
  <2>1. CASE delete
    BY <1>1, <2>1, DeletionsAre DEF Reconnect
  <2>2. CASE ~delete
    BY <1>1, <2>2 DEF Reconnect, VectorsAreOf, RemoteTypeOK
  <2> QED
    BY <2>1, <2>2
<1>3. RemoteTypeOK'
  <2>1. app' = NoCall /\ blind' = blind /\ stk' = [stk EXCEPT !.up = TRUE]
    BY DEF Reconnect
  <2>2. stk' \in Stack /\ ~stk'.busy
    BY <1>1, <2>1 DEF RemoteTypeOK, Stack
  <2> QED
    BY <1>1, <1>2, <2>1, <2>2, NoCallIs, PeerAssumption DEF RemoteTypeOK, PeerAssumption
<1> QED
  BY <1>2, <1>3, IdleNow DEF Reconnect

LEMMA AppCallStep ==
  ASSUME LookupsArePlain, RemoteInv, AppCall
  PROVE  RemoteInv'
BY RefreshStep, DeleteOneStep, LookupStep, SetNotifyStep, ValueStep, ReconnectStep DEF AppCall

-----------------------------------------------------------------------------
(* The steps of a search.                                                  *)

\* A step of a call that goes on where it is.
SameCall ==
  /\ cache' = cache /\ app' \in Call /\ app.pc # "idle" /\ app'.pc # "idle"
  /\ app'.op = app.op /\ app'.level = app.level /\ app'.at = app.at /\ app'.uuid = app.uuid
  /\ app'.any = app.any /\ app'.again = app.again /\ app'.found = app.found /\ app'.late = app.late
  /\ app'.retry = app.retry /\ app'.goal = app.goal /\ app'.sub = app.sub

\* What SameCall leaves to show.
LEMMA SameCallLemma ==
  ASSUME RemoteInv, RemoteTypeOK', SameCall, blind \subseteq blind',
         app'.pc \in {"count", "wait", "woken", "answer"}, app'.pc = "answer" => app.op = "get",
         app.op = "discover" /\ app.level = "svc" =>
           (stk'.busy => \A s \in ToSet(cache.svcs), h \in ToSet(stk'.todo) : s < h),
         TodoIs', MissIs'
  PROVE  RemoteInv'
<1>1. Vector(app.level, app.at)' = Vector(app.level, app.at)
  BY DEF Vector, SameCall
<1>2. VectorsAreOf'
  BY DEF RemoteInv, VectorsAreOf, SameCall
<1>3. PlaceIs'
  BY DEF RemoteInv, PlaceIs, SameCall
<1>4. AskedIs'
  BY DEF RemoteInv, AskedIs, SameCall, Looking
<1>5. NotYet'
  BY <1>1 DEF RemoteInv, NotYet, SameCall, Looking, VectorLacks
<1>6. FoundIs'
  BY <1>1 DEF RemoteInv, FoundIs, SameCall, Looking
<1>7. DiscoverIs'
  BY DEF RemoteInv, DiscoverIs, SameCall, Behind
<1> QED
  BY <1>2, <1>3, <1>4, <1>5, <1>6, <1>7 DEF RemoteInv

\* A search has ended, or a call whose search had ended goes on.
LEMMA EndedLemma ==
  ASSUME RemoteInv, RemoteTypeOK', SameCall, blind' = blind, ~stk'.busy,
         app'.pc \in {"count", "woken", "answer"}, app'.pc = "answer" => app.op = "get",
         app'.rc = "ok" =>
            \/ stk.busy /\ stk.todo = << >>
            \/ ~stk.busy /\ app.pc \in {"count", "woken", "answer"} /\ app.rc = "ok"
            \/ app.level = "dsc" /\ OwnDescriptors[app.at] = {},
         app'.pc = "answer" /\ app'.rc = "ok" /\ app.found = NoAttr => LastForm
  PROVE  RemoteInv'
<1>1. TodoIs'
  BY DEF TodoIs, Searching
<1>2. MissIs'
  <2>1. ASSUME Looking, app.found = NoAttr, app.level = "dsc" => app.at \notin blind /\ ~app.late,
               app'.rc = "ok", NEW h \in Scope
        PROVE  UUIDOf(app.level, h) # app.uuid
    <3>1. MissIs
      BY DEF RemoteInv
    <3>2. CASE stk.busy /\ stk.todo = << >>
      BY <2>1, <3>1, <3>2, NothingIs DEF MissIs
    <3>3. CASE ~stk.busy /\ app.pc \in {"count", "woken", "answer"} /\ app.rc = "ok"
      BY <2>1, <3>1, <3>3 DEF MissIs
    <3>4. CASE app.level = "dsc" /\ OwnDescriptors[app.at] = {}
      BY <2>1, <3>4 DEF Scope, ScopeOf
    <3> QED
      BY <2>1, <3>2, <3>3, <3>4
  <2>2. Looking' => Looking
    BY DEF Looking, SameCall
  <2>3. Scope' = Scope /\ (LastForm' <=> LastForm)
    BY DEF Scope, LastForm, SameCall
  <2>4. MissIs
    BY DEF RemoteInv
  <2> QED
    BY <2>1, <2>2, <2>3, <2>4 DEF MissIs, SameCall
<1> QED
  BY <1>1, <1>2, SameCallLemma

\* What retrieveServices(), retrieveCharacteristics() and retrieveDescriptors() ask for
LEMMA ResultsAre ==
  ASSUME RemoteInv, app.pc = "call", app.level \in {"svc", "chr", "dsc"}
  PROVE  /\ Results \in Seq(Handle) /\ Asc(Results)
         /\ \A h \in ToSet(Results) : Exactly(h) => h \notin ToSet(Vector(app.level, app.at))
         /\ app.level = "svc" => \A h \in ToSet(Results) : h \in Services /\ Exactly(h)
         /\ app.level = "chr" => \A h \in ToSet(Results) : h \in CharacteristicsOf[app.at] /\ Exactly(h)
         /\ app.level = "dsc" /\ app.at \notin Blind => ToSet(Results) \subseteq Others(app.at)
         /\ (app.level = "dsc" => app.at \notin Blind) =>
              \A h \in Scope : Exactly(h) => h \in ToSet(Results)
<1>1. RemoteTypeOK /\ VectorsAreOf /\ PlaceIs /\ AskedIs /\ NotYet
  BY DEF RemoteInv
<1>2. /\ app.level = "chr" => app.at \in Services
      /\ app.level = "dsc" => /\ app.at \in Characteristics /\ ServiceOf[app.at] \in Services
                              /\ app.at \in ToSet(cache.chrs[ServiceOf[app.at]])
  BY <1>1 DEF PlaceIs, VectorsAreOf
<1>3. \A h \in ToSet(Vector(app.level, app.at)) : ~Exactly(h)
  <2>1. CASE app.op \in {"refresh", "discover"}
    BY <1>1, <2>1, NothingIs DEF NotYet
  <2>2. CASE app.op \in {"get", "subscribe"}
    <3>1. Looking /\ app.found = NoAttr /\ ~app.any
      BY <1>1, <2>2 DEF AskedIs, Looking, RemoteTypeOK, Call
    <3> QED
      BY <1>1, <3>1 DEF NotYet, VectorLacks, Exactly
  <2>3. app.op \in {"refresh", "discover", "get", "subscribe"}
    BY <1>1 DEF AskedIs, RemoteTypeOK, Call
  <2> QED
    BY <2>1, <2>2, <2>3
<1>4. CASE app.level = "svc"
  <2>1. PICK S : S = {s \in Services : Exactly(s)}
    OBVIOUS
  <2>2. S \in SUBSET Handle /\ Results = Ascending(S)
    BY <1>4, <2>1, HandlesAre DEF Results, RetrieveServices
  <2>3. Results \in Seq(Handle) /\ Asc(Results) /\ ToSet(Results) = S
    BY <2>2, AscendingIs
  <2> QED
    BY <1>3, <1>4, <2>1, <2>3 DEF Scope, ScopeOf
<1>5. CASE app.level = "chr"
  <2>1. PICK S : S = {c \in CharacteristicsOf[app.at] : Exactly(c)}
    OBVIOUS
  <2>2. CharacteristicsOf[app.at] \subseteq Handle
    BY <1>2, <1>5, HandlesAre DEF CharacteristicsOf
  <2>3. S \in SUBSET Handle /\ Results = Ascending(S)
    BY <1>5, <2>1, <2>2 DEF Results, RetrieveCharacteristics
  <2>4. Results \in Seq(Handle) /\ Asc(Results) /\ ToSet(Results) = S
    BY <2>3, AscendingIs
  <2> QED
    BY <1>3, <1>5, <2>1, <2>4 DEF Scope, ScopeOf
<1>6. CASE app.level = "dsc"
  <2>1. /\ app.at \in Characteristics /\ ServiceOf[app.at] \in Services
        /\ app.at \in ToSet(cache.chrs[ServiceOf[app.at]])
        /\ cache.chrs[ServiceOf[app.at]] \in Seq(Handle) /\ Asc(cache.chrs[ServiceOf[app.at]])
        /\ ToSet(cache.chrs[ServiceOf[app.at]]) \subseteq CharacteristicsOf[ServiceOf[app.at]]
    BY <1>1, <1>2, <1>6, VectorsIs DEF VectorsAreOf
  <2>2. PICK S : S = ValueHandle(app.at) + 1 .. SearchEnd(app.at)
    OBVIOUS
  <2>3. /\ S \in SUBSET Handle
        /\ ToSet(cache.chrs[ServiceOf[app.at]]) = CharacteristicsOf[ServiceOf[app.at]] =>
             S \subseteq Others(app.at) /\ OwnDescriptors[app.at] \subseteq S
    BY <2>1, <2>2, RangeIs DEF Others
  <2>4. Results = Ascending(S)
    BY <1>6, <2>2 DEF Results
  <2>5. Results \in Seq(Handle) /\ Asc(Results) /\ ToSet(Results) = S
    BY <2>3, <2>4, AscendingIs
  <2>6. app.at \notin Blind =>
          ToSet(cache.chrs[ServiceOf[app.at]]) = CharacteristicsOf[ServiceOf[app.at]]
    BY <1>6 DEF Blind
  <2> QED
    BY <1>3, <1>6, <2>3, <2>5, <2>6 DEF Scope, ScopeOf
<1> QED
  BY <1>4, <1>5, <1>6

LEMMA AppIs ==
  ASSUME RemoteTypeOK
  PROVE  /\ app.pc \in {"idle", "call", "count", "wait", "woken", "secure", "answer"}
         /\ app.op \in {"get", "refresh", "discover", "subscribe", "value"}
         /\ app.level \in {"svc", "chr", "dsc", "read", "write"}
         /\ app.at \in Handle \cup {NoAttr} /\ app.uuid \in UUID /\ app.any \in BOOLEAN
         /\ app.again \in BOOLEAN /\ app.found \in Handle \cup {NoAttr} /\ app.late \in BOOLEAN
         /\ app.goal \in {"none", "read", "write"} /\ app.sub \in UUID /\ app.retry \in 0..2
         /\ app.rc \in {"ok", "error", "auth", "notLong"} /\ app.got \in Nat
BY DEF RemoteTypeOK, Call, Level

\* A value is read or written on.
LEMMA ValueGoesOn ==
  ASSUME RemoteInv, RemoteTypeOK', cache' = cache, blind' = blind, app.op = "value",
         app.pc # "idle", app'.pc \in {"call", "count", "wait", "woken", "secure"},
         app'.op = app.op, app'.level = app.level, app'.at = app.at, app'.uuid = app.uuid,
         app'.any = app.any, app'.goal = app.goal, app'.sub = app.sub,
         app'.pc = "secure" => app'.retry > 0
  PROVE  RemoteInv'
<1>1. VectorsAreOf'
  BY DEF RemoteInv, VectorsAreOf
<1>2. PlaceIs'
  BY DEF RemoteInv, PlaceIs
<1>3. AskedIs'
  BY DEF RemoteInv, AskedIs, Looking
<1> QED
  BY <1>1, <1>2, <1>3, ValueNow

\* The results to come: what of the range the client has not, in order.
LEMMA StartStep ==
  ASSUME RemoteInv, Start
  PROVE  RemoteInv'
<1>1. RemoteTypeOK /\ VectorsAreOf /\ PlaceIs /\ AskedIs /\ MissIs /\ DiscoverIs
  BY DEF RemoteInv
<1>2. PICK pc \in {"count", "wait"} : /\ pc = (IF app.level = "dsc" THEN "count" ELSE "wait")
                                      /\ app' = [app EXCEPT !.pc = pc]
  BY DEF Start
<1>3. /\ app.pc = "call" /\ stk.up /\ ~stk.busy /\ cache' = cache /\ blind' = Blind
      /\ stk' = [stk EXCEPT !.busy = TRUE, !.todo = Results]
  BY <1>1 DEF Start, RemoteTypeOK
<1>4. /\ app' \in Call /\ app'.pc = pc /\ app'.rc = app.rc /\ app'.got = app.got
      /\ SameCall
  BY <1>1, <1>2, <1>3 DEF RemoteTypeOK, Call, SameCall
<1>5. stk'.busy /\ stk'.todo = Results /\ stk'.up
  BY <1>1, <1>3 DEF RemoteTypeOK, Stack
<1>6. Results \in Seq(Handle \cup Nat)
  <2>1. CASE app.level \in {"svc", "chr", "dsc"}
    <3>1. PICK r : r = Results
      OBVIOUS
    <3>2. r \in Seq(Handle)
      BY <1>3, <2>1, <3>1, ResultsAre
    <3>3. r \in Seq(Handle \cup Nat)
      BY <3>2
    <3> QED
      BY <3>1, <3>3
  <2>2. CASE app.level = "read"
    <3>1. Peer[app.at].chunks \in Nat
      BY <1>1, <2>2, HandlesAre DEF PlaceIs
    <3>2. Results = [i \in 1..Peer[app.at].chunks |-> i]
      BY <2>2 DEF Results
    <3> QED
      BY <3>1, <3>2
  <2>3. CASE app.level = "write"
    <3>1. Results = << >>
      BY <2>3 DEF Results
    <3> QED
      BY <3>1, NothingIs
  <2> QED
    BY <1>1, <2>1, <2>2, <2>3, AppIs
<1>7. stk' \in Stack
  BY <1>1, <1>3, <1>6 DEF RemoteTypeOK, Stack
<1>8. blind \subseteq blind' /\ blind' \subseteq Characteristics
  BY <1>1, <1>3 DEF Blind, RemoteTypeOK, PlaceIs
<1>9. RemoteTypeOK'
  BY <1>1, <1>3, <1>4, <1>5, <1>7, <1>8 DEF RemoteTypeOK
<1>10. CASE app.op = "value"
  <2>1. blind' = blind
    BY <1>1, <1>3, <1>10 DEF Blind, AskedIs
  <2> QED
    BY <1>3, <1>4, <1>9, <1>10, <2>1, ValueGoesOn DEF SameCall
<1>11. CASE app.op # "value"
  <2>1. app.level \in {"svc", "chr", "dsc"}
    BY <1>1, <1>11, AppIs DEF AskedIs
  <2>2. /\ Results \in Seq(Handle) /\ Asc(Results)
        /\ \A h \in ToSet(Results) : Exactly(h) => h \notin ToSet(Vector(app.level, app.at))
        /\ app.level = "svc" => \A h \in ToSet(Results) : h \in Services /\ Exactly(h)
        /\ app.level = "chr" => \A h \in ToSet(Results) : h \in CharacteristicsOf[app.at] /\ Exactly(h)
        /\ app.level = "dsc" /\ app.at \notin Blind => ToSet(Results) \subseteq Others(app.at)
        /\ (app.level = "dsc" => app.at \notin Blind) =>
             \A h \in Scope : Exactly(h) => h \in ToSet(Results)
    BY <1>3, <2>1, ResultsAre
  <2>3. \A h : Exactly(h)' <=> Exactly(h)
    BY <1>4 DEF Exactly, SameCall
  <2>4. Vector(app.level, app.at)' = Vector(app.level, app.at)
    BY <1>4 DEF Vector, SameCall
  <2>5. TodoIs'
    BY <1>3, <1>4, <1>5, <2>2, <2>3, <2>4 DEF TodoIs, SameCall
  <2>6. Scope' = Scope /\ (LastForm' <=> LastForm) /\ (Looking' <=> Looking)
    BY <1>4 DEF Scope, LastForm, Looking, SameCall
  <2>7. \A h : UUIDOf(app.level, h) = app.uuid => Exactly(h)
    BY DEF Exactly
  <2>8. MissIs'
    BY <1>1, <1>3, <1>4, <1>5, <1>8, <2>2, <2>6, <2>7 DEF MissIs, SameCall
  <2>9. app.op = "discover" /\ app.level = "svc" => ToSet(cache.svcs) = {}
    BY <1>3, NothingIs DEF RemoteInv, NotYet, Vector
  <2> QED
    BY <1>4, <1>8, <1>9, <2>5, <2>8, <2>9, SameCallLemma
<1> QED
  BY <1>10, <1>11
\* A call that has a new place in its procedure, while the stack does or stops.
LEMMA EndsStep ==
  ASSUME RemoteInv, cache' = cache, blind' = blind, app.pc # "idle",
         NEW pc \in {"count", "woken", "answer"}, NEW rc \in {"ok", "error", "auth", "notLong"},
         app' = [app EXCEPT !.pc = pc, !.rc = rc],
         stk' \in Stack, ~stk'.busy, pc = "answer" => app.op = "get",
         rc = "ok" =>
            \/ app.op = "value"
            \/ stk.busy /\ stk.todo = << >>
            \/ ~stk.busy /\ app.pc \in {"count", "woken", "answer"} /\ app.rc = "ok"
            \/ app.level = "dsc" /\ OwnDescriptors[app.at] = {},
         pc = "answer" /\ rc = "ok" /\ app.found = NoAttr => LastForm
  PROVE  RemoteInv'
<1>1. RemoteTypeOK /\ AskedIs
  BY DEF RemoteInv
<1>2. /\ app' \in Call /\ app'.pc = pc /\ app'.rc = rc /\ app'.got = app.got /\ SameCall
  BY <1>1 DEF RemoteTypeOK, Call, SameCall
<1>3. RemoteTypeOK'
  BY <1>1, <1>2 DEF RemoteTypeOK
<1>4. CASE app.op = "value"
  BY <1>2, <1>3, <1>4, ValueGoesOn DEF SameCall
<1>5. CASE app.op # "value"
  BY <1>2, <1>3, <1>5, EndedLemma
<1> QED
  BY <1>4, <1>5

\* A search that fails has found nothing, and says so by its code.
LEMMA StartFailsStep ==
  ASSUME RemoteInv, StartFails \/ StartIsDone
  PROVE  RemoteInv'
<1>1. RemoteTypeOK /\ VectorsAreOf /\ PlaceIs
  BY DEF RemoteInv
<1>2. /\ app.pc = "call" /\ cache' = cache /\ blind' = blind /\ stk' = stk
      /\ ~stk.busy /\ stk \in Stack
  BY <1>1 DEF StartFails, StartIsDone, Stay, RemoteTypeOK
<1>3. CASE StartFails
  <2>1. app' = [app EXCEPT !.pc = "woken", !.rc = "error"]
    BY <1>3 DEF StartFails
  <2> QED
    BY <1>2, <2>1, EndsStep
<1>4. CASE StartIsDone
  <2>1. app' = [app EXCEPT !.pc = "woken", !.rc = "ok"] /\ NothingToSearch
    BY <1>4 DEF StartIsDone
  <2>2. app.level = "dsc" /\ OwnDescriptors[app.at] = {}
    <3>1. app.level = "dsc" /\ SearchEnd(app.at) = ValueHandle(app.at)
      BY <2>1 DEF NothingToSearch
    <3>2. /\ app.at \in Characteristics /\ ServiceOf[app.at] \in Services
          /\ app.at \in ToSet(cache.chrs[ServiceOf[app.at]])
          /\ cache.chrs[ServiceOf[app.at]] \in Seq(Handle) /\ Asc(cache.chrs[ServiceOf[app.at]])
          /\ ToSet(cache.chrs[ServiceOf[app.at]]) \subseteq CharacteristicsOf[ServiceOf[app.at]]
      BY <1>1, <3>1, PlaceLemma, VectorsIs DEF VectorsAreOf, PlaceIs
    <3> QED
      BY <3>1, <3>2, RangeIs
  <2> QED
    BY <1>2, <2>1, <2>2, EndsStep
<1> QED
  BY <1>3, <1>4

\* The answer of a lookup whose last form was tried, or that failed.
LEMMA GetAnswerStep ==
  ASSUME RemoteInv, GetAnswer
  PROVE  RemoteInv'
<1>1. RemoteTypeOK
  BY DEF RemoteInv
<1>2. /\ app.pc = "woken" /\ app.op = "get" /\ app' = [app EXCEPT !.pc = "answer"]
      /\ cache' = cache /\ blind' = blind /\ stk' = stk /\ ~stk.busy /\ stk \in Stack
      /\ app.rc = "ok" /\ app.found = NoAttr => LastForm
  BY <1>1 DEF GetAnswer, Woken, Stay, RemoteTypeOK, LastForm
<1>3. app' = [app EXCEPT !.pc = "answer", !.rc = app.rc]
  BY <1>1, <1>2 DEF RemoteTypeOK, Call
<1>4. app.rc \in {"ok", "error", "auth", "notLong"}
  BY <1>1, AppIs
<1> QED
  BY <1>2, <1>3, <1>4, EndsStep

\* taskRelease() at the end of a procedure, and when the link is lost
LEMMA ReleaseStep ==
  ASSUME RemoteInv, ProcedureDone \/ ProcedureFails \/ AccessDenied \/ AttrNotLong
  PROVE  RemoteInv'
<1>1. RemoteTypeOK
  BY DEF RemoteInv
<1>2. PICK rc \in {"ok", "error", "auth", "notLong"} :
        /\ Release(rc) /\ stk.busy /\ cache' = cache /\ blind' = blind
        /\ rc = "ok" => stk.todo = << >>
  BY DEF ProcedureDone, ProcedureFails, AccessDenied, AttrNotLong, Stay
<1>3. PICK pc \in {"count", "woken"} : /\ pc = (IF app.pc = "wait" THEN "woken" ELSE app.pc)
                                       /\ app.pc \in {"count", "wait"}
  BY <1>1, <1>2 DEF RemoteTypeOK
<1>4. app' = [app EXCEPT !.pc = pc, !.rc = rc]
  BY <1>1, <1>2, <1>3 DEF Release, Released, RemoteTypeOK, Call
<1>5. stk' \in Stack /\ ~stk'.busy
  BY <1>1, <1>2, NothingIs DEF Release, RemoteTypeOK, Stack
<1> QED
  BY <1>2, <1>3, <1>4, <1>5, EndsStep
\* What only concerns the link
LEMMA StackStep ==
  ASSUME RemoteInv, cache' = cache, app' = app, blind' = blind, stk' \in Stack,
         stk'.busy = stk.busy, stk.busy => stk'.todo = stk.todo /\ stk'.up
  PROVE  RemoteInv'
<1>1. /\ VectorsAreOf' /\ PlaceIs' /\ AskedIs' /\ FoundIs'
  BY DEF RemoteInv, VectorsAreOf, PlaceIs, AskedIs, FoundIs, Looking, Vector
<1>2. RemoteTypeOK'
  BY DEF RemoteInv, RemoteTypeOK
<1>3. TodoIs'
  BY DEF RemoteInv, TodoIs, Searching, Vector, Exactly
<1>4. NotYet'
  BY DEF RemoteInv, NotYet, Looking, VectorLacks, Vector
<1>5. MissIs'
  BY DEF RemoteInv, MissIs, Looking, Scope, LastForm
<1>6. DiscoverIs'
  BY DEF RemoteInv, DiscoverIs, Behind
<1> QED
  BY <1>1, <1>2, <1>3, <1>4, <1>5, <1>6 DEF RemoteInv

\* The descriptors are counted; the search goes on or is over.
LEMMA CountStep ==
  ASSUME RemoteInv, CountDescriptors
  PROVE  RemoteInv'
<1>1. RemoteTypeOK /\ AskedIs /\ TodoIs /\ MissIs /\ DiscoverIs
  BY DEF RemoteInv
<1>2. /\ app.pc = "count" /\ cache' = cache /\ blind' = blind /\ stk' = stk /\ stk \in Stack
      /\ app.rc \in {"ok", "error", "auth", "notLong"}
  BY <1>1, AppIs DEF CountDescriptors, Stay, RemoteTypeOK
<1>3. CASE ~stk.busy
  <2>1. app' = [app EXCEPT !.pc = "woken"]
    BY <1>3 DEF CountDescriptors
  <2>2. app' = [app EXCEPT !.pc = "woken", !.rc = app.rc]
    BY <1>1, <2>1 DEF RemoteTypeOK, Call
  <2> QED
    BY <1>2, <1>3, <2>2, EndsStep
<1>4. CASE stk.busy
  <2>1. app' = [app EXCEPT !.pc = "wait"]
    BY <1>4 DEF CountDescriptors
  <2>2. /\ app' \in Call /\ app'.pc = "wait" /\ app'.rc = app.rc /\ app'.got = app.got /\ SameCall
    BY <1>1, <1>2, <2>1 DEF RemoteTypeOK, Call, SameCall
  <2>3. RemoteTypeOK'
    BY <1>1, <1>2, <1>4, <2>2 DEF RemoteTypeOK
  <2>4. CASE app.op = "value"
    BY <1>2, <2>2, <2>3, <2>4, ValueGoesOn DEF SameCall
  <2>5. CASE app.op # "value"
    <3>1. TodoIs'
      BY <1>1, <1>2, <2>2 DEF TodoIs, Searching, SameCall, Vector, Exactly
    <3>2. MissIs'
      BY <1>1, <1>2, <1>4, <2>2 DEF MissIs, Looking, SameCall, Scope, LastForm
    <3>3. app.op = "discover" /\ app.level = "svc" =>
            \A s \in ToSet(cache.svcs), h \in ToSet(stk.todo) : s < h
      BY <1>1, <1>4 DEF DiscoverIs
    <3> QED
      BY <1>2, <2>2, <2>3, <3>1, <3>2, <3>3, SameCallLemma
  <2> QED
    BY <2>4, <2>5
<1> QED
  BY <1>3, <1>4

\* The link takes its procedure with it, and the lookup fails.
LEMMA LinkLostStep ==
  ASSUME RemoteInv, LinkLost
  PROVE  RemoteInv'
<1>1. RemoteTypeOK
  BY DEF RemoteInv
<1>2. /\ cache' = cache /\ blind' = blind /\ stk' \in Stack /\ ~stk'.busy /\ stk'.todo = << >>
      /\ app' = IF stk.busy THEN Released(app, "error") ELSE app
      /\ stk' = [stk EXCEPT !.up = FALSE, !.enc = FALSE, !.busy = FALSE, !.todo = << >>, !.stray = FALSE]
  BY <1>1, NothingIs DEF LinkLost, Stay, RemoteTypeOK, Stack
<1>3. CASE stk.busy
  <2>1. PICK pc \in {"count", "woken"} : /\ pc = (IF app.pc = "wait" THEN "woken" ELSE app.pc)
                                         /\ app.pc \in {"count", "wait"}
    BY <1>1, <1>3 DEF RemoteTypeOK
  <2>2. app' = [app EXCEPT !.pc = pc, !.rc = "error"]
    BY <1>1, <1>2, <1>3, <2>1 DEF Released, RemoteTypeOK, Call
  <2> QED
    BY <1>2, <1>3, <2>1, <2>2, EndsStep
<1>4. CASE ~stk.busy
  <2>1. app' = app
    BY <1>2, <1>4
  <2>2. stk'.busy = stk.busy
    BY <1>1, <1>2, <1>4 DEF RemoteTypeOK, Stack
  <2> QED
    BY <1>2, <1>4, <2>1, <2>2, StackStep
<1> QED
  BY <1>3, <1>4

\* The steps of reads and writes leave the vectors alone.
LEMMA ReadChunkStep ==
  ASSUME RemoteInv, ReadChunk
  PROVE  RemoteInv'
<1>1. RemoteTypeOK /\ AskedIs
  BY DEF RemoteInv
<1>2. /\ stk.busy /\ app.level = "read" /\ stk.todo # << >> /\ cache' = cache /\ blind' = blind
      /\ app.op = "value" /\ app.pc \in {"count", "wait"} /\ stk.up
  BY <1>1 DEF ReadChunk, Reports, Stay, AskedIs, RemoteTypeOK
<1>3. CASE app.got = MaxChunks
  <2>1. PICK pc \in {"count", "woken"} : pc = (IF app.pc = "wait" THEN "woken" ELSE app.pc)
    BY <1>2
  <2>2. app' = [app EXCEPT !.pc = pc, !.rc = "error"]
    BY <1>1, <1>3, <2>1 DEF ReadChunk, Release, Released, RemoteTypeOK, Call
  <2>3. stk' \in Stack /\ ~stk'.busy
    BY <1>1, <1>3, NothingIs DEF ReadChunk, Release, RemoteTypeOK, Stack
  <2> QED
    BY <1>2, <2>1, <2>2, <2>3, EndsStep
<1>4. CASE app.got # MaxChunks
  <2>1. app' = [app EXCEPT !.got = @ + 1] /\ stk' = [stk EXCEPT !.todo = Tail(@)]
    BY <1>4 DEF ReadChunk
  <2>2. app.got + 1 \in Nat /\ app.got + 1 <= MaxChunks
    BY <1>1, <1>4, AppIs, PeerAssumption DEF RemoteTypeOK, PeerAssumption
  <2>3. /\ app' \in Call /\ app'.got = app.got + 1 /\ app'.pc = app.pc /\ app'.op = app.op
        /\ app'.level = app.level /\ app'.at = app.at /\ app'.uuid = app.uuid /\ app'.any = app.any
        /\ app'.goal = app.goal /\ app'.sub = app.sub
    BY <1>1, <2>1, <2>2 DEF RemoteTypeOK, Call
  <2>4. stk' \in Stack /\ stk'.busy /\ stk'.up
    <3>1. Tail(stk.todo) \in Seq(Handle \cup Nat)
      BY <1>1, <1>2 DEF RemoteTypeOK, Stack
    <3> QED
      BY <1>1, <1>2, <2>1, <3>1 DEF RemoteTypeOK, Stack
  <2>5. RemoteTypeOK'
    BY <1>1, <1>2, <2>2, <2>3, <2>4 DEF RemoteTypeOK
  <2> QED
    BY <1>2, <2>3, <2>5, ValueGoesOn
<1> QED
  BY <1>3, <1>4
\* A result that the stack reports is kept.
LEMMA AddLemma ==
  ASSUME RemoteInv, stk.busy, app.level \in {"svc", "chr", "dsc"}, stk.todo # << >>,
         NEW h, h = Head(stk.todo), Exactly(h),
         RemoteTypeOK', VectorsAreOf', PlaceIs', DiscoverIs',
         ToSet(Vector(app.level, app.at)') = ToSet(Vector(app.level, app.at)) \cup {h},
         app'.pc \in {"count", "wait", "woken"},
         app'.op = app.op, app'.level = app.level, app'.at = app.at, app'.uuid = app.uuid,
         app'.any = app.any, app'.again = app.again, app'.goal = app.goal, app'.sub = app.sub,
         app'.found = h \/ (app'.found = app.found /\ app.level = "dsc" /\ app'.late),
         blind' = blind, stk'.busy => stk'.todo = Tail(stk.todo)
  PROVE  RemoteInv'
<1>1. RemoteTypeOK /\ AskedIs /\ TodoIs /\ NotYet /\ FoundIs /\ app.pc \in {"count", "wait"}
  BY DEF RemoteInv, RemoteTypeOK
<1>2. /\ stk.todo \in Seq(Handle) /\ Asc(stk.todo)
      /\ \A g \in ToSet(stk.todo) : Exactly(g) => g \notin ToSet(Vector(app.level, app.at))
      /\ app.level = "svc" => \A g \in ToSet(stk.todo) : g \in Services /\ Exactly(g)
      /\ app.level = "chr" => \A g \in ToSet(stk.todo) : g \in CharacteristicsOf[app.at] /\ Exactly(g)
      /\ app.level = "dsc" /\ app.at \notin blind => ToSet(stk.todo) \subseteq Others(app.at)
  BY <1>1 DEF TodoIs, Searching
<1>3. /\ Tail(stk.todo) \in Seq(Handle) /\ Asc(Tail(stk.todo))
      /\ h \in ToSet(stk.todo) /\ h \in Handle /\ ToSet(Tail(stk.todo)) \subseteq ToSet(stk.todo)
      /\ \A g \in ToSet(Tail(stk.todo)) : g # h
  <2>1. /\ Tail(stk.todo) \in Seq(Handle) /\ Asc(Tail(stk.todo))
        /\ h \in ToSet(stk.todo) /\ ToSet(stk.todo) = {h} \cup ToSet(Tail(stk.todo))
        /\ \A g \in ToSet(Tail(stk.todo)) : h < g
    BY <1>2, TailAsc
  <2>2. ToSet(stk.todo) \subseteq Handle
    BY <1>2, Members
  <2>3. \A g \in Handle : g \in Nat
    BY HandlesAre
  <2> QED
    BY <2>1, <2>2, <2>3
<1>5. \A g : Exactly(g)' <=> Exactly(g)
  BY DEF Exactly
<1>6. h # NoAttr
  BY <1>3, PeerAssumption DEF PeerAssumption
<1>7. Looking' => Looking /\ ~app.any
  BY <1>1 DEF Looking, AskedIs
<1>8. TodoIs'
  <2>1. ASSUME NEW g \in ToSet(Tail(stk.todo)), Exactly(g)
        PROVE  g \notin ToSet(Vector(app.level, app.at)')
    BY <1>2, <1>3, <2>1
  <2> QED
    BY <1>2, <1>3, <1>5, <2>1 DEF TodoIs, Searching, Vector
<1>9. AskedIs'
  BY <1>1 DEF AskedIs, Looking
<1>10. NotYet'
  <2>1. ASSUME Looking', app'.found = NoAttr, ~app.again, OtherForm(app.uuid) # app.uuid,
               NEW g \in ToSet(Vector(app.level, app.at)')
        PROVE  UUIDOf(app.level, g) # OtherForm(app.uuid)
    <3>1. app.found = NoAttr
      BY <1>6, <2>1
    <3>2. UUIDOf(app.level, h) = app.uuid
      BY <1>7, <2>1 DEF Exactly
    <3>3. \A f \in ToSet(Vector(app.level, app.at)) : UUIDOf(app.level, f) # OtherForm(app.uuid)
      BY <1>1, <1>7, <2>1, <3>1 DEF NotYet, VectorLacks
    <3> QED
      BY <2>1, <3>2, <3>3
  <2> QED
    BY <2>1 DEF NotYet, VectorLacks, Vector
<1>11. FoundIs'
  <2>1. ASSUME Looking', app'.found # NoAttr
        PROVE  /\ app'.found \in ToSet(Vector(app.level, app.at)')
               /\ Equal(UUIDOf(app.level, app'.found), app.uuid)
    <3>1. CASE app'.found = h
      <4>1. UUIDOf(app.level, h) = app.uuid
        BY <1>7, <2>1 DEF Exactly
      <4>2. Equal(app.uuid, app.uuid)
        BY <1>1, AppIs, EqualSelf
      <4> QED
        BY <3>1, <4>1, <4>2
    <3>2. CASE app'.found = app.found
      BY <1>1, <1>7, <2>1, <3>2 DEF FoundIs
    <3> QED
      BY <3>1, <3>2
  <2> QED
    BY <2>1 DEF FoundIs, Vector
<1>12. MissIs'
  BY <1>6 DEF MissIs
<1> QED
  BY <1>8, <1>9, <1>10, <1>11, <1>12 DEF RemoteInv
\* The host task reports to a search.
LEMMA ReportIs ==
  ASSUME RemoteInv, NEW level \in {"svc", "chr", "dsc"}, Reports(level)
  PROVE  /\ stk.busy /\ stk.up /\ app.level = level /\ app.pc \in {"count", "wait"}
         /\ stk.todo \in Seq(Handle) /\ stk.todo # << >> /\ Asc(stk.todo)
         /\ Next1 \in ToSet(stk.todo) /\ Next1 \in Handle
         /\ Exactly(Next1) => Next1 \notin ToSet(Vector(level, app.at))
         /\ level = "svc" => Next1 \in Services /\ Exactly(Next1)
         /\ level = "chr" => Next1 \in CharacteristicsOf[app.at] /\ Exactly(Next1)
         /\ level = "dsc" /\ app.at \notin blind => Next1 \in Others(app.at)
         /\ Tail(stk.todo) \in Seq(Handle) /\ Asc(Tail(stk.todo))
         /\ ToSet(stk.todo) = {Next1} \cup ToSet(Tail(stk.todo))
         /\ \A g \in ToSet(Tail(stk.todo)) : Next1 < g
<1>1. stk.busy /\ app.level = level /\ stk.todo # << >>
  BY DEF Reports
<1>2. stk.up /\ app.pc \in {"count", "wait"}
  BY <1>1 DEF RemoteInv, RemoteTypeOK
<1>3. /\ stk.todo \in Seq(Handle) /\ Asc(stk.todo)
      /\ \A g \in ToSet(stk.todo) : Exactly(g) => g \notin ToSet(Vector(app.level, app.at))
      /\ app.level = "svc" => \A g \in ToSet(stk.todo) : g \in Services /\ Exactly(g)
      /\ app.level = "chr" => \A g \in ToSet(stk.todo) : g \in CharacteristicsOf[app.at] /\ Exactly(g)
      /\ app.level = "dsc" /\ app.at \notin blind => ToSet(stk.todo) \subseteq Others(app.at)
  BY <1>1 DEF RemoteInv, TodoIs, Searching
<1>4. /\ Tail(stk.todo) \in Seq(Handle) /\ Asc(Tail(stk.todo))
      /\ Next1 \in ToSet(stk.todo) /\ ToSet(stk.todo) = {Next1} \cup ToSet(Tail(stk.todo))
      /\ \A g \in ToSet(Tail(stk.todo)) : Next1 < g
  BY <1>1, <1>3, TailAsc DEF Next1
<1>5. ToSet(stk.todo) \subseteq Handle
  BY <1>3, Members
<1> QED
  BY <1>1, <1>2, <1>3, <1>4, <1>5

\* The types after Adds
LEMMA AddsIs ==
  ASSUME RemoteInv, NEW level \in {"svc", "chr", "dsc"}, Reports(level),
         app' = [app EXCEPT !.found = Next1], stk' = [stk EXCEPT !.todo = Tail(@)],
         blind' = blind, cache' \in Vectors
  PROVE  /\ RemoteTypeOK'
         /\ app'.pc = app.pc /\ app'.op = app.op /\ app'.level = app.level /\ app'.at = app.at
         /\ app'.uuid = app.uuid /\ app'.any = app.any /\ app'.again = app.again
         /\ app'.goal = app.goal /\ app'.sub = app.sub /\ app'.found = Next1
         /\ stk'.todo = Tail(stk.todo) /\ stk'.busy
<1>1. RemoteTypeOK
  BY DEF RemoteInv
<1>2. /\ stk.busy /\ stk.up /\ app.pc \in {"count", "wait"} /\ Next1 \in Handle
      /\ stk.todo # << >>
  BY ReportIs
<1>3. /\ app'.pc = app.pc /\ app'.op = app.op /\ app'.level = app.level /\ app'.at = app.at
      /\ app'.uuid = app.uuid /\ app'.any = app.any /\ app'.again = app.again
      /\ app'.goal = app.goal /\ app'.sub = app.sub /\ app'.found = Next1
      /\ app' \in Call /\ app'.got = app.got
  BY <1>1, <1>2 DEF RemoteTypeOK, Call
<1>4. Tail(stk.todo) \in Seq(Handle \cup Nat)
  BY <1>1, <1>2 DEF RemoteTypeOK, Stack
<1>5. stk' \in Stack /\ stk'.busy /\ stk'.up /\ stk'.todo = Tail(stk.todo)
  BY <1>1, <1>2, <1>4 DEF RemoteTypeOK, Stack
<1>6. RemoteTypeOK'
  BY <1>1, <1>2, <1>3, <1>5 DEF RemoteTypeOK
<1> QED
  BY <1>3, <1>5, <1>6

\* A service is appended: in the order of the handles during discoverAttributes().
LEMMA ServiceStep ==
  ASSUME RemoteInv, ServiceDiscovered
  PROVE  RemoteInv'
<1>1. /\ Reports("svc") /\ blind' = blind /\ app' = [app EXCEPT !.found = Next1]
      /\ stk' = [stk EXCEPT !.todo = Tail(@)]
      /\ cache' = [cache EXCEPT !.svcs = Append(@, Next1)]
  BY DEF ServiceDiscovered, Adds
<1>2. RemoteTypeOK /\ VectorsAreOf /\ DiscoverIs
  BY DEF RemoteInv
<1>3. PICK h : h = Next1
  OBVIOUS
<1>4. /\ stk.busy /\ stk.up /\ app.level = "svc" /\ app.pc \in {"count", "wait"} /\ stk.todo # << >>
      /\ h \in ToSet(stk.todo) /\ h \in Handle /\ h \in Services /\ Exactly(h)
      /\ h \notin ToSet(cache.svcs) /\ stk.todo \in Seq(Handle)
      /\ ToSet(Tail(stk.todo)) \subseteq ToSet(stk.todo)
      /\ \A g \in ToSet(Tail(stk.todo)) : h < g
  BY <1>1, <1>3, ReportIs DEF Vector
<1>5. cache.svcs \in Seq(Handle) /\ IsInjective(cache.svcs)
  BY <1>2, VectorsIs DEF VectorsAreOf
<1>6. PICK w : w = Append(cache.svcs, h)
  OBVIOUS
<1>7. w \in Seq(Handle) /\ IsInjective(w) /\ ToSet(w) = ToSet(cache.svcs) \cup {h}
  BY <1>4, <1>5, <1>6, AppendLemma
<1>8. /\ cache' \in Vectors /\ cache'.svcs = w /\ cache'.chrs = cache.chrs /\ cache'.dscs = cache.dscs
  BY <1>1, <1>2, <1>3, <1>6, <1>7, VectorsIs DEF Vectors
<1>9. /\ RemoteTypeOK'
      /\ app'.pc = app.pc /\ app'.op = app.op /\ app'.level = app.level /\ app'.at = app.at
      /\ app'.uuid = app.uuid /\ app'.any = app.any /\ app'.again = app.again
      /\ app'.goal = app.goal /\ app'.sub = app.sub /\ app'.found = h
      /\ stk'.todo = Tail(stk.todo) /\ stk'.busy
  BY <1>1, <1>3, <1>8, AddsIs
<1>10. VectorsAreOf'
  BY <1>1, <1>2, <1>4, <1>7, <1>8 DEF VectorsAreOf
<1>11. PlaceIs'
  BY <1>4, <1>9 DEF PlaceIs
<1>12. DiscoverIs'
  <2>1. ASSUME app.op = "discover" PROVE Asc(w)
    <3>1. Asc(cache.svcs) /\ \A s \in ToSet(cache.svcs) : s < h
      BY <1>2, <1>4, <2>1 DEF DiscoverIs
    <3>2. PICK one : one = <<h>>
      OBVIOUS
    <3>3. one \in Seq(Handle) /\ Asc(one) /\ ToSet(one) = {h}
      BY <1>4, <3>2, OneAsc
    <3>4. w = cache.svcs \o one
      <4>1. PICK s \in Seq(Handle) : s = cache.svcs
        BY <1>5
      <4>2. Append(s, h) = s \o <<h>>
        BY <1>4, <4>1
      <4> QED
        BY <1>6, <3>2, <4>1, <4>2
    <3> QED
      BY <1>5, <3>1, <3>3, <3>4, AscConcat
  <2>2. ASSUME app.op = "discover", NEW s \in ToSet(w), NEW g \in ToSet(Tail(stk.todo)) PROVE s < g
    <3>1. CASE s = h
      BY <1>4, <3>1
    <3>2. CASE s \in ToSet(cache.svcs)
      BY <1>2, <1>4, <2>2, <3>2 DEF DiscoverIs
    <3> QED
      BY <1>7, <3>1, <3>2
  <2> QED
    BY <1>2, <1>4, <1>8, <1>9, <2>1, <2>2 DEF DiscoverIs
<1>13. ToSet(Vector(app.level, app.at)') = ToSet(Vector(app.level, app.at)) \cup {h}
  BY <1>4, <1>7, <1>8, <1>9 DEF Vector
<1> QED
  BY <1>1, <1>3, <1>4, <1>9, <1>10, <1>11, <1>12, <1>13, AddLemma DEF Next1

\* A characteristic is put in its place in the vector.
LEMMA CharacteristicStep ==
  ASSUME RemoteInv, CharacteristicDisc
  PROVE  RemoteInv'
<1>1. /\ Reports("chr") /\ blind' = blind /\ app' = [app EXCEPT !.found = Next1]
      /\ stk' = [stk EXCEPT !.todo = Tail(@)]
      /\ cache' = [cache EXCEPT !.chrs[app.at] = InsertChr(@, Next1)]
  BY DEF CharacteristicDisc, Adds
<1>2. RemoteTypeOK /\ VectorsAreOf /\ DiscoverIs /\ PlaceIs
  BY DEF RemoteInv
<1>3. PICK h, s : h = Next1 /\ s = app.at
  OBVIOUS
<1>4. /\ stk.busy /\ stk.up /\ app.level = "chr" /\ app.pc \in {"count", "wait"} /\ stk.todo # << >>
      /\ h \in CharacteristicsOf[s] /\ Exactly(h)
      /\ h \notin ToSet(cache.chrs[s])
  BY <1>1, <1>3, ReportIs DEF Vector
<1>5. s \in Services /\ h \in Characteristics
  <2>1. s \in Services
    BY <1>2, <1>3, <1>4, PlaceLemma
  <2> QED
    BY <1>4, <2>1 DEF CharacteristicsOf
<1>6. /\ cache.chrs[s] \in Seq(Handle) /\ Asc(cache.chrs[s])
      /\ ToSet(cache.chrs[s]) \subseteq CharacteristicsOf[s]
      /\ ToSet(cache.chrs[s]) \subseteq Characteristics
  BY <1>2, <1>5, VectorsIs DEF VectorsAreOf, CharacteristicsOf
<1>7. PICK w : w = InsertChr(cache.chrs[s], h)
  OBVIOUS
<1>8. w \in Seq(Handle) /\ Asc(w) /\ ToSet(w) = ToSet(cache.chrs[s]) \cup {h}
  BY <1>4, <1>5, <1>6, <1>7, InsertIs
<1>9. /\ cache' \in Vectors /\ cache'.svcs = cache.svcs /\ cache'.dscs = cache.dscs
      /\ cache'.chrs = [cache.chrs EXCEPT ![s] = w]
  <2>1. cache' = [cache EXCEPT !.chrs[s] = w]
    BY <1>1, <1>3, <1>7
  <2> QED
    BY <1>2, <1>5, <1>8, <2>1, VectorsIs DEF Vectors
<1>10. \A r \in Services : cache'.chrs[r] = IF r = s THEN w ELSE cache.chrs[r]
  BY <1>2, <1>9, VectorsIs
<1>11. /\ RemoteTypeOK'
       /\ app'.pc = app.pc /\ app'.op = app.op /\ app'.level = app.level /\ app'.at = app.at
       /\ app'.uuid = app.uuid /\ app'.any = app.any /\ app'.again = app.again
       /\ app'.goal = app.goal /\ app'.sub = app.sub /\ app'.found = h
       /\ stk'.todo = Tail(stk.todo) /\ stk'.busy
  BY <1>1, <1>3, <1>9, AddsIs
<1>12. VectorsAreOf'
  BY <1>1, <1>2, <1>4, <1>6, <1>8, <1>9, <1>10 DEF VectorsAreOf
<1>13. PlaceIs'
  BY <1>2, <1>4, <1>9, <1>11 DEF PlaceIs
<1>14. DiscoverIs'
  <2>1. ASSUME app.op = "discover", NEW r \in Services, Behind(app.at, r)' PROVE cache'.chrs[r] = << >>
    <3>1. s < r /\ r # s /\ Behind(app.at, r)
      BY <1>3, <1>4, <1>5, <1>11, <2>1, HandlesAre DEF Behind
    <3> QED
      BY <1>2, <1>4, <1>10, <2>1, <3>1 DEF DiscoverIs
  <2>2. \A c : Behind(app.at, c)' => Behind(app.at, c)
    BY <1>11 DEF Behind
  <2> QED
    BY <1>2, <1>4, <1>9, <1>11, <2>1, <2>2 DEF DiscoverIs, Behind
<1>15. ToSet(Vector(app.level, app.at)') = ToSet(Vector(app.level, app.at)) \cup {h}
  BY <1>3, <1>4, <1>5, <1>8, <1>10, <1>11 DEF Vector
<1> QED
  BY <1>1, <1>3, <1>4, <1>11, <1>12, <1>13, <1>14, <1>15, AddLemma DEF Next1

\* A descriptor is appended; with a filter the search is over.
LEMMA DescriptorStep ==
  ASSUME RemoteInv, DescriptorFound
  PROVE  RemoteInv'
<1>1. RemoteTypeOK /\ VectorsAreOf /\ DiscoverIs /\ PlaceIs /\ AskedIs
  BY DEF RemoteInv
<1>2. PICK h, c : h = Next1 /\ c = app.at
  OBVIOUS
<1>3. /\ Reports("dsc") /\ blind' = blind /\ Exactly(h)
      /\ cache' = [cache EXCEPT !.dscs[c] = Append(@, h)]
  BY <1>1, <1>2 DEF DescriptorFound, Adds, Exactly
<1>4. /\ stk.busy /\ stk.up /\ app.level = "dsc" /\ app.pc \in {"count", "wait"} /\ stk.todo # << >>
      /\ h \in Handle /\ h \notin ToSet(cache.dscs[c]) /\ (c \notin blind => h \in Others(c))
  BY <1>2, <1>3, ReportIs DEF Vector
<1>5. c \in Characteristics
  BY <1>1, <1>2, <1>4, PlaceLemma
<1>6. cache.dscs[c] \in Seq(Handle) /\ IsInjective(cache.dscs[c])
  BY <1>1, <1>5, VectorsIs DEF VectorsAreOf
<1>7. PICK w : w = Append(cache.dscs[c], h)
  OBVIOUS
<1>8. w \in Seq(Handle) /\ IsInjective(w) /\ ToSet(w) = ToSet(cache.dscs[c]) \cup {h}
  BY <1>4, <1>6, <1>7, AppendLemma
<1>9. /\ cache' \in Vectors /\ cache'.svcs = cache.svcs /\ cache'.chrs = cache.chrs
      /\ cache'.dscs = [cache.dscs EXCEPT ![c] = w]
  <2>1. cache' = [cache EXCEPT !.dscs[c] = w]
    BY <1>3, <1>7
  <2> QED
    BY <1>1, <1>5, <1>8, <2>1, VectorsIs DEF Vectors
<1>10. \A e \in Characteristics : cache'.dscs[e] = IF e = c THEN w ELSE cache.dscs[e]
  BY <1>1, <1>9, VectorsIs
<1>11. /\ RemoteTypeOK' /\ app'.pc \in {"count", "wait", "woken"}
       /\ app'.op = app.op /\ app'.level = app.level /\ app'.at = app.at
       /\ app'.uuid = app.uuid /\ app'.any = app.any /\ app'.again = app.again
       /\ app'.goal = app.goal /\ app'.sub = app.sub
       /\ app'.found = h \/ (app'.found = app.found /\ app'.late)
       /\ stk'.busy => stk'.todo = Tail(stk.todo)
  <2>1. CASE app.any
    <3>1. app' = [app EXCEPT !.found = Next1] /\ stk' = [stk EXCEPT !.todo = Tail(@)]
      BY <2>1 DEF DescriptorFound, Adds
    <3> QED
      BY <1>2, <1>3, <1>4, <1>9, <3>1, AddsIs
  <2>2. CASE ~app.any
    <3>1. PICK passed \in BOOLEAN, found \in Handle \cup {NoAttr}, pc \in {"count", "woken"} :
            /\ passed = (app.pc = "count") /\ found = (IF passed THEN app.found ELSE h)
            /\ pc = (IF app.pc = "wait" THEN "woken" ELSE app.pc)
      BY <1>1, <1>4, AppIs
    <3>2. app' = LET late == app.pc = "count"
                 IN  Released([app EXCEPT !.found = IF late THEN @ ELSE Next1, !.late = late], "ok")
      BY <2>2 DEF DescriptorFound
    <3>3. app' = [app EXCEPT !.found = found, !.late = passed, !.pc = pc, !.rc = "ok"]
      BY <1>1, <1>2, <3>1, <3>2 DEF Released, RemoteTypeOK, Call
    <3>4. stk' = [stk EXCEPT !.busy = FALSE, !.todo = << >>]
      BY <2>2 DEF DescriptorFound
    <3>5. /\ app' \in Call /\ app'.pc = pc /\ app'.op = app.op /\ app'.level = app.level
          /\ app'.at = app.at /\ app'.uuid = app.uuid /\ app'.any = app.any
          /\ app'.again = app.again /\ app'.goal = app.goal /\ app'.sub = app.sub
          /\ app'.found = found /\ (app'.late <=> passed) /\ app'.got = app.got
      <4>1. app \in Call
        BY <1>1 DEF RemoteTypeOK
      <4>2. app' \in Call
        BY <3>3, <4>1 DEF Call
      <4>3. app'.late <=> passed
        BY <3>3, <4>1 DEF Call
      <4>4. /\ app'.pc = pc /\ app'.op = app.op /\ app'.level = app.level
            /\ app'.at = app.at /\ app'.uuid = app.uuid /\ app'.any = app.any
            /\ app'.again = app.again /\ app'.goal = app.goal /\ app'.sub = app.sub
            /\ app'.found = found /\ app'.got = app.got
        BY <3>3, <4>1 DEF Call
      <4> QED
        BY <4>2, <4>3, <4>4
    <3>6. stk' \in Stack /\ ~stk'.busy
      BY <1>1, <3>4, NothingIs DEF RemoteTypeOK, Stack
    <3>7. RemoteTypeOK'
      BY <1>1, <1>3, <1>9, <3>1, <3>5, <3>6 DEF RemoteTypeOK
    <3> QED
      BY <3>1, <3>5, <3>6, <3>7
  <2> QED
    BY <2>1, <2>2
<1>12. VectorsAreOf'
  BY <1>1, <1>3, <1>4, <1>8, <1>9, <1>10 DEF VectorsAreOf
<1>13. PlaceIs'
  BY <1>1, <1>4, <1>9, <1>11 DEF PlaceIs
<1>14. DiscoverIs'
  <2>1. ASSUME app.op = "discover", NEW e \in Characteristics, Behind(app.at, e)' PROVE cache'.dscs[e] = << >>
    <3>1. e # c /\ Behind(app.at, e)
      BY <1>2, <1>4, <1>5, <1>11, <2>1, HandlesAre DEF Behind
    <3> QED
      BY <1>1, <1>4, <1>10, <2>1, <3>1 DEF DiscoverIs
  <2>2. \A s : Behind(app.at, s)' => Behind(app.at, s)
    BY <1>11 DEF Behind
  <2> QED
    BY <1>1, <1>4, <1>9, <1>11, <2>1, <2>2 DEF DiscoverIs, Behind
<1>15. ToSet(Vector(app.level, app.at)') = ToSet(Vector(app.level, app.at)) \cup {h}
  BY <1>2, <1>4, <1>5, <1>8, <1>10, <1>11 DEF Vector
<1> QED
  BY <1>2, <1>3, <1>4, <1>11, <1>12, <1>13, <1>14, <1>15, AddLemma DEF Next1

\* A descriptor that is not sought changes nothing but what is to come.
LEMMA PassedOverStep ==
  ASSUME RemoteInv, DescriptorPassedOver
  PROVE  RemoteInv'
<1>1. RemoteTypeOK /\ VectorsAreOf /\ DiscoverIs /\ PlaceIs /\ AskedIs /\ TodoIs /\ MissIs
  BY DEF RemoteInv
<1>2. /\ Reports("dsc") /\ ~Exactly(Next1) /\ stk' = [stk EXCEPT !.todo = Tail(@)]
      /\ app' = app /\ cache' = cache /\ blind' = blind
  BY DEF DescriptorPassedOver, Stay
<1>3. /\ stk.busy /\ stk.up /\ app.level = "dsc" /\ app.pc \in {"count", "wait"} /\ stk.todo # << >>
      /\ Tail(stk.todo) \in Seq(Handle) /\ Asc(Tail(stk.todo))
      /\ ToSet(stk.todo) = {Next1} \cup ToSet(Tail(stk.todo))
  BY <1>2, ReportIs
<1>4. PICK t : t = Tail(stk.todo)
  OBVIOUS
<1>5. t \in Seq(Handle \cup Nat)
  <2>1. stk.todo \in Seq(Handle \cup Nat)
    BY <1>1 DEF RemoteTypeOK, Stack
  <2> QED
    BY <1>3, <1>4, <2>1
<1>6. stk' \in Stack /\ stk'.busy /\ stk'.up /\ stk'.todo = t
  BY <1>1, <1>2, <1>3, <1>4, <1>5 DEF RemoteTypeOK, Stack
<1>7. RemoteTypeOK'
  BY <1>1, <1>2, <1>3, <1>6 DEF RemoteTypeOK
<1>8. SameCall
  BY <1>1, <1>2, <1>3 DEF SameCall, RemoteTypeOK
<1>9. TodoIs'
  BY <1>1, <1>2, <1>3, <1>4, <1>6 DEF TodoIs, Searching, Vector, Exactly
<1>10. MissIs'
  <2>1. UUIDOf(app.level, Next1) # app.uuid
    BY <1>2 DEF Exactly
  <2> QED
    BY <1>1, <1>2, <1>3, <1>4, <1>6, <2>1 DEF MissIs, Looking, Scope, LastForm
<1> QED
  BY <1>2, <1>3, <1>7, <1>8, <1>9, <1>10, SameCallLemma

-----------------------------------------------------------------------------
(* The steps of the task that was released.                                *)

\* A call that returns leaves only what the vectors hold.
LEMMA ReturnStep ==
  ASSUME LookupsArePlain, RemoteInv, app' = NoCall, cache' = cache, blind' = blind,
         app.pc \notin {"count", "wait"}, stk' \in Stack, stk'.busy = stk.busy
  PROVE  RemoteInv'
<1>1. RemoteTypeOK /\ VectorsAreOf /\ ~stk.busy
  BY DEF RemoteInv, RemoteTypeOK
<1>2. VectorsAreOf'
  BY <1>1 DEF VectorsAreOf
<1>3. RemoteTypeOK'
  BY <1>1, NoCallIs, PeerAssumption DEF RemoteTypeOK, PeerAssumption
<1> QED
  BY <1>2, <1>3, IdleNow

LEMMA ReturnsStep ==
  ASSUME LookupsArePlain, RemoteInv,
         \/ GetReturns \/ RefreshReturns \/ DiscoverFails \/ ValueOk \/ ValueFails
         \/ \E accepted \in BOOLEAN : ReadNotLong(accepted)
  PROVE  RemoteInv'
<1>1. stk \in Stack
  BY DEF RemoteInv, RemoteTypeOK
<1>2. CASE GetReturns \/ RefreshReturns \/ DiscoverFails \/ ValueOk \/ ValueFails
  <2>1. app' = NoCall /\ cache' = cache /\ blind' = blind /\ stk' = stk /\ app.pc \in {"answer", "woken"}
    BY <1>2 DEF GetReturns, RefreshReturns, DiscoverFails, ValueOk, ValueFails, Return, Stay, Woken
  <2> QED
    BY <1>1, <2>1, ReturnStep
<1>3. CASE \E accepted \in BOOLEAN : ReadNotLong(accepted)
  <2>1. PICK accepted \in BOOLEAN : ReadNotLong(accepted)
    BY <1>3
  <2>2. PICK stray \in BOOLEAN : stray = (accepted /\ stk.up)
    OBVIOUS
  <2>3. app' = NoCall /\ cache' = cache /\ blind' = blind /\ app.pc = "woken"
    BY <2>1 DEF ReadNotLong, Return, Stay, Woken
  <2>4. stk' = [stk EXCEPT !.stray = stray]
    BY <1>1, <2>1, <2>2 DEF ReadNotLong, Stack
  <2>5. stk' \in Stack /\ stk'.busy = stk.busy
    BY <1>1, <2>4 DEF Stack
  <2> QED
    BY <2>3, <2>5, ReturnStep
<1> QED
  BY <1>2, <1>3

\* The characteristic is sought in the service that was found, or its value is read or written.
LEMMA GoOnStep ==
  ASSUME LookupsArePlain, RemoteInv, GoOn
  PROVE  RemoteInv'
<1>1. RemoteTypeOK /\ VectorsAreOf /\ PlaceIs /\ AskedIs /\ FoundIs
  BY DEF RemoteInv
<1>2. /\ app.pc = "answer" /\ app.goal # "none" /\ Answer # NoAttr /\ ~stk.busy
      /\ cache' = cache /\ blind' = blind /\ stk' = stk
  BY <1>1 DEF GoOn, Stay, RemoteTypeOK
<1>3. PICK f : f = app.found
  OBVIOUS
<1>4. Answer = f /\ f # NoAttr
  BY <1>2, <1>3 DEF Answer
<1>5. app.op = "get" /\ app.level \in {"svc", "chr"} /\ app.goal \in {"read", "write"}
  BY <1>1, <1>2, AppIs DEF AskedIs
<1>6. f \in ToSet(Vector(app.level, app.at))
  BY <1>1, <1>2, <1>3, <1>4, <1>5 DEF FoundIs, Looking
<1>7. CCCD \in UUID /\ Plain(CCCD) /\ app.sub \in UUID /\ Plain(app.sub)
  BY <1>1, AppIs, PlainsAre DEF AskedIs
<1>8. CASE app.level = "svc"
  <2>1. app' = Sought("chr", f, app.sub, app.goal, CCCD)
    BY <1>4, <1>8 DEF GoOn
  <2>2. f \in ToSet(cache.svcs) /\ f \in Handle
    BY <1>1, <1>6, <1>8, HandlesAre DEF Vector, VectorsAreOf
  <2> QED
    BY <1>1, <1>2, <1>5, <1>7, <2>1, <2>2, SoughtNow
<1>9. CASE app.level = "chr"
  <2>1. app' = ReadOf(ValueHandle(f)) \/ app' = WriteOf(ValueHandle(f), FALSE)
    BY <1>4, <1>5, <1>9 DEF GoOn
  <2>2. app.at \in Services
    BY <1>1, <1>9, PlaceLemma
  <2>3. f \in Characteristics
    BY <1>1, <1>6, <1>9, <2>2 DEF Vector, VectorsAreOf, CharacteristicsOf
  <2>4. ValueHandle(f) \in Handle
    BY <2>3, ValueIs DEF ValueHandle
  <2> QED
    BY <1>1, <1>2, <2>1, <2>4, ReadOfIs
<1> QED
  BY <1>5, <1>8, <1>9

\* The CCCD that was found is written to.
LEMMA SubscribeStep ==
  ASSUME LookupsArePlain, RemoteInv, SubscribeWrites
  PROVE  RemoteInv'
<1>1. RemoteTypeOK /\ VectorsAreOf
  BY DEF RemoteInv
<1>2. /\ app.pc = "woken" /\ cache' = cache /\ blind' = blind /\ stk' = stk /\ stk \in Stack /\ ~stk.busy
      /\ app' = (IF app.found = NoAttr THEN NoCall ELSE WriteOf(app.found, FALSE))
  BY <1>1 DEF SubscribeWrites, Woken, Stay, RemoteTypeOK
<1>3. CASE app.found = NoAttr
  BY <1>2, <1>3, ReturnStep
<1>4. CASE app.found # NoAttr
  <2>1. PICK f : f = app.found
    OBVIOUS
  <2>2. f \in Handle /\ app' = WriteOf(f, FALSE)
    BY <1>1, <1>2, <1>4, <2>1, AppIs
  <2> QED
    BY <1>1, <1>2, <2>2, ReadOfIs
<1> QED
  BY <1>3, <1>4

\* The vector lacks the other form too, as it did when the call began.
LEMMA GetAgainStep ==
  ASSUME RemoteInv, GetAgain
  PROVE  RemoteInv'
<1>1. RemoteTypeOK /\ VectorsAreOf /\ PlaceIs /\ AskedIs /\ NotYet /\ MissIs
  BY DEF RemoteInv
<1>2. PICK u, w : u = app.uuid /\ w = OtherForm(u)
  OBVIOUS
<1>3. /\ app.pc = "woken" /\ app.op \in {"get", "subscribe"} /\ app.rc = "ok" /\ app.found = NoAttr
      /\ ~app.again /\ w # u /\ cache' = cache /\ blind' = blind /\ stk' = stk /\ ~stk.busy
      /\ app' = [app EXCEPT !.pc = "call", !.uuid = w, !.again = TRUE]
  BY <1>1, <1>2 DEF GetAgain, Woken, Stay, RemoteTypeOK
<1>4. u \in UUID /\ w \in UUID /\ Plain(u)
  BY <1>1, <1>2, AppIs, OtherFormIs DEF AskedIs
<1>5. /\ app' \in Call /\ app'.pc = "call" /\ app'.uuid = w /\ app'.again
      /\ app'.op = app.op /\ app'.level = app.level /\ app'.at = app.at /\ app'.any = app.any
      /\ app'.found = NoAttr /\ app'.goal = app.goal /\ app'.sub = app.sub /\ app'.late = app.late
      /\ app'.got = app.got
  <2>1. app \in Call
    BY <1>1 DEF RemoteTypeOK
  <2> QED
    BY <1>3, <1>4, <2>1 DEF Call
<1>6. RemoteTypeOK'
  BY <1>1, <1>3, <1>5 DEF RemoteTypeOK
<1>7. VectorsAreOf' /\ PlaceIs'
  BY <1>1, <1>3, <1>5 DEF VectorsAreOf, PlaceIs
<1>8. app.level \in {"svc", "chr", "dsc"} /\ Looking /\ app.op # "value"
  BY <1>1, <1>3, AppIs DEF AskedIs, Looking
<1>9. Plain(w) /\ \A t \in UUID : t.bits # 32 /\ Equal(t, w) => t \in {u, w}
  <2>1. ASSUME NEW t \in UUID, t.bits # 32 PROVE Plain(w) /\ (Equal(t, w) => t \in {u, w})
    BY <1>2, <1>4, <2>1, FormsAre
  <2>2. Declared \in UUID /\ Declared.bits # 32
    BY PeerAssumption DEF PeerAssumption
  <2> QED
    BY <2>1, <2>2
<1>10. AskedIs'
  <2>1. Equal(Declared, w) => Equal(Declared, u)
    <3>1. Declared \in UUID /\ Declared.bits # 32
      BY PeerAssumption DEF PeerAssumption
    <3> QED
      BY <1>2, <1>4, <1>9, <3>1, FormsAre
  <2> QED
    BY <1>1, <1>2, <1>3, <1>5, <1>9, <2>1 DEF AskedIs
<1>11. TodoIs' /\ FoundIs' /\ DiscoverIs'
  BY <1>3, <1>5 DEF TodoIs, Searching, FoundIs, DiscoverIs
<1>12. NotYet'
  <2>1. VectorLacks(w)
    BY <1>1, <1>2, <1>3, <1>8 DEF NotYet
  <2> QED
    BY <1>3, <1>5, <2>1 DEF NotYet, VectorLacks, Vector
<1>13. MissIs'
  <2>1. ASSUME app.level = "dsc" => app.at \notin blind /\ ~app.late, NEW h \in Scope,
               Equal(UUIDOf(app.level, h), w)
        PROVE  UUIDOf(app.level, h) = w
    <3>1. UUIDOf(app.level, h) # u
      BY <1>1, <1>2, <1>3, <1>8, <2>1 DEF MissIs
    <3>2. Scope \subseteq Handle
      BY <1>1, <1>8, PlaceLemma, ScopeIs DEF Scope
    <3>3. UUIDOf(app.level, h) \in UUID /\ UUIDOf(app.level, h).bits # 32
      BY <2>1, <3>2, UUIDOfIs
    <3> QED
      BY <1>9, <2>1, <3>1, <3>3
  <2> QED
    BY <1>3, <1>5, <2>1 DEF MissIs, Scope
<1> QED
  BY <1>6, <1>7, <1>10, <1>11, <1>12, <1>13 DEF RemoteInv

\* readValue() and writeValue() go on.
LEMMA ValueOnStep ==
  ASSUME RemoteInv, WriteNotLong \/ ValueSecure \/ \E ok \in BOOLEAN : SecureReturns(ok) /\ ok
  PROVE  RemoteInv'
<1>1. RemoteTypeOK /\ AskedIs
  BY DEF RemoteInv
<1>2. app \in Call /\ cache' = cache /\ blind' = blind /\ stk' = stk
  BY <1>1 DEF WriteNotLong, ValueSecure, SecureReturns, Stay, RemoteTypeOK
<1>3. app.op = "value" /\ app.pc \in {"woken", "secure"}
  BY <1>1 DEF WriteNotLong, ValueSecure, SecureReturns, Woken, AskedIs
<1>4. /\ app' \in Call /\ app'.pc \in {"call", "secure"} /\ app'.op = app.op /\ app'.level = app.level
      /\ app'.at = app.at /\ app'.uuid = app.uuid /\ app'.any = app.any
      /\ app'.goal = app.goal /\ app'.sub = app.sub /\ app'.got = app.got
      /\ app'.pc = "secure" => app'.retry > 0
  <2>1. CASE WriteNotLong
    BY <1>2, <2>1 DEF WriteNotLong, Call
  <2>2. CASE ValueSecure
    BY <1>2, <2>2 DEF ValueSecure, Call
  <2>3. CASE \E ok \in BOOLEAN : SecureReturns(ok) /\ ok
    <3>1. app.pc = "secure" /\ app' = [app EXCEPT !.pc = "call", !.retry = @ - 1]
      BY <2>3 DEF SecureReturns
    <3>2. PICK n \in 0..2 : n = app.retry - 1
      BY <1>1, <1>2, <3>1, AppIs DEF AskedIs
    <3>3. app' = [app EXCEPT !.pc = "call", !.retry = n]
      BY <1>2, <3>1, <3>2 DEF Call
    <3> QED
      BY <1>2, <3>3 DEF Call
  <2> QED
    BY <2>1, <2>2, <2>3
<1>5. RemoteTypeOK'
  BY <1>1, <1>2, <1>3, <1>4 DEF RemoteTypeOK
<1> QED
  BY <1>2, <1>3, <1>4, <1>5, ValueGoesOn

LEMMA SecureReturnsStep ==
  ASSUME LookupsArePlain, RemoteInv, NEW ok \in BOOLEAN, SecureReturns(ok)
  PROVE  RemoteInv'
<1>1. CASE ok
  BY <1>1, ValueOnStep
<1>2. CASE ~ok
  <2>1. app' = NoCall /\ cache' = cache /\ blind' = blind /\ stk' = stk /\ app.pc = "secure" /\ stk \in Stack
    BY <1>2 DEF SecureReturns, Stay, RemoteInv, RemoteTypeOK
  <2> QED
    BY <2>1, ReturnStep
<1> QED
  BY <1>1, <1>2

\* discoverAttributes() goes on to the least of the places that it has not visited.
LEMMA DiscoverStep ==
  ASSUME LookupsArePlain, RemoteInv, DiscoverOn
  PROVE  RemoteInv'
<1>1. RemoteTypeOK /\ VectorsAreOf /\ PlaceIs /\ AskedIs /\ DiscoverIs
  BY DEF RemoteInv
<1>2. /\ app.pc = "woken" /\ app.op = "discover" /\ cache' = cache /\ blind' = blind /\ stk' = stk
      /\ stk \in Stack /\ ~stk.busy /\ app \in Call
  BY <1>1 DEF DiscoverOn, Woken, Stay, RemoteTypeOK
<1>3. app.any /\ app.goal = "none" /\ app.level \in {"svc", "chr", "dsc"} /\ Plain(app.uuid) /\ Plain(app.sub)
  BY <1>1, <1>2, AppIs DEF AskedIs
<1>4. cache.svcs \in Seq(Handle) /\ Asc(cache.svcs) /\ ToSet(cache.svcs) \subseteq Services
  BY <1>1, <1>2, VectorsIs DEF DiscoverIs, VectorsAreOf
<1>5. /\ app.level = "chr" => app.at \in Services /\ app.at \in ToSet(cache.svcs)
      /\ app.level = "dsc" => /\ app.at \in Characteristics /\ ServiceOf[app.at] \in Services
                              /\ ServiceOf[app.at] \in ToSet(cache.svcs)
                              /\ app.at \in ToSet(cache.chrs[ServiceOf[app.at]])
  BY <1>1, PlaceLemma DEF PlaceIs
<1>6. \A h \in Handle : h \in Nat
  BY HandlesAre
<1>7. \A s \in Services : /\ s \in Handle /\ s \in Nat /\ cache.chrs[s] \in Seq(Handle) /\ Asc(cache.chrs[s])
                          /\ ToSet(cache.chrs[s]) \subseteq CharacteristicsOf[s]
  BY <1>1, <1>6, VectorsIs, HandlesAre DEF VectorsAreOf
<1>8. ASSUME NEW level \in {"chr", "dsc"}, NEW a \in Handle,
             app' = [app EXCEPT !.pc = "call", !.level = level, !.at = a],
             level = "chr" => a \in ToSet(cache.svcs),
             level = "dsc" => /\ a \in Characteristics /\ ServiceOf[a] \in ToSet(cache.svcs)
                              /\ a \in ToSet(cache.chrs[ServiceOf[a]]),
             \A s \in Services : a < s \/ a = s => cache.chrs[s] = << >>,
             \A c \in Characteristics : a < c \/ a = c => cache.dscs[c] = << >>
      PROVE  RemoteInv'
  <2>1. /\ app' \in Call /\ app'.pc = "call" /\ app'.op = "discover" /\ app'.level = level /\ app'.at = a
        /\ app'.any /\ app'.goal = "none" /\ app'.uuid = app.uuid /\ app'.sub = app.sub
        /\ app'.got = app.got
    BY <1>2, <1>3, <1>8 DEF Call, Level
  <2>2. RemoteTypeOK'
    BY <1>1, <1>2, <2>1 DEF RemoteTypeOK
  <2>3. VectorsAreOf'
    BY <1>1, <1>2 DEF VectorsAreOf
  <2>4. PlaceIs'
    BY <1>2, <1>8, <2>1 DEF PlaceIs
  <2>5. DiscoverIs'
    BY <1>2, <1>4, <1>8, <2>1 DEF DiscoverIs, Behind
  <2>6. (Vector(app.level, app.at) = << >>)'
    <3>1. level = "chr" => cache.chrs[a] = << >>
      BY <1>4, <1>8
    <3>2. level = "dsc" => cache.dscs[a] = << >>
      BY <1>8
    <3> QED
      BY <1>2, <2>1, <3>1, <3>2 DEF Vector
  <2> QED
    BY <1>3, <2>1, <2>2, <2>3, <2>4, <2>5, <2>6, RefreshNow
<1>9. PICK c, s : c = NextCharacteristic /\ s = NextService
  OBVIOUS
<1>10. CASE c # NoAttr
  <2>1. /\ c \in Characteristics /\ c \in Handle /\ ServiceOf[c] \in ToSet(cache.svcs)
        /\ c \in ToSet(cache.chrs[ServiceOf[c]]) /\ app.level # "svc" /\ app.at \in Handle /\ app.at < c
    <3>1. CASE app.level = "chr"
      <4>1. c = FrontOf(cache.chrs[app.at])
        BY <1>9, <3>1 DEF NextCharacteristic
      <4>2. c \in ToSet(cache.chrs[app.at]) /\ c \in Handle
        BY <1>5, <1>7, <1>10, <3>1, <4>1, FrontIs
      <4>3. c \in Characteristics /\ ServiceOf[c] = app.at
        BY <1>5, <1>7, <3>1, <4>2 DEF CharacteristicsOf
      <4> QED
        BY <1>5, <1>7, <3>1, <4>2, <4>3, ValueIs
    <3>2. CASE app.level = "dsc"
      <4>1. c = After(cache.chrs[ServiceOf[app.at]], app.at)
        BY <1>9, <3>2 DEF NextCharacteristic
      <4>2. c \in ToSet(cache.chrs[ServiceOf[app.at]]) /\ c \in Handle /\ app.at < c
        BY <1>5, <1>7, <1>10, <3>2, <4>1, AfterIs
      <4>3. c \in Characteristics /\ ServiceOf[c] = ServiceOf[app.at]
        BY <1>5, <1>7, <3>2, <4>2 DEF CharacteristicsOf
      <4> QED
        BY <1>5, <3>2, <4>2, <4>3, ValueIs
    <3>3. CASE app.level = "svc"
      BY <1>9, <1>10, <3>3 DEF NextCharacteristic
    <3> QED
      BY <1>3, <3>1, <3>2, <3>3
  <2>2. app' = [app EXCEPT !.pc = "call", !.level = "dsc", !.at = c]
    BY <1>9, <1>10 DEF DiscoverOn
  <2>3. ASSUME NEW h \in Handle, c < h \/ c = h PROVE Behind(app.at, h)
    BY <1>6, <2>1, <2>3 DEF Behind
  <2>4. \A r \in Services : c < r \/ c = r => cache.chrs[r] = << >>
    BY <1>1, <1>2, <1>7, <2>1, <2>3 DEF DiscoverIs
  <2>5. \A e \in Characteristics : c < e \/ c = e => cache.dscs[e] = << >>
    BY <1>1, <1>2, <2>1, <2>3, HandlesAre DEF DiscoverIs
  <2> QED
    BY <1>8, <2>1, <2>2, <2>4, <2>5
<1>11. CASE c = NoAttr /\ s # NoAttr
  <2>1. /\ s \in ToSet(cache.svcs) /\ s \in Handle /\ s \in Services
        /\ app.level # "svc" => app.at \in Handle /\ app.at < s
    <3>1. CASE app.level = "svc"
      <4>1. s = FrontOf(cache.svcs)
        BY <1>9, <3>1 DEF NextService
      <4> QED
        BY <1>4, <1>11, <3>1, <4>1, FrontIs
    <3>2. CASE app.level # "svc"
      <4>1. app.at \in Handle /\ ServiceOf[app.at] \in ToSet(cache.svcs)
        <5>1. CASE app.level = "chr"
          <6>1. app.at \in Handle /\ app.at \in Services
            BY <1>5, <1>7, <5>1
          <6>2. /\ ServiceOf[app.at] \in Services /\ ServiceOf[app.at] <= app.at
                /\ app.at <= app.at => app.at <= ServiceOf[app.at]
            BY <6>1, ServiceOfIs
          <6>3. ServiceOf[app.at] = app.at
            BY <1>7, <6>1, <6>2
          <6> QED
            BY <1>5, <5>1, <6>1, <6>3
        <5>2. CASE app.level = "dsc"
          BY <1>5, <5>2, HandlesAre
        <5> QED
          BY <1>3, <3>2, <5>1, <5>2
      <4>2. s = After(cache.svcs, ServiceOf[app.at])
        BY <1>9, <3>2 DEF NextService
      <4>3. s \in ToSet(cache.svcs) /\ s \in Handle /\ ServiceOf[app.at] < s
        BY <1>4, <1>11, <4>1, <4>2, AfterIs
      <4>4. s \in Services /\ (s <= app.at => s <= ServiceOf[app.at])
        BY <1>4, <4>1, <4>3, ServiceOfIs
      <4>5. ServiceOf[app.at] \in Nat /\ s \in Nat /\ app.at \in Nat
        BY <1>4, <1>6, <1>7, <4>1, <4>3
      <4> QED
        BY <4>1, <4>3, <4>4, <4>5
    <3> QED
      BY <1>4, <3>1, <3>2
  <2>2. app' = [app EXCEPT !.pc = "call", !.level = "chr", !.at = s]
    BY <1>9, <1>11 DEF DiscoverOn
  <2>3. ASSUME NEW h \in Handle, s < h \/ s = h, app.level # "svc" PROVE Behind(app.at, h)
    BY <1>6, <2>1, <2>3 DEF Behind
  <2>4. \A r \in Services : s < r \/ s = r => cache.chrs[r] = << >>
    BY <1>1, <1>2, <1>7, <2>3 DEF DiscoverIs
  <2>5. \A e \in Characteristics : s < e \/ s = e => cache.dscs[e] = << >>
    BY <1>1, <1>2, <2>3, HandlesAre DEF DiscoverIs
  <2> QED
    BY <1>8, <2>1, <2>2, <2>4, <2>5
<1>12. CASE c = NoAttr /\ s = NoAttr
  <2>1. app' = NoCall
    BY <1>9, <1>12 DEF DiscoverOn
  <2> QED
    BY <1>2, <2>1, ReturnStep
<1> QED
  BY <1>10, <1>11, <1>12

-----------------------------------------------------------------------------
(* The theorems.                                                           *)

LEMMA RemoteInitLemma ==
  ASSUME LookupsArePlain, RemoteInit
  PROVE  RemoteInv
<1>1. /\ cache \in Vectors /\ cache.svcs = << >>
      /\ \A s \in Services : cache.chrs[s] = << >>
      /\ \A c \in Characteristics : cache.dscs[c] = << >>
  BY EmptyIs DEF RemoteInit
<1>2. /\ app = NoCall /\ app.pc = "idle" /\ app.op = "get" /\ app.level = "svc" /\ app.got = 0
      /\ app \in Call /\ ~app.any /\ app.uuid = CCCD /\ app.sub = CCCD /\ app.goal = "none"
  BY NoCallIs DEF RemoteInit
<1>3. stk \in Stack /\ ~stk.busy /\ blind = {}
  BY NothingIs DEF RemoteInit, Stack
<1>4. RemoteTypeOK
  BY <1>1, <1>2, <1>3, PeerAssumption DEF RemoteTypeOK, PeerAssumption
<1>5. VectorsAreOf
  BY <1>1, NothingIs DEF VectorsAreOf
<1> QED
  BY <1>2, <1>3, <1>4, <1>5, PlainsAre
  DEF RemoteInv, PlaceIs, AskedIs, TodoIs, Searching, NotYet, Looking, FoundIs, MissIs, DiscoverIs

LEMMA TaskStepLemma ==
  ASSUME LookupsArePlain, RemoteInv, TaskStep
  PROVE  RemoteInv'
<1>1. CASE Start \/ CountDescriptors \/ StartFails \/ StartIsDone
  BY <1>1, StartStep, CountStep, StartFailsStep
<1>2. CASE GetAnswer \/ GoOn \/ GetAgain \/ SubscribeWrites \/ DiscoverOn
  BY <1>2, GetAnswerStep, GoOnStep, GetAgainStep, SubscribeStep, DiscoverStep
<1>3. CASE GetReturns \/ RefreshReturns \/ DiscoverFails \/ ValueOk \/ ValueFails
  BY <1>3, ReturnsStep
<1>4. CASE WriteNotLong \/ ValueSecure
  BY <1>4, ValueOnStep
<1>5. CASE \E b \in BOOLEAN : ReadNotLong(b) \/ SecureReturns(b)
  BY <1>5, ReturnsStep, SecureReturnsStep
<1> QED
  BY <1>1, <1>2, <1>3, <1>4, <1>5 DEF TaskStep

LEMMA HostStepLemma ==
  ASSUME RemoteInv, HostStep \/ Fault
  PROVE  RemoteInv'
<1>1. CASE ServiceDiscovered \/ CharacteristicDisc \/ DescriptorFound \/ DescriptorPassedOver
  BY <1>1, ServiceStep, CharacteristicStep, DescriptorStep, PassedOverStep
<1>2. CASE ReadChunk \/ ProcedureDone \/ AccessDenied \/ ProcedureFails \/ AttrNotLong \/ LinkLost
  BY <1>2, ReadChunkStep, ReleaseStep, LinkLostStep
<1>3. CASE Encrypted \/ StrayEnds
  <2>1. stk \in Stack /\ (stk.busy => stk.up)
    BY DEF RemoteInv, RemoteTypeOK
  <2>2. /\ cache' = cache /\ app' = app /\ blind' = blind /\ stk' \in Stack
        /\ stk'.busy = stk.busy /\ stk'.todo = stk.todo /\ stk'.up = stk.up
    BY <1>3, <2>1 DEF Encrypted, StrayEnds, Stay, Stack
  <2> QED
    BY <2>1, <2>2, StackStep
<1> QED
  BY <1>1, <1>2, <1>3 DEF HostStep, Fault

\* The vectors, the call and the search under way fit together: what a lookup has
\* missed is not where it has been searched (NimBLEClient, NimBLERemoteService and
\* NimBLERemoteCharacteristic, with the callbacks of their procedures).
THEOREM RemoteInvariance ==
  ASSUME LookupsArePlain
  PROVE  RemoteSpec => []RemoteInv
<1>1. RemoteInit => RemoteInv
  BY RemoteInitLemma
<1>2. RemoteInv /\ [RemoteNext]_remoteVars => RemoteInv'
  <2>1. ASSUME RemoteInv, RemoteNext PROVE RemoteInv'
    BY <2>1, AppCallStep, TaskStepLemma, HostStepLemma DEF RemoteNext
  <2>2. ASSUME RemoteInv, UNCHANGED remoteVars PROVE RemoteInv'
    <3>1. cache' = cache /\ app' = app /\ stk' = stk /\ blind' = blind
      BY <2>2 DEF remoteVars
    <3>2. stk' \in Stack /\ (stk.busy => stk'.up)
      BY <2>2, <3>1 DEF RemoteInv, RemoteTypeOK
    <3> QED
      BY <2>2, <3>1, <3>2, StackStep
  <2> QED
    BY <2>1, <2>2
<1> QED
  BY <1>1, <1>2, PTL DEF RemoteSpec

\* The descriptors kept for a characteristic are its own, each once, beside the
\* declaration of the next characteristic (retrieveDescriptors()).
THEOREM DescriptorsAreOwnAlways ==
  ASSUME LookupsArePlain
  PROVE  RemoteSpec => []DescriptorsAreOwn
<1>1. RemoteInv => DescriptorsAreOwn
  BY DEF RemoteInv, VectorsAreOf, DescriptorsAreOwn, Others
<1> QED
  BY <1>1, RemoteInvariance, PTL

\* A notification finds the characteristic of its value.
LEMMA NotifiedIs ==
  ASSUME RemoteTypeOK, VectorsAreOf, NEW h \in Handle
  PROVE  GetCharacteristic(h) = IF h - 1 \in Known("dsc") THEN h - 1 ELSE NoAttr
<1> DEFINE in == {s \in ToSet(cache.svcs) : s <= h /\ h <= End[s]}
           C == {c \in UNION {ToSet(cache.chrs[s]) : s \in in} : ValueHandle(c) = h}
<1>1. h \in Nat /\ \A s \in ToSet(cache.svcs) : s \in Services
  BY HandlesAre DEF VectorsAreOf
<1>2. GetCharacteristic(h) = IF C = {} THEN NoAttr ELSE Min(C)
  BY DEF GetCharacteristic
<1>3. Known("dsc") = UNION {ToSet(cache.chrs[s]) : s \in ToSet(cache.svcs)}
  BY DEF Known
<1>4. ASSUME NEW s \in ToSet(cache.svcs), NEW c \in ToSet(cache.chrs[s])
      PROVE  /\ c \in Nat /\ s <= c /\ c + 1 <= End[s] /\ s \in Nat
  <2>1. c \in Characteristics /\ ServiceOf[c] = s /\ s \in Services
    BY <1>1, <1>4 DEF VectorsAreOf, CharacteristicsOf
  <2> QED
    BY <2>1, ValueIs, HandlesAre
<1>5. ASSUME NEW c \in C PROVE c = h - 1 /\ c \in Known("dsc")
  <2>1. PICK s \in ToSet(cache.svcs) : c \in ToSet(cache.chrs[s])
    OBVIOUS
  <2>2. c + 1 = h /\ c \in Nat
    BY <1>4, <2>1 DEF ValueHandle
  <2> QED
    BY <1>1, <1>3, <2>1, <2>2
<1>6. ASSUME h - 1 \in Known("dsc") PROVE h - 1 \in C
  <2>1. PICK s \in ToSet(cache.svcs) : h - 1 \in ToSet(cache.chrs[s])
    BY <1>3, <1>6
  <2>2. s <= h - 1 /\ h - 1 + 1 <= End[s] /\ s \in Nat
    BY <1>4, <2>1
  <2>3. h - 1 + 1 = h /\ s <= h
    BY <1>1, <2>2
  <2>4. s \in in
    BY <2>2, <2>3
  <2> QED
    BY <2>1, <2>3, <2>4 DEF ValueHandle
<1> HIDE DEF C
<1>7. CASE h - 1 \in Known("dsc")
  <2>1. C # {} /\ C \subseteq Nat
    <3>1. PICK s \in ToSet(cache.svcs) : h - 1 \in ToSet(cache.chrs[s])
      BY <1>3, <1>7
    <3>2. h - 1 \in Nat
      BY <1>4, <3>1
    <3> QED
      BY <1>5, <1>6, <1>7, <3>2
  <2>2. Min(C) \in C
    BY <2>1, MinIs
  <2> QED
    BY <1>2, <1>5, <1>7, <2>1, <2>2
<1>8. CASE h - 1 \notin Known("dsc")
  <2>1. C = {}
    BY <1>5, <1>8
  <2> QED
    BY <1>2, <1>8, <2>1
<1> QED
  BY <1>7, <1>8

\* A lookup that succeeds answers an attribute with the UUID sought if the peer has
\* one there, and nullptr if it has none (getService(), getCharacteristic(),
\* getDescriptor()).
THEOREM LookupFindsAlways ==
  ASSUME LookupsArePlain
  PROVE  RemoteSpec => []LookupFinds
<1>1. RemoteInv => LookupFinds
  <2> SUFFICES ASSUME RemoteInv PROVE LookupFinds
    OBVIOUS
  <2>1. RemoteTypeOK /\ VectorsAreOf /\ PlaceIs /\ AskedIs /\ FoundIs /\ MissIs
    BY DEF RemoteInv
  <2>2. ASSUME app.pc = "answer", app.rc = "ok", app.level = "dsc" => app.at \notin blind /\ ~app.late
        PROVE  IF app.found = NoAttr THEN Matches = {} ELSE app.found \in Matches
    <3>1. /\ Looking /\ app.op = "get" /\ app.level \in {"svc", "chr", "dsc"} /\ ~app.any
          /\ ~stk.busy
      BY <2>1, <2>2, AppIs DEF Looking, AskedIs, RemoteTypeOK
    <3>2. Matches = {h \in Scope : Equal(UUIDOf(app.level, h), app.uuid)}
      BY DEF Matches, Scope, ScopeOf
    <3>3. CASE app.found = NoAttr
      <4>1. \A h \in Scope : ~Equal(UUIDOf(app.level, h), app.uuid)
        BY <2>1, <2>2, <3>1, <3>3 DEF MissIs
      <4> QED
        BY <3>2, <3>3, <4>1
    <3>4. CASE app.found # NoAttr
      <4>1. /\ app.found \in ToSet(Vector(app.level, app.at))
            /\ Equal(UUIDOf(app.level, app.found), app.uuid)
        BY <2>1, <3>1, <3>4 DEF FoundIs
      <4>2. app.found \in Scope
        <5>1. CASE app.level = "svc"
          BY <2>1, <4>1, <5>1, VectorIs DEF Scope, ScopeOf
        <5>2. CASE app.level = "chr"
          <6>1. app.at \in Services
            BY <2>1, <5>2, PlaceLemma
          <6> QED
            BY <2>1, <4>1, <5>2, <6>1, VectorIs DEF Scope, ScopeOf
        <5>3. CASE app.level = "dsc"
          <6>1. app.at \in Characteristics
            BY <2>1, <5>3, PlaceLemma
          <6>2. app.found \in OwnDescriptors[app.at] \/ app.found \in NextDeclaration(app.at)
            BY <2>1, <2>2, <4>1, <5>3, <6>1, VectorIs DEF Others
          <6>3. app.found \in NextDeclaration(app.at) => UUIDOf(app.level, app.found) = Declared
            BY <5>3 DEF NextDeclaration, UUIDOf
          <6>4. ~Equal(Declared, app.uuid)
            BY <2>1, <3>1, <5>3 DEF AskedIs
          <6> QED
            BY <4>1, <5>3, <6>2, <6>3, <6>4 DEF Scope, ScopeOf
        <5> QED
          BY <3>1, <5>1, <5>2, <5>3
      <4> QED
        BY <3>2, <3>4, <4>1, <4>2
    <3> QED
      BY <3>3, <3>4
  <2>3. \A h \in Handle : GetCharacteristic(h) = IF h - 1 \in Known("dsc") THEN h - 1 ELSE NoAttr
    BY <2>1, NotifiedIs
  <2> QED
    BY <2>1, <2>2, <2>3 DEF LookupFinds
<1> QED
  BY <1>1, RemoteInvariance, PTL
=============================================================================
