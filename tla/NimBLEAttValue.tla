--------------------------- MODULE NimBLEAttValue ---------------------------
(***************************************************************************)
(* The value of a local attribute: NimBLEAttValue with its buffer in the   *)
(* heap, the calls by which tasks set, copy and notify it, and             *)
(* NimBLEServer::handleGattEvent(), by which the host task serves the      *)
(* reads and writes of peers.  Only the copying of bytes is in a critical  *)
(* section; the steps of a call are the stretches between accesses that    *)
(* another thread can see.                                                 *)
(***************************************************************************)
EXTENDS Integers, Sequences

CONSTANTS
  Tasks,       \* the tasks of the application; the host task is another thread
  Readers,     \* the peers that read, and the host itself, by who asks
  Texts,       \* the values that are set: sequences of bytes
  InitLength,  \* initLen, the capacity of a new value
  MaxLength,   \* maxLen
  Part,        \* how many bytes the answer to one read holds
  Blocks       \* bound: the blocks of the heap that are used at once, by number

ASSUME ValueAssumption ==
  /\ InitLength \in Nat \ {0} /\ MaxLength \in Nat /\ Part \in Nat \ {0}
  /\ Blocks \subseteq Nat /\ 1 \in Blocks
  /\ \A text \in Texts : Len(text) \in Nat /\ text = [i \in 1..Len(text) |-> text[i]]

VARIABLES
  m_value,  \* m_attr_value (a block), m_attr_len and m_capacity
  heap,     \* the bytes of each block; none where it is free
  caller,   \* by thread: where its call is, and what it works with
  reads,    \* by reader: whether a read is open, and the bytes that it got
  races,    \* history: how threads have met, or the heap was out of memory
  fault     \* history: what accessed bytes that are not the value's

attVars == <<m_value, heap, caller, reads, races, fault>>

Nul == "nul"    \* the byte 0
Junk == "junk"  \* a byte that nothing has set

Nobody == "nobody"
NoRead == [open |-> FALSE, got |-> << >>, alone |-> FALSE]
AttThreads == Tasks \cup {"host"}
Rest == [at |-> "idle"]
In(t) == caller[t].at
Moves(t, c) == caller' = [caller EXCEPT ![t] = c]
MovesTo(t, at) == Moves(t, [caller[t] EXCEPT !.at = at])

\* A new value has no bytes, in a buffer for InitLength and a final 0.
AttInit ==
  /\ m_value = [block |-> 1, len |-> 0, capacity |-> InitLength]
  /\ heap = [b \in Blocks |-> IF b = 1 THEN [i \in 1..(InitLength + 1) |-> Nul] ELSE << >>]
  /\ caller = [t \in AttThreads |-> Rest]
  /\ reads = [p \in Readers |-> NoRead]
  /\ races = {} /\ fault = {}

\* The first n bytes of a block are there.
Holds(b, n) == n <= Len(heap[b])

\* A block with bytes copied to where its first n end, as far as it goes.
Put(block, n, bytes) ==
  [i \in DOMAIN block |-> IF i \in (n + 1)..(n + Len(bytes)) THEN bytes[i - n] ELSE block[i]]

\* The bytes of the value, as far as there are any.
Stored ==
  LET there == Len(heap[m_value.block])
  IN  SubSeq(heap[m_value.block], 1, IF m_value.len <= there THEN m_value.len ELSE there)

-----------------------------------------------------------------------------
(* setValue(), by any thread.                                              *)

Setting(t) == In(t) \in {"set", "append", "copy", "check"}

\* A new call of a thread; it is alone if no thread is setting the value.
NewCall(at, text, back, len, p) ==
  [at |-> at, text |-> text, back |-> back, res |-> 1, len |-> len, got |-> << >>,
   alone |-> \A u \in AttThreads : ~Setting(u), peer |-> p]

\* What a thread sets, and where it goes on afterwards.
Sets(t, text, back) == Moves(t, [caller[t] EXCEPT !.at = "set", !.text = text, !.back = back])

\* A thread that sets disturbs the copies that are under way ...
Disturb(t) == [u \in AttThreads |->
  IF u = t THEN [caller[u] EXCEPT !.at = "append"]
  ELSE IF In(u) \in {"copying", "read"} THEN [caller[u] EXCEPT !.alone = FALSE]
  ELSE caller[u]]

\* ... and the reads that are open, but not the one whose onRead() it is.
OwnRead(t, p) == t = "host" /\ caller[t].back = "reading" /\ caller[t].peer = p
DisturbReads(t) == [p \in Readers |->
  IF OwnRead(t, p) THEN reads[p] ELSE [reads[p] EXCEPT !.alone = FALSE]]

Fails(kind, wrong) == fault' = IF wrong THEN fault \cup {kind} ELSE fault

\* The length is set to 0, and the first byte.
SetEmpties(t) ==
  /\ In(t) = "set"
  /\ caller' = Disturb(t) /\ reads' = DisturbReads(t)
  /\ m_value' = [m_value EXCEPT !.len = 0]
  /\ heap' = [heap EXCEPT ![m_value.block] = Put(@, 0, <<Nul>>)]
  /\ Fails("access", ~Holds(m_value.block, 1))
  /\ races' = IF \E u \in AttThreads \ {t} : Setting(u) /\ In(u) # "set"
              THEN races \cup {"writers"} ELSE races

\* Mutant: one byte too many passes for the capacity's.
FitsOneTooMany(n) == n <= m_value.capacity + 1

FitsCapacity(n) == n <= m_value.capacity

\* realloc(): the block grows, in its place or in another, or there is no memory.
Grown(block, n) == [i \in 1..(n + 1) |-> IF i <= Len(block) THEN block[i] ELSE Junk]

InUse == {m_value.block} \cup {b \in Blocks : heap[b] # << >>}
           \cup {caller[t].res : t \in {u \in AttThreads : In(u) = "copy"}}

\* The outcomes: the heap and the block.
Realloc(n) ==
  LET b == m_value.block
  IN {[heap |-> [heap EXCEPT ![b] = Grown(@, n)], block |-> b]} \cup
     {[heap |-> [heap EXCEPT ![b] = << >>, ![c] = Grown(heap[b], n)], block |-> c] :
        c \in {d \in Blocks \ InUse : \A e \in Blocks \ InUse : d <= e}}

\* append(): too long a value is refused.  The capacity is that of the buffer to
\* come even if there is no memory for it.
SetAppends(t) ==
  LET text == caller[t].text
      n == m_value.len + Len(text)
  IN /\ In(t) = "append"
     /\ UNCHANGED reads
     /\ \/ /\ text = << >> \/ n > MaxLength
           /\ MovesTo(t, "check")
           /\ UNCHANGED <<m_value, heap, races, fault>>
        \/ /\ text # << >> /\ n <= MaxLength /\ FitsCapacity(n)
           /\ Moves(t, [caller[t] EXCEPT !.at = "copy", !.res = m_value.block, !.len = n])
           /\ UNCHANGED <<m_value, heap, races, fault>>
        \/ /\ text # << >> /\ n <= MaxLength /\ ~FitsCapacity(n)
           /\ m_value' = [m_value EXCEPT !.capacity = n]
           /\ \/ /\ MovesTo(t, "check")
                 /\ races' = races \cup {"no memory"}
                 /\ UNCHANGED <<heap, fault>>
              \/ \E r \in Realloc(n) :
                   /\ heap' = r.heap
                   /\ Moves(t, [caller[t] EXCEPT !.at = "copy", !.res = r.block, !.len = n])
                   /\ Fails("access", ~Holds(m_value.block, 1))
                   /\ UNCHANGED races

\* The critical section of append().
SetCopies(t) ==
  LET c == caller[t]
      end == m_value.len + Len(c.text)
  IN /\ In(t) = "copy"
     /\ heap' = [heap EXCEPT ![c.res] = Put(Put(@, m_value.len, c.text), c.len, <<Nul>>)]
     /\ m_value' = [m_value EXCEPT !.block = c.res, !.len = c.len]
     /\ Fails("access", ~Holds(c.res, end) \/ ~Holds(c.res, c.len + 1))
     /\ MovesTo(t, "check")
     /\ UNCHANGED <<reads, races>>

\* A value that append() has refused by its length, though no peer wrote it.
TooLong(c) == Len(c.text) > MaxLength /\ c.back # "onWrite"

\* setValue() compares what is there with what was asked for, as many bytes as
\* these, whatever append() did with them, and returns.
SetReturns(t) ==
  /\ In(t) = "check"
  /\ Fails(IF TooLong(caller[t]) THEN "compare" ELSE "access",
           ~Holds(m_value.block, Len(caller[t].text)))
  /\ MovesTo(t, caller[t].back)
  /\ UNCHANGED <<m_value, heap, reads, races>>

-----------------------------------------------------------------------------
(* The calls of a task.                                                    *)

\* A thread frees the buffer of the value before it puts the new one in place.
Dangling == \E t \in AttThreads : In(t) = "copy" /\ caller[t].res # m_value.block

\* What an access to the first n bytes of the value meets.
Accessed(n, room) ==
  /\ Fails("access", ~Holds(m_value.block, n) \/ n > room)
  /\ races' = IF Dangling \/ m_value.capacity + 1 > room THEN races \cup {"grown"} ELSE races

SetValue(t) ==
  /\ In(t) = "idle"
  /\ \E text \in Texts : Moves(t, NewCall("set", text, "idle", 0, Nobody))
  /\ UNCHANGED <<m_value, heap, reads, races, fault>>

\* getValue(), notify() and indicate() copy the value: the room is allocated for
\* the capacity of that time, the bytes are copied in a critical section.
CopyValue(t) ==
  /\ In(t) = "idle"
  /\ Moves(t, NewCall("copying", << >>, "idle", m_value.capacity + 1, Nobody))
  /\ UNCHANGED <<m_value, heap, reads, races, fault>>

CopyBytes(t) ==
  /\ In(t) = "copying"
  /\ Accessed(m_value.len + 1, caller[t].len)
  /\ Moves(t, [caller[t] EXCEPT !.at = "read", !.got = Stored])
  /\ UNCHANGED <<m_value, heap, reads>>

CopyReturns(t) ==
  /\ In(t) = "read"
  /\ Moves(t, Rest)
  /\ UNCHANGED <<m_value, heap, reads, races, fault>>

-----------------------------------------------------------------------------
(* The host task.                                                          *)

\* A peer begins to read, or the host itself, for which readEvent() is not called.
\* A read that it has not finished is given up.
HostReads ==
  /\ In("host") = "idle"
  /\ \E p \in Readers, at \in {"onRead", "reading"} :
       /\ Moves("host", NewCall(at, << >>, "idle", 0, p))
       /\ reads' = [reads EXCEPT ![p] = [open |-> TRUE, got |-> << >>,
                                        alone |-> \A u \in AttThreads : ~Setting(u)]]
  /\ UNCHANGED <<m_value, heap, races, fault>>

\* Mutant: readEvent() is called for each of the parts.
ReadAgain == "onRead"

\* A read of the rest of a long value has an empty buffer: no readEvent().
ReadOn == "reading"

\* The next part of a long value is another event: the host task has served what
\* came between, reads and writes of other peers too.
HostReadsOn ==
  /\ In("host") = "idle"
  /\ \E p \in Readers :
       /\ reads[p].open
       /\ Moves("host", NewCall(ReadOn, << >>, "idle", 0, p))
  /\ UNCHANGED <<m_value, heap, reads, races, fault>>

\* onRead() may set the value, which does not disturb its own read.
OnRead ==
  /\ In("host") = "onRead"
  /\ MovesTo("host", "reading") \/ \E text \in Texts : Sets("host", text, "reading")
  /\ UNCHANGED <<m_value, heap, reads, races, fault>>

\* The stack takes the bytes that the peer has not got yet; a part that is not
\* full is the last.
ReadBytes ==
  LET p == caller["host"].peer
      rest == SubSeq(Stored, Len(reads[p].got) + 1, Len(Stored))
  IN /\ In("host") = "reading"
     /\ Accessed(m_value.len, m_value.capacity + 1)
     /\ reads' = [reads EXCEPT ![p].got = @ \o SubSeq(rest, 1, IF Len(rest) < Part THEN Len(rest) ELSE Part)]
     /\ Moves("host", IF Len(rest) < Part THEN [caller["host"] EXCEPT !.at = "told"] ELSE Rest)
     /\ UNCHANGED <<m_value, heap>>

ReadReturns ==
  /\ In("host") = "told"
  /\ Moves("host", Rest)
  /\ reads' = [reads EXCEPT ![caller["host"].peer] = NoRead]
  /\ UNCHANGED <<m_value, heap, races, fault>>

\* Mutant: the length of the first buffer of the chain alone is compared.
FirstFits(first, rest) == first <= MaxLength

\* A write comes in a chain of buffers, each of which has to fit.
WriteFits(first, rest) == first <= MaxLength /\ first + rest <= MaxLength

HostWrites ==
  /\ In("host") = "idle"
  /\ \E text \in Texts :
       /\ \E first \in 0..Len(text) : WriteFits(first, Len(text) - first)
       /\ Moves("host", NewCall("set", text, "onWrite", 0, Nobody))
  /\ UNCHANGED <<m_value, heap, reads, races, fault>>

OnWrite ==
  /\ In("host") = "onWrite"
  /\ Moves("host", Rest) \/ \E text \in Texts : Sets("host", text, "idle")
  /\ UNCHANGED <<m_value, heap, reads, races, fault>>

AttNext ==
  \/ \E t \in AttThreads : SetEmpties(t) \/ SetAppends(t) \/ SetCopies(t) \/ SetReturns(t)
  \/ \E t \in Tasks : SetValue(t) \/ CopyValue(t) \/ CopyBytes(t) \/ CopyReturns(t)
  \/ HostReads \/ HostReadsOn \/ OnRead \/ ReadBytes \/ ReadReturns \/ HostWrites \/ OnWrite

-----------------------------------------------------------------------------
(* Properties.                                                             *)

\* Bytes that are not the value's are accessed only if two threads set it at
\* once, if it grows while another copies or reads it, or after a failed
\* realloc(): no other interleaving does so.  Of the sequences of calls of one
\* thread only setValue() with more than maxLen bytes does, by its comparison
\* ("compare"), and no write of a peer: whoever sets, the comparison stays within
\* the buffer if the value is not too long.
MemoryIsSafe ==
  /\ "access" \in fault => races # {}
  /\ \A t \in AttThreads :
       (In(t) = "check" /\ races = {} /\ ~TooLong(caller[t]))
         => Holds(m_value.block, Len(caller[t].text))

\* After setValue() the value is what was asked for, unless it was too long or
\* two threads set it at once: for a write that handleGattEvent() accepted always.
SetIsStored ==
  \A t \in AttThreads :
    (In(t) = "check" /\ races = {} /\ (Len(caller[t].text) <= MaxLength \/ caller[t].back = "onWrite"))
      => Stored = caller[t].text

\* What a thread has copied, and a peer has read, is a value that was set, or
\* none, unless the value was set meanwhile: for a read in several parts by a
\* task, by a write or by the onRead() of another read, which the host task
\* serves between the parts; its own onRead() never comes between them.
ReadIsWhole ==
  races = {} =>
    /\ \A t \in Tasks : In(t) = "read" /\ caller[t].alone => caller[t].got \in Texts \cup {<< >>}
    /\ In("host") = "told" /\ reads[caller["host"].peer].alone
         => reads[caller["host"].peer].got \in Texts \cup {<< >>}
=============================================================================
