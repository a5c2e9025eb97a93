---------------------------- MODULE NimBLEStream ----------------------------
(***************************************************************************)
(* The transmit side of NimBLEStreamServer and NimBLEStreamClient: write() *)
(* and flush() of an application task, the drain event and its callout in  *)
(* the host task, and the subscribers of the server's characteristic, of   *)
(* which the stream serves one.                                            *)
(*                                                                         *)
(* The TX buffer is the bounded FIFO that ByteRingBuffer implements.  Its  *)
(* bytes are numbered in the order in which write() accepted them.  Both   *)
(* tasks run the same send(), cut at each access to what they share.  The  *)
(* server's characteristic is the application's own.                       *)
(***************************************************************************)
EXTENDS Integers, Sequences, FiniteSets, SequencesExt

CONSTANTS
  Peers,     \* connection handles
  NoPeer,    \* BLE_HS_CONN_HANDLE_NONE
  Slots,     \* BLE_MAX_CONNECTIONS
  Streams,   \* the streams considered: role, and whether links must be secure
  Capacity,  \* m_txBufSize
  Chunk,     \* MTU - 3, or the size of m_txChunkBuf
  Overlap,   \* whether flush() may overlap the drain event
  MaxBytes   \* bound on the bytes that the application writes

ASSUME StreamAssumption ==
  /\ NoPeer \notin Peers
  /\ Slots \in Nat \ {0} /\ Cardinality(Peers) <= Slots
  /\ Streams \subseteq [role : {"server", "client"}, secure : BOOLEAN]
  /\ Capacity \in Nat \ {0} /\ Chunk \in Nat \ {0}
  /\ Overlap \in BOOLEAN
  /\ MaxBytes \in Nat

VARIABLES
  opt,   \* which stream it is
  str,   \* the NimBLEStream
  sub,   \* m_subPeers of the characteristic
  stk,   \* the stack: links, their encryption, subscriptions; msys buffers
  thr,   \* where the host task and the application's task are
  hist   \* history: what became of the bytes

vars == <<opt, str, sub, stk, thr, hist>>

Byte == 1..MaxBytes

\* tx: m_txBuf; event: m_txDrainEvent is queued; callout: m_txDrainCallout runs;
\* peer: m_peerHandle; nomem: m_rc is BLE_HS_ENOMEM.
Stream == [begun : BOOLEAN, tx : BoundedSeq(Byte, Capacity), event : BOOLEAN,
           callout : BOOLEAN, peer : Peers \cup {NoPeer}, nomem : BOOLEAN]

SubPeerEntry == [peer : Peers \cup {NoPeer}, secured : BOOLEAN, awaiting : BOOLEAN]

\* low: os_msys_num_free() <= 2, with which an allocation may fail.
Stack == [links : SUBSET Peers, enc : SUBSET Peers, cccd : SUBSET Peers, low : BOOLEAN]

\* chunk: what send() copied to m_txChunkBuf; before: the size as flush() saw it;
\* peer: the connHandle that notify() was given; to: of the subscribers that
\* sendValue() copied, those that are still to get the value; ended (history):
\* those of them whose link has ended since.
Thread == [pc : {"idle", "wrote", "flush", "send", "notify", "value", "failed", "drop"},
           chunk : BoundedSeq(Byte, Chunk), before : 0..Capacity,
           peer : Peers \cup {NoPeer}, to : SUBSET Peers, ended : SUBSET Peers]

\* Why the last send() of the host task left bytes without a retry: for lack of
\* buffers; or, "freed", for a lack that was over when it asked for the free buffers.
Reason == {"no", "notReady", "error", "buffers", "freed"}

\* accepted: how many bytes write() took; sent: those in the values that were sent
\* to whom they were for; lost: those that flush() or end() cleared, or were
\* notified to nobody; starved: the value that failed failed for lack of buffers.
History == [accepted : 0..MaxBytes, sent : Seq(Byte), lost : SUBSET Byte,
            gaveUp : Reason, starved : BOOLEAN]

TypeOK ==
  /\ opt \in Streams
  /\ str \in Stream
  /\ sub \in [1..Slots -> SubPeerEntry]
  /\ stk \in Stack
  /\ thr \in [{"host", "app"} -> Thread]
  /\ hist \in History
  /\ \A i, j \in 1..Slots : sub[i].peer = sub[j].peer /\ i # j => sub[i].peer = NoPeer

NoSub == [peer |-> NoPeer, secured |-> FALSE, awaiting |-> FALSE]
Idle == [pc |-> "idle", chunk |-> << >>, before |-> 0, peer |-> NoPeer, to |-> {}, ended |-> {}]

Init ==
  /\ opt \in Streams
  /\ str = [begun |-> FALSE, tx |-> << >>, event |-> FALSE, callout |-> FALSE,
            peer |-> NoPeer, nomem |-> FALSE]
  /\ sub = [i \in 1..Slots |-> NoSub]
  /\ stk = [links |-> {}, enc |-> {}, cccd |-> {}, low |-> FALSE]
  /\ thr = [t \in {"host", "app"} |-> Idle]
  /\ hist = [accepted |-> 0, sent |-> << >>, lost |-> {}, gaveUp |-> "no", starved |-> FALSE]

Server == opt.role = "server"
At(t, pc) == thr[t].pc = pc
Goto(t, pc) == thr' = [thr EXCEPT ![t].pc = pc]
Sending(t) == thr[t].pc \in {"send", "notify", "value", "failed", "drop"}

-----------------------------------------------------------------------------
(* Subscriptions.                                                          *)

\* NimBLEStreamServer::ChrCallbacks::onSubscribe()
PeerOnSubscribe(s, p, on) ==
  LET active == IF s.peer \in stk.links THEN s.peer ELSE NoPeer
  IN  IF ~s.begun THEN s
      ELSE IF on /\ active # NoPeer THEN [s EXCEPT !.peer = active]
      ELSE [s EXCEPT !.peer = IF on THEN p ELSE NoPeer]

Entries(p) == {i \in 1..Slots : sub[i].peer = p}

FirstFree == CHOOSE i \in Entries(NoPeer) : \A j \in Entries(NoPeer) : i <= j

\* processSubRequest() of a subscription.  An existing entry is not changed; a
\* new one on a link that must be secure and is not waits, without onSubscribe().
SubscribeRequest(p) ==
  LET waits == opt.secure /\ p \notin stk.enc
  IN  IF Entries(p) = {}
      THEN /\ sub' = [sub EXCEPT ![FirstFree] =
                        [peer |-> p, secured |-> p \in stk.enc, awaiting |-> waits]]
           /\ str' = IF waits THEN str ELSE PeerOnSubscribe(str, p, TRUE)
      ELSE /\ str' = PeerOnSubscribe(str, p, TRUE)
           /\ UNCHANGED sub

UnsubscribeRequest(p) ==
  /\ sub' = [i \in 1..Slots |-> IF i \in Entries(p) THEN NoSub ELSE sub[i]]
  /\ str' = PeerOnSubscribe(str, p, FALSE)

HostIsFree == At("host", "idle")

Subscribe(p) ==
  /\ Server /\ HostIsFree
  /\ p \in stk.links \ stk.cccd
  /\ stk' = [stk EXCEPT !.cccd = @ \cup {p}]
  /\ SubscribeRequest(p)
  /\ UNCHANGED <<opt, thr, hist>>

\* A subscriber changes from notifications to indications.
Resubscribe(p) ==
  /\ Server /\ HostIsFree
  /\ p \in stk.cccd
  /\ SubscribeRequest(p)
  /\ UNCHANGED <<opt, stk, thr, hist>>

Unsubscribe(p) ==
  /\ Server /\ HostIsFree
  /\ p \in stk.cccd
  /\ stk' = [stk EXCEPT !.cccd = @ \ {p}]
  /\ UnsubscribeRequest(p)
  /\ UNCHANGED <<opt, thr, hist>>

\* updatePeerStatus(): whoever waited is announced, secured or not.
UpdatePeerStatus(p, secured) ==
  /\ sub' = [i \in 1..Slots |->
               IF i \in Entries(p)
               THEN [sub[i] EXCEPT !.secured = secured, !.awaiting = FALSE]
               ELSE sub[i]]
  /\ str' = IF \E i \in Entries(p) : sub[i].awaiting
            THEN PeerOnSubscribe(str, p, TRUE) ELSE str

EncChange(p, ok) ==
  /\ Server /\ HostIsFree
  /\ p \in stk.links
  /\ stk' = [stk EXCEPT !.enc = IF ok THEN @ \cup {p} ELSE @]
  /\ UpdatePeerStatus(p, p \in stk'.enc)
  /\ UNCHANGED <<opt, thr, hist>>

LinkUp(p) ==
  /\ HostIsFree
  /\ p \notin stk.links
  /\ Server \/ stk.links = {}
  /\ stk' = [stk EXCEPT !.links = @ \cup {p}]
  /\ UNCHANGED <<opt, str, sub, thr, hist>>

\* The stack first reports the subscription of a link that ends as cancelled.
LinkDown(p) ==
  /\ HostIsFree
  /\ p \in stk.links
  /\ stk' = [stk EXCEPT !.links = @ \ {p}, !.enc = @ \ {p}, !.cccd = @ \ {p}]
  /\ IF p \in stk.cccd THEN UnsubscribeRequest(p) ELSE UNCHANGED <<str, sub>>
  /\ thr' = [t \in {"host", "app"} |-> [thr[t] EXCEPT !.ended = @ \cup ({p} \cap thr[t].to)]]
  /\ UNCHANGED <<opt, hist>>

BuffersChange ==
  /\ stk' = [stk EXCEPT !.low = ~@]
  /\ UNCHANGED <<opt, str, sub, thr, hist>>

-----------------------------------------------------------------------------
(* The application's calls.                                                *)

ServerReady == str.begun /\ str.peer \in stk.links
ClientReady == str.begun /\ stk.links # {}
Ready == IF Server THEN ServerReady ELSE ClientReady

Quiet == \A t \in {"host", "app"} : At(t, "idle")

\* NimBLEStream::begin(); one that fails leaves everything as it was.
Begun == [str EXCEPT !.begun = TRUE]

BeginServer ==
  /\ Server /\ Quiet /\ ~str.begun
  /\ str' = Begun
  /\ UNCHANGED <<opt, sub, stk, thr, hist>>

BeginClient ==
  /\ ~Server /\ Quiet /\ ~str.begun
  /\ str' = Begun
  /\ UNCHANGED <<opt, sub, stk, thr, hist>>

\* NimBLEStream::end().  m_rc is not reset.
Ended == [str EXCEPT !.begun = FALSE, !.tx = << >>, !.event = FALSE, !.callout = FALSE]
EndLoses == [hist EXCEPT !.lost = @ \cup ToSet(str.tx), !.gaveUp = "no"]

\* The caller sees to it that nobody sends meanwhile.
EndServer ==
  /\ Server /\ Quiet /\ str.begun
  /\ str' = [Ended EXCEPT !.peer = NoPeer]
  /\ hist' = EndLoses
  /\ UNCHANGED <<opt, sub, stk, thr>>

EndClient ==
  /\ ~Server /\ Quiet /\ str.begun
  /\ str' = Ended
  /\ hist' = EndLoses
  /\ UNCHANGED <<opt, sub, stk, thr>>

\* ByteRingBuffer::write() takes what fits, which may be nothing.
Fits(n) ==
  /\ Len(str.tx) + n <= Capacity
  /\ n = 0 => Len(str.tx) = Capacity

\* write(): what fits goes to the buffer, then drainTx().
Write(n) ==
  /\ At("app", "idle")
  /\ str.begun /\ (Server => Ready)
  /\ hist.accepted + n <= MaxBytes
  /\ Fits(n)
  /\ str' = [str EXCEPT !.tx = @ \o [i \in 1..n |-> hist.accepted + i]]
  /\ hist' = [hist EXCEPT !.accepted = @ + n]
  /\ Goto("app", "wrote")
  /\ UNCHANGED <<opt, sub, stk>>

\* drainTx(): an event that is queued is not queued twice.
Drain(s) == [s EXCEPT !.event = @ \/ s.tx # << >>]
Drained == [hist EXCEPT !.gaveUp = IF str.tx = << >> THEN @ ELSE "no"]

WriteDrains ==
  /\ At("app", "wrote")
  /\ str' = Drain(str)
  /\ hist' = Drained
  /\ Goto("app", "idle")
  /\ UNCHANGED <<opt, sub, stk>>

FlushBegin ==
  /\ At("app", "idle")
  /\ str.begun /\ str.tx # << >>
  /\ Overlap \/ (HostIsFree /\ ~str.event /\ ~str.callout)
  /\ Goto("app", "flush")
  /\ UNCHANGED <<opt, str, sub, stk, hist>>

\* The head of the loop in flush()
FlushLoop ==
  /\ At("app", "flush")
  /\ thr' = [thr EXCEPT !["app"].pc = IF str.tx = << >> THEN "idle" ELSE "send",
                        !["app"].before = Len(str.tx)]
  /\ UNCHANGED <<opt, str, sub, stk, hist>>

-----------------------------------------------------------------------------
(* The drain event and callout.                                            *)

DrainEvent ==
  /\ HostIsFree /\ str.event
  /\ str' = [str EXCEPT !.event = FALSE]
  /\ Goto("host", "send")
  /\ UNCHANGED <<opt, sub, stk, hist>>

\* Mutant: the callout is over and no event queued.
CalloutEnds ==
  /\ HostIsFree /\ str.callout
  /\ str' = [str EXCEPT !.callout = FALSE]
  /\ UNCHANGED <<opt, sub, stk, thr, hist>>

DrainCallout ==
  /\ HostIsFree /\ str.callout
  /\ str' = Drain([str EXCEPT !.callout = FALSE])
  /\ hist' = Drained
  /\ UNCHANGED <<opt, sub, stk, thr>>

-----------------------------------------------------------------------------
(* send(), in either task.                                                 *)

Cleared == [str EXCEPT !.tx = << >>]
Loses(tx) == [hist EXCEPT !.lost = @ \cup ToSet(tx)]

\* send() returns: the host task sets the callout for a retry; flush() goes on
\* while there is progress, or a retry and time left, and else clears the data.
Return(t, retry, why) ==
  IF t = "host"
  THEN /\ str' = [str EXCEPT !.callout = @ \/ retry]
       /\ hist' = [hist EXCEPT !.gaveUp = IF retry \/ str.tx = << >> THEN "no" ELSE why,
                               !.starved = FALSE]
       /\ thr' = [thr EXCEPT !["host"] = Idle]
  ELSE \/ /\ str.tx # << >>
          /\ Len(str.tx) < thr["app"].before \/ retry
          /\ thr' = [thr EXCEPT !["app"] = [Idle EXCEPT !.pc = "flush"]]
          /\ hist' = [hist EXCEPT !.starved = FALSE]
          /\ UNCHANGED str
       \/ /\ str.tx = << >> \/ Len(str.tx) >= thr["app"].before
          /\ thr' = [thr EXCEPT !["app"] = Idle]
          /\ str' = Cleared
          /\ hist' = [Loses(str.tx) EXCEPT !.starved = FALSE]

NotReady(t) ==
  /\ At(t, "send") /\ thr[t].chunk = << >>
  /\ ~Ready
  /\ Return(t, FALSE, "notReady")
  /\ UNCHANGED <<opt, sub, stk>>

\* The loop in send(): peek and call notify() for the peer, or return when all is sent.
Peek(t) ==
  /\ At(t, "send") /\ str.tx # << >>
  /\ thr[t].chunk = << >> => Ready
  /\ thr' = [thr EXCEPT ![t].pc = "notify", ![t].peer = str.peer,
                        ![t].chunk = SubSeq(str.tx, 1, IF Len(str.tx) < Chunk THEN Len(str.tx)
                                                       ELSE Chunk)]
  /\ UNCHANGED <<opt, str, sub, stk, hist>>

AllSent(t) ==
  /\ At(t, "send") /\ str.tx = << >>
  /\ thr[t].chunk = << >> => Ready
  /\ Return(t, FALSE, "no")
  /\ UNCHANGED <<opt, sub, stk>>

\* Mutant: the security of the link is not looked at.
AnyTargets(peer) ==
  {sub[i].peer : i \in {i \in 1..Slots :
     sub[i].peer # NoPeer /\ peer \in {NoPeer, sub[i].peer}}}

\* The subscribers that a value for a peer is for, all of them if it names none.
Targets(peer) ==
  {sub[i].peer : i \in {i \in 1..Slots :
     /\ sub[i].peer # NoPeer
     /\ peer \in {NoPeer, sub[i].peer}
     /\ opt.secure => sub[i].secured}}

\* sendValue() copies the subscribers; only the copy tells from then on, through
\* the wait for buffers, whom the value is for and whether their links are secured.
SendValue(t) ==
  /\ Server /\ At(t, "notify")
  /\ thr' = [thr EXCEPT ![t].pc = "value", ![t].to = Targets(thr[t].peer)]
  /\ UNCHANGED <<opt, str, sub, stk, hist>>

\* The call ends, with the value sent or not.
Leave(t, pc) ==
  thr' = [thr EXCEPT ![t].pc = pc, ![t].peer = NoPeer, ![t].to = {}, ![t].ended = {}]

Sent(t) == [hist EXCEPT !.sent = @ \o thr[t].chunk]

\* A value for all subscribers of whom there are none is a success.
NobodySubscribed(t) ==
  /\ At(t, "value") /\ thr[t].to = {} /\ thr[t].peer = NoPeer
  /\ hist' = Loses(thr[t].chunk)
  /\ Leave(t, "drop")
  /\ UNCHANGED <<opt, str, sub, stk>>

\* One for a peer that is not among them is BLE_HS_ENOENT.
PeerNotSubscribed(t) ==
  /\ At(t, "value") /\ thr[t].to = {} /\ thr[t].peer # NoPeer
  /\ Leave(t, "failed")
  /\ UNCHANGED <<opt, str, sub, stk, hist>>

\* NOTIFY_TX and onStatus(), for a link that is up: what became of a notification
\* that the stack has tried.
OnStatus(p, nomem) == IF p \in stk.links THEN [str EXCEPT !.nomem = nomem] ELSE str

\* A subscriber is notified: whoever has the connection handle by now.
NotifyPeer(t, p) ==
  /\ At(t, "value") /\ p \in thr[t].to \cap stk.links
  /\ str' = OnStatus(p, FALSE)
  /\ \/ /\ thr[t].to = {p}
        /\ hist' = Sent(t)
        /\ Leave(t, "drop")
     \/ /\ thr[t].to # {p}
        /\ thr' = [thr EXCEPT ![t].to = @ \ {p}]
        /\ UNCHANGED hist
  /\ UNCHANGED <<opt, sub, stk>>

\* The stack refuses the value and, if the link is up, reports why.
NotifyFails(t, p, nomem) ==
  /\ At(t, "value") /\ p \in thr[t].to
  /\ nomem => stk.low /\ p \in stk.links
  /\ str' = OnStatus(p, nomem)
  /\ hist' = [hist EXCEPT !.starved = nomem]
  /\ Leave(t, "failed")
  /\ UNCHANGED <<opt, sub, stk>>

\* No buffer for the value in 10 ms: nothing reports a status, m_rc is what it was.
NoBuffer(t) ==
  /\ At(t, "value") /\ thr[t].to # {}
  /\ stk.low
  /\ hist' = [hist EXCEPT !.starved = TRUE]
  /\ Leave(t, "failed")
  /\ UNCHANGED <<opt, str, sub, stk>>

\* The client's writeValue() without response
WriteValue(t) ==
  /\ ~Server /\ At(t, "notify")
  /\ stk.links # {}
  /\ hist' = Sent(t)
  /\ Leave(t, "drop")
  /\ UNCHANGED <<opt, str, sub, stk>>

WriteFails(t, nomem) ==
  /\ ~Server /\ At(t, "notify")
  /\ nomem => stk.low
  /\ hist' = [hist EXCEPT !.starved = nomem]
  /\ Leave(t, "failed")
  /\ UNCHANGED <<opt, str, sub, stk>>

\* Mutant: the data is dropped although it was not sent.
FailedDrops(t) ==
  /\ At(t, "failed")
  /\ Goto(t, "drop")
  /\ UNCHANGED <<opt, str, sub, stk, hist>>

\* Whether to retry is decided by the buffers that are free by now.
ServerRetries == Server /\ (str.nomem \/ stk.low)
ClientRetries == ~Server /\ stk.low

\* A value that failed for lack of buffers: the lack may be over, and not have been
\* reported to the server's m_rc.
FailedFor ==
  IF ~hist.starved THEN "error"
  ELSE IF stk.low \/ (Server /\ str.nomem) THEN "buffers" ELSE "freed"

Failed(t) ==
  /\ At(t, "failed")
  /\ Return(t, ServerRetries \/ ClientRetries, FailedFor)
  /\ UNCHANGED <<opt, sub, stk>>

\* drop(chunkLen)
Drop(t) ==
  /\ At(t, "drop")
  /\ str' = [str EXCEPT !.tx = SubSeq(@, Len(thr[t].chunk) + 1, Len(@))]
  /\ Goto(t, "send")
  /\ UNCHANGED <<opt, sub, stk, hist>>

-----------------------------------------------------------------------------
SendStep(t) ==
  \/ NotReady(t) \/ Peek(t) \/ AllSent(t)
  \/ SendValue(t) \/ NobodySubscribed(t) \/ PeerNotSubscribed(t) \/ NoBuffer(t)
  \/ \E p \in Peers : NotifyPeer(t, p) \/ \E nomem \in BOOLEAN : NotifyFails(t, p, nomem)
  \/ WriteValue(t) \/ \E nomem \in BOOLEAN : WriteFails(t, nomem)
  \/ Failed(t) \/ Drop(t)

AppStep == WriteDrains \/ FlushLoop \/ SendStep("app")
HostStep == DrainEvent \/ DrainCallout \/ SendStep("host")

PeerStep ==
  \E p \in Peers :
    \/ LinkUp(p) \/ LinkDown(p)
    \/ Subscribe(p) \/ Resubscribe(p) \/ Unsubscribe(p)
    \/ \E ok \in BOOLEAN : EncChange(p, ok)

Next ==
  \/ BeginServer \/ BeginClient \/ EndServer \/ EndClient \/ FlushBegin
  \/ \E n \in 0..Capacity : Write(n)
  \/ AppStep \/ HostStep
  \/ PeerStep \/ BuffersChange

Spec == Init /\ [][Next]_vars

-----------------------------------------------------------------------------
(* Properties.                                                             *)

\* Bytes that have been notified but not yet dropped.
InFlight == UNION {ToSet(thr[t].chunk) : t \in {t \in {"host", "app"} : At(t, "drop")}}

\* Every byte that write() accepted is sent once and in order, is still in the
\* buffer in order, or was lost for a reason that the code knows, and only one of
\* these; the buffer never holds more than its capacity (send(), write(), the ring
\* buffer).
BytesInOrder ==
  LET sent == hist.sent
      rest == ToSet(str.tx) \ InFlight
  IN  /\ TypeOK
      /\ \A i, j \in DOMAIN sent : i < j => sent[i] < sent[j]
      /\ \A i, j \in DOMAIN str.tx : i < j => str.tx[i] < str.tx[j]
      /\ \A b \in ToSet(sent), c \in rest : b < c
      /\ ToSet(sent) \cup rest \cup hist.lost = 1..hist.accepted
      /\ (ToSet(sent) \cup rest) \cap hist.lost = {}

\* No bytes are left behind: while there are some an event or a timer is set, a
\* task is about to send or to set one, or the last send() gave them up, for an
\* unready stream or an error.  For lack of buffers it gives nothing up, but for one
\* case that the comments of send() and txDrainEventCb() do not have: the buffers
\* are free again when send() asks whether they lack, and m_rc does not know.
DataIsScheduled ==
  str.tx # << >> =>
    \/ str.event \/ str.callout
    \/ Sending("host") \/ ~At("app", "idle")
    \/ hist.gaveUp \in {"notReady", "error", "freed"}

\* A link that must be secure and is not gets no data, unless it came up under the
\* connection handle of a subscriber after sendValue() had copied that one.
SecureGetsData ==
  [][\A t \in {"host", "app"}, p \in Peers :
       NotifyPeer(t, p) /\ opt.secure => p \in stk.enc \cup thr[t].ended]_vars
=============================================================================
