-------------------------- MODULE NimBLEStreamProofs --------------------------
(***************************************************************************)
(* No data to a link that is not secure, no data left behind, and each     *)
(* byte sent once and in order, for any number of peers and slots and any  *)
(* sizes of buffer and chunk.                                              *)
(***************************************************************************)
EXTENDS NimBLEStream, ListLemmas

-----------------------------------------------------------------------------
(* The subscriptions.                                                      *)

SubTypeOK ==
  /\ opt \in Streams
  /\ sub \in [1..Slots -> SubPeerEntry]
  /\ stk \in [links : SUBSET Peers, enc : SUBSET Peers, cccd : SUBSET Peers, low : BOOLEAN]

\* An entry is that of a subscriber, and one that is marked secured is on a link
\* that is encrypted: entries go with their links.
EntriesAreSubscribers ==
  \A i \in 1..Slots :
    sub[i].peer # NoPeer =>
      /\ sub[i].peer \in stk.cccd
      /\ sub[i].secured => sub[i].peer \in stk.enc

SubInv == SubTypeOK /\ EntriesAreSubscribers

LEMMA EntryIsTyped ==
  ASSUME NEW e \in SubPeerEntry, NEW b \in BOOLEAN
  PROVE  /\ [e EXCEPT !.secured = b, !.awaiting = FALSE] \in SubPeerEntry
         /\ [e EXCEPT !.secured = b, !.awaiting = FALSE].peer = e.peer
         /\ [e EXCEPT !.secured = b, !.awaiting = FALSE].secured = b
         /\ NoSub \in SubPeerEntry /\ NoSub.peer = NoPeer
BY DEF SubPeerEntry, NoSub

\* The subscription of p is the only one that a request changes.
LEMMA RequestStep ==
  ASSUME SubInv, NEW p \in Peers, SubscribeRequest(p), p \in stk'.cccd, UNCHANGED opt,
         stk' \in Stack, stk.cccd \subseteq stk'.cccd, stk'.enc = stk.enc
  PROVE  SubInv'
<1>1. /\ sub \in [1..Slots -> SubPeerEntry] /\ opt \in Streams
      /\ EntriesAreSubscribers
  BY DEF SubInv, SubTypeOK
<1>2. CASE Entries(p) = {}
  <2> DEFINE e == [peer |-> p, secured |-> p \in stk.enc, awaiting |-> opt.secure /\ p \notin stk.enc]
  <2>1. sub' = [sub EXCEPT ![FirstFree] = e]
    BY <1>2 DEF SubscribeRequest
  <2>2. e \in SubPeerEntry /\ e.peer = p /\ e.secured = (p \in stk.enc)
    BY <1>1, StreamAssumption DEF SubPeerEntry
  <2> HIDE DEF e
  <2>3. sub' \in [1..Slots -> SubPeerEntry]
    BY <1>1, <2>1, <2>2
  <2>4. \A i \in 1..Slots : sub'[i] = sub[i] \/ sub'[i] = e
    BY <1>1, <2>1
  <2> QED
    BY <1>1, <2>2, <2>3, <2>4 DEF SubInv, SubTypeOK, EntriesAreSubscribers, Stack
<1>3. CASE Entries(p) # {}
  <2>1. sub' = sub
    BY <1>3 DEF SubscribeRequest
  <2> QED
    BY <1>1, <2>1 DEF SubInv, SubTypeOK, EntriesAreSubscribers, Stack
<1> QED
  BY <1>2, <1>3

LEMMA UnsubscribeStep ==
  ASSUME SubInv, NEW p \in Peers, UnsubscribeRequest(p), UNCHANGED opt,
         stk' \in Stack, stk'.cccd = stk.cccd \ {p}, stk.enc \ {p} \subseteq stk'.enc
  PROVE  SubInv'
<1>1. /\ sub \in [1..Slots -> SubPeerEntry] /\ opt \in Streams
      /\ EntriesAreSubscribers
  BY DEF SubInv, SubTypeOK
<1>2. sub' = [i \in 1..Slots |-> IF sub[i].peer = p THEN NoSub ELSE sub[i]]
  BY DEF UnsubscribeRequest, Entries
<1>3. NoSub \in SubPeerEntry /\ NoSub.peer = NoPeer
  BY DEF SubPeerEntry, NoSub
<1>4. sub' \in [1..Slots -> SubPeerEntry]
  BY <1>1, <1>2, <1>3
<1>5. \A i \in 1..Slots : sub'[i].peer # NoPeer => sub'[i] = sub[i] /\ sub[i].peer # p
  BY <1>2, <1>3
<1> QED
  BY <1>1, <1>4, <1>5 DEF SubInv, SubTypeOK, EntriesAreSubscribers, Stack

\* The steps of the streams and the buffers leave subscriptions and links alone.
LEMMA SubscriptionsStay ==
  ASSUME Next
  PROVE  \/ PeerStep
         \/ UNCHANGED <<opt, sub>> /\ (UNCHANGED stk \/ stk' = [stk EXCEPT !.low = ~stk.low])
BY DEF Next, BeginServer, BeginClient, EndServer, EndClient, FlushBegin, Write, AppStep, HostStep,
       WriteDrains, FlushLoop, DrainEvent, DrainCallout, SendStep, NotReady, Peek, AllSent, SendValue,
       NobodySubscribed, PeerNotSubscribed, NotifyPeer, NotifyFails, NoBuffer, WriteValue, WriteFails,
       Failed, Drop, BuffersChange

LEMMA SubStep ==
  ASSUME SubInv, [Next]_vars
  PROVE  SubInv'
<1>1. /\ sub \in [1..Slots -> SubPeerEntry] /\ opt \in Streams /\ stk \in Stack
      /\ EntriesAreSubscribers
  BY DEF SubInv, SubTypeOK, Stack
<1>2. CASE UNCHANGED vars
  BY <1>1, <1>2 DEF SubInv, SubTypeOK, EntriesAreSubscribers, vars, Stack
<1>3. CASE UNCHANGED <<opt, sub>> /\ (UNCHANGED stk \/ stk' = [stk EXCEPT !.low = ~stk.low])
  <2>1. stk' \in Stack /\ stk'.cccd = stk.cccd /\ stk'.enc = stk.enc
    BY <1>1, <1>3 DEF Stack
  <2> QED
    BY <1>1, <1>3, <2>1 DEF SubInv, SubTypeOK, EntriesAreSubscribers, Stack
<1>4. ASSUME NEW p \in Peers, LinkUp(p) PROVE SubInv'
  <2>1. stk' \in Stack /\ stk'.cccd = stk.cccd /\ stk'.enc = stk.enc /\ UNCHANGED <<opt, sub>>
    BY <1>1, <1>4 DEF LinkUp, Stack
  <2> QED
    BY <1>1, <2>1 DEF SubInv, SubTypeOK, EntriesAreSubscribers, Stack
<1>5. ASSUME NEW p \in Peers, LinkDown(p) PROVE SubInv'
  <2>1. /\ stk' \in Stack /\ stk'.cccd = stk.cccd \ {p} /\ stk'.enc = stk.enc \ {p}
        /\ UNCHANGED opt
    BY <1>1, <1>5 DEF LinkDown, Stack
  <2>2. CASE p \in stk.cccd
    BY <1>5, <2>1, <2>2, UnsubscribeStep DEF LinkDown
  <2>3. CASE p \notin stk.cccd
    <3>1. UNCHANGED sub
      BY <1>5, <2>3 DEF LinkDown
    <3> QED
      BY <1>1, <2>1, <2>3, <3>1 DEF SubInv, SubTypeOK, EntriesAreSubscribers, Stack
  <2> QED
    BY <2>2, <2>3
<1>6. ASSUME NEW p \in Peers, Subscribe(p) \/ Resubscribe(p) PROVE SubInv'
  <2>1. /\ stk' \in Stack /\ p \in stk'.cccd /\ stk.cccd \subseteq stk'.cccd /\ stk'.enc = stk.enc
        /\ UNCHANGED opt /\ SubscribeRequest(p)
    BY <1>1, <1>6 DEF Subscribe, Resubscribe, Stack
  <2> QED
    BY <2>1, RequestStep
<1>7. ASSUME NEW p \in Peers, Unsubscribe(p) PROVE SubInv'
  <2>1. /\ stk' \in Stack /\ stk'.cccd = stk.cccd \ {p} /\ stk'.enc = stk.enc
        /\ UNCHANGED opt /\ UnsubscribeRequest(p)
    BY <1>1, <1>7 DEF Unsubscribe, Stack
  <2> QED
    BY <2>1, UnsubscribeStep
<1>8. ASSUME NEW p \in Peers, NEW ok \in BOOLEAN, EncChange(p, ok) PROVE SubInv'
  <2>1. /\ stk' \in Stack /\ stk'.cccd = stk.cccd /\ stk.enc \subseteq stk'.enc /\ UNCHANGED opt
    BY <1>1, <1>8 DEF EncChange, Stack
  <2> DEFINE secured == p \in stk'.enc
  <2>2. sub' = [i \in 1..Slots |->
                  IF i \in Entries(p)
                  THEN [sub[i] EXCEPT !.secured = secured, !.awaiting = FALSE] ELSE sub[i]]
    BY <1>8, Zenon DEF EncChange, UpdatePeerStatus
  <2>3. secured \in BOOLEAN /\ (secured => p \in stk'.enc)
    OBVIOUS
  <2> HIDE DEF secured
  <2>4. ASSUME NEW i \in 1..Slots
        PROVE  /\ sub'[i] \in SubPeerEntry /\ sub'[i].peer = sub[i].peer
               /\ sub'[i].secured = IF sub[i].peer = p THEN secured ELSE sub[i].secured
    <3>1. sub[i] \in SubPeerEntry
      BY <1>1
    <3>2. CASE sub[i].peer = p
      <4>1. sub'[i] = [sub[i] EXCEPT !.secured = secured, !.awaiting = FALSE]
        BY <2>2, <3>2 DEF Entries
      <4>2. /\ [sub[i] EXCEPT !.secured = secured, !.awaiting = FALSE] \in SubPeerEntry
            /\ [sub[i] EXCEPT !.secured = secured, !.awaiting = FALSE].peer = sub[i].peer
            /\ [sub[i] EXCEPT !.secured = secured, !.awaiting = FALSE].secured = secured
        BY <2>3, <3>1, EntryIsTyped
      <4> QED
        BY <3>2, <4>1, <4>2
    <3>3. CASE sub[i].peer # p
      BY <2>2, <3>1, <3>3 DEF Entries
    <3> QED
      BY <3>2, <3>3
  <2>5. sub' \in [1..Slots -> SubPeerEntry]
    BY <2>2, <2>4
  <2> QED
    BY <1>1, <2>1, <2>3, <2>4, <2>5 DEF SubInv, SubTypeOK, EntriesAreSubscribers, Stack
<1> QED
  BY <1>2, <1>3, <1>4, <1>5, <1>6, <1>7, <1>8, SubscriptionsStay DEF PeerStep

LEMMA SubInit ==
  ASSUME Init
  PROVE  SubInv
<1>1. NoSub \in SubPeerEntry /\ NoSub.peer = NoPeer
  BY DEF SubPeerEntry, NoSub
<1> QED
  BY <1>1 DEF Init, SubInv, SubTypeOK, EntriesAreSubscribers

LEMMA TargetsAreEncrypted ==
  ASSUME SubInv, opt.secure, NEW peer
  PROVE  Targets(peer) \subseteq stk.enc
BY DEF SubInv, SubTypeOK, EntriesAreSubscribers, Targets

-----------------------------------------------------------------------------
(* What is to be sent.                                                     *)

StreamRecord == [begun : BOOLEAN, tx : Seq(Byte), event : BOOLEAN, callout : BOOLEAN,
                 peer : Peers \cup {NoPeer}, nomem : BOOLEAN]
HistoryRecord == [accepted : Nat, sent : Seq(Byte), lost : SUBSET Byte,
                  gaveUp : Reason, starved : BOOLEAN]
ThreadRecord == [pc : {"idle", "wrote", "flush", "send", "notify", "value", "failed", "drop"},
                 chunk : Seq(Byte), before : Nat,
                 peer : Peers \cup {NoPeer}, to : SUBSET Peers, ended : SUBSET Peers]

SendTypeOK ==
  /\ str \in StreamRecord
  /\ thr \in [{"host", "app"} -> ThreadRecord]
  /\ hist \in HistoryRecord

SendInv == SendTypeOK /\ DataIsScheduled

\* What a record is after one of its fields has changed.
LEMMA BegunSet ==
  ASSUME NEW r \in StreamRecord, NEW v \in BOOLEAN
  PROVE  /\ [r EXCEPT !.begun = v] \in StreamRecord
         /\ [r EXCEPT !.begun = v].begun = v
         /\ [r EXCEPT !.begun = v].tx = r.tx
         /\ [r EXCEPT !.begun = v].event = r.event
         /\ [r EXCEPT !.begun = v].callout = r.callout
BY DEF StreamRecord

LEMMA PeerSet ==
  ASSUME NEW r \in StreamRecord, NEW v \in Peers \cup {NoPeer}
  PROVE  /\ [r EXCEPT !.peer = v] \in StreamRecord
         /\ [r EXCEPT !.peer = v].peer = v
         /\ [r EXCEPT !.peer = v].tx = r.tx
         /\ [r EXCEPT !.peer = v].event = r.event
         /\ [r EXCEPT !.peer = v].callout = r.callout
BY DEF StreamRecord

LEMMA NomemSet ==
  ASSUME NEW r \in StreamRecord, NEW v \in BOOLEAN
  PROVE  /\ [r EXCEPT !.nomem = v] \in StreamRecord
         /\ [r EXCEPT !.nomem = v].nomem = v
         /\ [r EXCEPT !.nomem = v].tx = r.tx
BY DEF StreamRecord

LEMMA TxSet ==
  ASSUME NEW r \in StreamRecord, NEW v \in Seq(Byte)
  PROVE  /\ [r EXCEPT !.tx = v] \in StreamRecord
         /\ [r EXCEPT !.tx = v].tx = v
BY DEF StreamRecord

LEMMA EventSet ==
  ASSUME NEW r \in StreamRecord, NEW v \in BOOLEAN
  PROVE  /\ [r EXCEPT !.event = v] \in StreamRecord
         /\ [r EXCEPT !.event = v].event = v
         /\ [r EXCEPT !.event = v].tx = r.tx
BY DEF StreamRecord

LEMMA CalloutSet ==
  ASSUME NEW r \in StreamRecord, NEW v \in BOOLEAN
  PROVE  /\ [r EXCEPT !.callout = v] \in StreamRecord
         /\ [r EXCEPT !.callout = v].callout = v
         /\ [r EXCEPT !.callout = v].tx = r.tx
BY DEF StreamRecord

LEMMA SentSet ==
  ASSUME NEW r \in HistoryRecord, NEW v \in Seq(Byte)
  PROVE  /\ [r EXCEPT !.sent = v] \in HistoryRecord
         /\ [r EXCEPT !.sent = v].sent = v
BY DEF HistoryRecord

LEMMA LostSet ==
  ASSUME NEW r \in HistoryRecord, NEW v \in SUBSET Byte
  PROVE  /\ [r EXCEPT !.lost = v] \in HistoryRecord
         /\ [r EXCEPT !.lost = v].lost = v
BY DEF HistoryRecord

LEMMA AcceptedSet ==
  ASSUME NEW r \in HistoryRecord, NEW v \in Nat
  PROVE  /\ [r EXCEPT !.accepted = v] \in HistoryRecord
         /\ [r EXCEPT !.accepted = v].accepted = v
BY DEF HistoryRecord

LEMMA GaveUpSet ==
  ASSUME NEW r \in HistoryRecord, NEW v \in Reason
  PROVE  /\ [r EXCEPT !.gaveUp = v] \in HistoryRecord
         /\ [r EXCEPT !.gaveUp = v].gaveUp = v
BY DEF HistoryRecord

LEMMA StarvedSet ==
  ASSUME NEW r \in HistoryRecord, NEW v \in BOOLEAN
  PROVE  /\ [r EXCEPT !.starved = v] \in HistoryRecord
         /\ [r EXCEPT !.starved = v].starved = v
         /\ [r EXCEPT !.starved = v].gaveUp = r.gaveUp
BY DEF HistoryRecord

Place == {"idle", "wrote", "flush", "send", "notify", "value", "failed", "drop"}

LEMMA PcSet ==
  ASSUME NEW r \in ThreadRecord, NEW v \in Place
  PROVE  /\ [r EXCEPT !.pc = v] \in ThreadRecord
         /\ [r EXCEPT !.pc = v].pc = v
BY DEF ThreadRecord, Place

LEMMA ChunkSet ==
  ASSUME NEW r \in ThreadRecord, NEW v \in Seq(Byte)
  PROVE  /\ [r EXCEPT !.chunk = v] \in ThreadRecord
         /\ [r EXCEPT !.chunk = v].chunk = v
         /\ [r EXCEPT !.chunk = v].pc = r.pc
BY DEF ThreadRecord

LEMMA BeforeSet ==
  ASSUME NEW r \in ThreadRecord, NEW v \in Nat
  PROVE  /\ [r EXCEPT !.before = v] \in ThreadRecord
         /\ [r EXCEPT !.before = v].before = v
         /\ [r EXCEPT !.before = v].pc = r.pc
BY DEF ThreadRecord

\* A call of notify() or writeValue() that ends.
LeftRecord(r, a) == [r EXCEPT !.pc = a, !.peer = NoPeer, !.to = {}, !.ended = {}]

LEMMA LeaveSet ==
  ASSUME NEW r \in ThreadRecord, NEW a \in Place
  PROVE  /\ LeftRecord(r, a) \in ThreadRecord /\ LeftRecord(r, a).pc = a
         /\ LeftRecord(r, a).chunk = r.chunk /\ LeftRecord(r, a).before = r.before
         /\ LeftRecord(r, a).to = {}
BY DEF ThreadRecord, LeftRecord, Place

LEMMA LeaveIs ==
  ASSUME thr \in [{"host", "app"} -> ThreadRecord], NEW t \in {"host", "app"}, NEW a, Leave(t, a)
  PROVE  thr' = [thr EXCEPT ![t] = LeftRecord(thr[t], a)]
BY DEF Leave, LeftRecord

LEMMA SubscribersSet ==
  ASSUME NEW r \in ThreadRecord, NEW v \in SUBSET Peers
  PROVE  /\ [r EXCEPT !.to = v] \in ThreadRecord
         /\ [r EXCEPT !.to = v].to = v /\ [r EXCEPT !.to = v].ended = r.ended
         /\ [r EXCEPT !.to = v].pc = r.pc /\ [r EXCEPT !.to = v].chunk = r.chunk
         /\ [r EXCEPT !.to = v].before = r.before
BY DEF ThreadRecord

LEMMA HandleSet ==
  ASSUME NEW r \in ThreadRecord, NEW v \in Peers \cup {NoPeer}
  PROVE  /\ [r EXCEPT !.peer = v] \in ThreadRecord
         /\ [r EXCEPT !.peer = v].pc = r.pc /\ [r EXCEPT !.peer = v].to = r.to
         /\ [r EXCEPT !.peer = v].ended = r.ended /\ [r EXCEPT !.peer = v].before = r.before
BY DEF ThreadRecord

LEMMA IdleIsTyped ==
  Idle \in ThreadRecord /\ Idle.pc = "idle"
<1>1. << >> \in Seq(Byte)
  OBVIOUS
<1> QED
  BY <1>1 DEF Idle, ThreadRecord

\* A thread that goes somewhere: the other one stays.
LEMMA GoesThere ==
  ASSUME SendTypeOK, NEW t \in {"host", "app"}, NEW r \in ThreadRecord, thr' = [thr EXCEPT ![t] = r]
  PROVE  /\ thr' \in [{"host", "app"} -> ThreadRecord]
         /\ thr'[t] = r
         /\ \A u \in {"host", "app"} : u # t => thr'[u] = thr[u]
BY DEF SendTypeOK

\* A thread that is under way after its step sees to the data.
LEMMA UnderWay ==
  ASSUME SendTypeOK, str' \in StreamRecord, hist' \in HistoryRecord,
         NEW t \in {"host", "app"}, NEW r \in ThreadRecord, thr' = [thr EXCEPT ![t] = r],
         r.pc # "idle", t = "host" => r.pc \in {"send", "notify", "value", "failed", "drop"}
  PROVE  SendInv'
<1>1. thr' \in [{"host", "app"} -> ThreadRecord] /\ thr'[t] = r
  BY GoesThere
<1>2. Sending("host")' \/ ~At("app", "idle")'
  BY <1>1 DEF Sending, At
<1> QED
  BY <1>1, <1>2 DEF SendInv, SendTypeOK, DataIsScheduled

\* A step that empties the buffer, or leaves everything that sees to the data.
LEMMA EmptyIsDone ==
  ASSUME str' \in StreamRecord, hist' \in HistoryRecord,
         thr' \in [{"host", "app"} -> ThreadRecord], str'.tx = << >>
  PROVE  SendInv'
BY DEF SendInv, SendTypeOK, DataIsScheduled

LEMMA NothingChanges ==
  ASSUME SendInv, str' \in StreamRecord, str'.tx = str.tx, str'.event = str.event,
         str'.callout = str.callout, UNCHANGED hist,
         thr' \in [{"host", "app"} -> ThreadRecord],
         \A t \in {"host", "app"} : thr'[t].pc = thr[t].pc
  PROVE  SendInv'
BY DEF SendInv, SendTypeOK, DataIsScheduled, Sending, At

LEMMA PeerOnSubscribeKeeps ==
  ASSUME NEW s \in StreamRecord, NEW p \in Peers, NEW on
  PROVE  LET r == PeerOnSubscribe(s, p, on)
         IN  r \in StreamRecord /\ r.tx = s.tx /\ r.event = s.event /\ r.callout = s.callout
<1>1. s.peer \in Peers \cup {NoPeer}
  BY DEF StreamRecord
<1>2. PICK q \in Peers \cup {NoPeer} : \/ PeerOnSubscribe(s, p, on) = s
                                      \/ PeerOnSubscribe(s, p, on) = [s EXCEPT !.peer = q]
  BY <1>1 DEF PeerOnSubscribe
<1>3. /\ [s EXCEPT !.peer = q] \in StreamRecord /\ [s EXCEPT !.peer = q].tx = s.tx
      /\ [s EXCEPT !.peer = q].event = s.event /\ [s EXCEPT !.peer = q].callout = s.callout
  BY PeerSet
<1> QED
  BY <1>2, <1>3

LEMMA ReturnStep ==
  ASSUME SendInv, NEW t \in {"host", "app"}, NEW retry \in BOOLEAN,
         NEW why \in Reason, Return(t, retry, why),
         why = "no" => str.tx = << >>, why = "buffers" => retry
  PROVE  SendInv'
<1>1. SendTypeOK /\ str \in StreamRecord /\ hist \in HistoryRecord
  BY DEF SendInv, SendTypeOK
<1>2. CASE t = "host"
  <2> DEFINE g == IF retry \/ str.tx = << >> THEN "no" ELSE why
             c == str.callout \/ retry
  <2>1. /\ str' = [str EXCEPT !.callout = c]
        /\ hist' = [hist EXCEPT !.gaveUp = g, !.starved = FALSE]
        /\ thr' = [thr EXCEPT !["host"] = Idle]
    BY <1>2 DEF Return
  <2>2. c \in BOOLEAN /\ g \in Reason
        /\ (str.tx # << >> => c \/ g \in {"notReady", "error", "freed"})
    BY <1>1 DEF StreamRecord, Reason
  <2> HIDE DEF g, c
  <2>3. str' \in StreamRecord /\ str'.tx = str.tx /\ str'.callout = c
    BY <1>1, <2>1, <2>2, CalloutSet
  <2>4. hist' \in HistoryRecord /\ hist'.gaveUp = g
    <3>1. hist' = [[hist EXCEPT !.gaveUp = g] EXCEPT !.starved = FALSE]
      BY <2>1
    <3>2. [hist EXCEPT !.gaveUp = g] \in HistoryRecord /\ [hist EXCEPT !.gaveUp = g].gaveUp = g
      BY <1>1, <2>2, GaveUpSet
    <3> QED
      BY <3>1, <3>2, StarvedSet
  <2>5. Idle \in ThreadRecord
    BY IdleIsTyped
  <2>6. thr' \in [{"host", "app"} -> ThreadRecord]
    BY <1>1, <2>1, <2>5, GoesThere
  <2> QED
    BY <2>2, <2>3, <2>4, <2>6 DEF SendInv, SendTypeOK, DataIsScheduled
<1>3. CASE t = "app"
  <2>1. Idle \in ThreadRecord /\ [Idle EXCEPT !.pc = "flush"] \in ThreadRecord
        /\ [Idle EXCEPT !.pc = "flush"].pc = "flush"
    BY IdleIsTyped, PcSet DEF Place
  <2>2. CASE /\ thr' = [thr EXCEPT !["app"] = [Idle EXCEPT !.pc = "flush"]]
             /\ hist' = [hist EXCEPT !.starved = FALSE]
             /\ UNCHANGED str
    <3>1. hist' \in HistoryRecord
      BY <1>1, <2>2, StarvedSet
    <3> QED
      BY <1>1, <2>1, <2>2, <3>1, UnderWay
  <2>3. CASE /\ thr' = [thr EXCEPT !["app"] = Idle]
             /\ str' = Cleared
             /\ hist' = [Loses(str.tx) EXCEPT !.starved = FALSE]
    <3>1. str' \in StreamRecord /\ str'.tx = << >>
      <4>1. << >> \in Seq(Byte)
        OBVIOUS
      <4> QED
        BY <1>1, <2>3, <4>1, TxSet DEF Cleared
    <3>2. hist.lost \cup ToSet(str.tx) \in SUBSET Byte
      BY <1>1 DEF HistoryRecord, StreamRecord, ToSet
    <3>3. Loses(str.tx) \in HistoryRecord
      BY <1>1, <3>2, LostSet DEF Loses
    <3>4. hist' \in HistoryRecord
      BY <2>3, <3>3, StarvedSet
    <3>5. thr' \in [{"host", "app"} -> ThreadRecord]
      BY <1>1, <2>1, <2>3, GoesThere
    <3> QED
      BY <3>1, <3>4, <3>5, EmptyIsDone
  <2> QED
    BY <1>3, <2>2, <2>3 DEF Return
<1> QED
  BY <1>2, <1>3

LEMMA PeersLeaveBytes ==
  ASSUME SendInv, PeerStep
  PROVE  /\ str' \in StreamRecord /\ str'.tx = str.tx
         /\ str'.event = str.event /\ str'.callout = str.callout
         /\ thr' \in [{"host", "app"} -> ThreadRecord]
         /\ \A t \in {"host", "app"} :
              thr'[t].pc = thr[t].pc /\ thr'[t].chunk = thr[t].chunk /\ thr'[t].before = thr[t].before
         /\ UNCHANGED hist
<1>1. str \in StreamRecord /\ thr \in [{"host", "app"} -> ThreadRecord]
  BY DEF SendInv, SendTypeOK
<1>2. /\ thr' \in [{"host", "app"} -> ThreadRecord]
      /\ \A t \in {"host", "app"} :
           thr'[t].pc = thr[t].pc /\ thr'[t].chunk = thr[t].chunk /\ thr'[t].before = thr[t].before
      /\ UNCHANGED hist
  <2>1. CASE UNCHANGED <<thr, hist>>
    BY <1>1, <2>1
  <2>2. ASSUME NEW p \in Peers, LinkDown(p)
        PROVE  /\ UNCHANGED hist
               /\ thr' = [t \in {"host", "app"} |->
                           [thr[t] EXCEPT !.ended = thr[t].ended \cup ({p} \cap thr[t].to)]]
    BY <2>2 DEF LinkDown
  <2>3. ASSUME NEW p \in Peers, LinkDown(p), NEW t \in {"host", "app"}
        PROVE  /\ thr'[t] \in ThreadRecord
               /\ thr'[t].pc = thr[t].pc /\ thr'[t].chunk = thr[t].chunk /\ thr'[t].before = thr[t].before
    <3>1. thr'[t] = [thr[t] EXCEPT !.ended = thr[t].ended \cup ({p} \cap thr[t].to)] /\ thr[t] \in ThreadRecord
      BY <1>1, <2>2, <2>3
    <3> QED
      BY <3>1 DEF ThreadRecord
  <2>4. ASSUME NEW p \in Peers, LinkDown(p) PROVE thr' \in [{"host", "app"} -> ThreadRecord]
    BY <2>2, <2>3, <2>4
  <2> QED
    BY <2>1, <2>2, <2>3, <2>4 DEF PeerStep, LinkUp, Subscribe, Resubscribe, Unsubscribe, EncChange
<1>3. PICK p \in Peers, on \in BOOLEAN : UNCHANGED str \/ str' = PeerOnSubscribe(str, p, on)
  <2>1. \A p \in Peers : SubscribeRequest(p) => UNCHANGED str \/ str' = PeerOnSubscribe(str, p, TRUE)
    BY Zenon DEF SubscribeRequest
  <2>2. \A p \in Peers : UnsubscribeRequest(p) => str' = PeerOnSubscribe(str, p, FALSE)
    BY DEF UnsubscribeRequest
  <2>3. \A p \in Peers : \A b : UpdatePeerStatus(p, b) => UNCHANGED str \/ str' = PeerOnSubscribe(str, p, TRUE)
    BY Zenon DEF UpdatePeerStatus
  <2>4. PICK p \in Peers : \/ LinkUp(p) \/ LinkDown(p)
                           \/ Subscribe(p) \/ Resubscribe(p) \/ Unsubscribe(p)
                           \/ \E ok \in BOOLEAN : EncChange(p, ok)
    BY DEF PeerStep
  <2>5. UNCHANGED str \/ str' = PeerOnSubscribe(str, p, TRUE) \/ str' = PeerOnSubscribe(str, p, FALSE)
    BY <2>1, <2>2, <2>3, <2>4
       DEF LinkUp, LinkDown, Subscribe, Resubscribe, Unsubscribe, EncChange
  <2> QED
    BY <2>5
<1>4. str' \in StreamRecord /\ str'.tx = str.tx /\ str'.event = str.event /\ str'.callout = str.callout
  BY <1>1, <1>3, PeerOnSubscribeKeeps
<1> QED
  BY <1>2, <1>4

LEMMA PeersDoNotDrain ==
  ASSUME SendInv, PeerStep
  PROVE  SendInv'
BY PeersLeaveBytes, NothingChanges

\* What a sender knows after it has looked at the buffer, at the subscribers, and
\* after one of several subscribers has got the value.
LEMMA PeekIs ==
  ASSUME SendTypeOK, NEW t \in {"host", "app"}, Peek(t)
  PROVE  \E r \in ThreadRecord :
           /\ r.pc = "notify" /\ thr' = [thr EXCEPT ![t] = r]
           /\ r.before = thr[t].before /\ r.to = thr[t].to /\ r.ended = thr[t].ended
           /\ Len(r.chunk) <= Chunk /\ Len(r.chunk) <= Len(str.tx)
           /\ \A i \in 1..Len(r.chunk) : r.chunk[i] = str.tx[i]
<1>1. /\ thr \in [{"host", "app"} -> ThreadRecord] /\ thr[t] \in ThreadRecord
      /\ str.tx \in Seq(Byte) /\ str.peer \in Peers \cup {NoPeer}
  BY DEF SendTypeOK, StreamRecord
<1> DEFINE k == IF Len(str.tx) < Chunk THEN Len(str.tx) ELSE Chunk
           c == SubSeq(str.tx, 1, k)
           h == [[thr[t] EXCEPT !.pc = "notify"] EXCEPT !.peer = str.peer]
           r == [h EXCEPT !.chunk = c]
<1>2. k \in 0..Len(str.tx) /\ k <= Chunk /\ Len(str.tx) \in Nat
  BY <1>1, StreamAssumption
<1>3. thr' = [thr EXCEPT ![t] = r]
  BY <1>1 DEF Peek
<1> HIDE DEF k
<1>4. c \in Seq(Byte) /\ Len(c) = k /\ \A i \in 1..k : c[i] = str.tx[i]
  BY <1>1, <1>2
<1> HIDE DEF c
<1>5. /\ h \in ThreadRecord /\ h.pc = "notify" /\ h.before = thr[t].before
      /\ h.to = thr[t].to /\ h.ended = thr[t].ended
  BY <1>1 DEF ThreadRecord
<1> HIDE DEF h
<1>6. /\ r \in ThreadRecord /\ r.pc = "notify" /\ r.before = thr[t].before /\ r.chunk = c
      /\ r.to = thr[t].to /\ r.ended = thr[t].ended
  BY <1>4, <1>5 DEF ThreadRecord
<1> HIDE DEF r
<1>7. Len(r.chunk) <= Chunk /\ Len(r.chunk) <= Len(str.tx)
      /\ \A i \in 1..Len(r.chunk) : r.chunk[i] = str.tx[i]
  BY <1>2, <1>4, <1>6
<1> QED
  BY <1>3, <1>6, <1>7, Zenon

LEMMA ValueIs ==
  ASSUME SubInv, SendTypeOK, NEW t \in {"host", "app"}, SendValue(t)
  PROVE  \E r \in ThreadRecord :
           /\ r.pc = "value" /\ thr' = [thr EXCEPT ![t] = r]
           /\ r.before = thr[t].before /\ r.chunk = thr[t].chunk
           /\ r.to = Targets(thr[t].peer)
<1>1. thr \in [{"host", "app"} -> ThreadRecord] /\ thr[t] \in ThreadRecord
  BY DEF SendTypeOK
<1>2. Targets(thr[t].peer) \in SUBSET Peers
  BY DEF Targets, SubInv, SubTypeOK, SubPeerEntry
<1> DEFINE h == [thr[t] EXCEPT !.pc = "value"]
           v == Targets(thr[t].peer)
<1>3. h \in ThreadRecord /\ h.pc = "value" /\ h.chunk = thr[t].chunk /\ h.before = thr[t].before
  BY <1>1 DEF ThreadRecord
<1>4. thr' = [thr EXCEPT ![t] = [h EXCEPT !.to = v]]
  BY <1>1 DEF SendValue
<1> DEFINE r == [h EXCEPT !.to = v]
<1>5. v \in SUBSET Peers
  BY <1>2
<1> HIDE DEF h, v
<1>6. r \in ThreadRecord /\ r.pc = "value" /\ r.before = thr[t].before /\ r.chunk = thr[t].chunk /\ r.to = v
  BY <1>3, <1>5, SubscribersSet
<1>7. thr' = [thr EXCEPT ![t] = r]
  BY <1>4
<1> HIDE DEF r
<1>8. r.to = Targets(thr[t].peer)
  BY <1>6 DEF v
<1> QED
  BY <1>6, <1>7, <1>8, Zenon

LEMMA LessIs ==
  ASSUME SendTypeOK, NEW t \in {"host", "app"}, NEW p, thr' = [thr EXCEPT ![t].to = thr[t].to \ {p}]
  PROVE  \E r \in ThreadRecord :
           /\ r.pc = thr[t].pc /\ thr' = [thr EXCEPT ![t] = r]
           /\ r.before = thr[t].before /\ r.chunk = thr[t].chunk
           /\ r.to \subseteq thr[t].to /\ r.ended = thr[t].ended
<1>1. thr \in [{"host", "app"} -> ThreadRecord] /\ thr[t] \in ThreadRecord
  BY DEF SendTypeOK
<1>2. thr[t].to \ {p} \in SUBSET Peers
  BY <1>1 DEF ThreadRecord
<1> DEFINE r == [thr[t] EXCEPT !.to = thr[t].to \ {p}]
<1>3. thr' = [thr EXCEPT ![t] = r]
  BY <1>1
<1>4. /\ r \in ThreadRecord /\ r.pc = thr[t].pc /\ r.before = thr[t].before /\ r.chunk = thr[t].chunk
      /\ r.to = thr[t].to \ {p} /\ r.ended = thr[t].ended
  BY <1>1, <1>2, SubscribersSet
<1> HIDE DEF r
<1>5. r.to \subseteq thr[t].to
  BY <1>4
<1> QED
  BY <1>3, <1>4, <1>5, Zenon

LEMMA SendingStep ==
  ASSUME SubInv, SendInv, NEW t \in {"host", "app"}, SendStep(t)
  PROVE  SendInv'
<1>1. /\ SendTypeOK /\ str \in StreamRecord /\ hist \in HistoryRecord
      /\ thr[t] \in ThreadRecord /\ str.tx \in Seq(Byte) /\ thr[t].chunk \in Seq(Byte)
  BY DEF SendInv, SendTypeOK, StreamRecord, ThreadRecord
<1>2. ASSUME NEW a \in {"send", "failed", "drop"}, Goto(t, a) \/ Leave(t, a),
             str' \in StreamRecord, hist' \in HistoryRecord
      PROVE  SendInv'
  <2>1. a \in Place /\ thr \in [{"host", "app"} -> ThreadRecord]
    BY <1>1 DEF Place, SendTypeOK
  <2>2. PICK r \in ThreadRecord : r.pc = a /\ thr' = [thr EXCEPT ![t] = r]
    <3>1. CASE Goto(t, a)
      BY <1>1, <2>1, <3>1, PcSet DEF Goto
    <3>2. CASE Leave(t, a)
      BY <1>1, <2>1, <3>2, LeaveSet, LeaveIs
    <3> QED
      BY <1>2, <3>1, <3>2
  <2> QED
    BY <1>1, <1>2, <2>2, UnderWay
<1>3. CASE NotReady(t)
  BY <1>3, ReturnStep DEF NotReady, Reason
<1>4. CASE AllSent(t)
  BY <1>4, ReturnStep DEF AllSent, Reason
<1>5. CASE Failed(t)
  <2>1. Return(t, ServerRetries \/ ClientRetries, FailedFor)
    BY <1>5 DEF Failed
  <2>2. (ServerRetries \/ ClientRetries) \in BOOLEAN
    OBVIOUS
  <2>3. FailedFor \in Reason \ {"no"} /\ (FailedFor = "buffers" => ServerRetries \/ ClientRetries)
    BY DEF FailedFor, Reason, ServerRetries, ClientRetries
  <2> QED
    BY <2>1, <2>2, <2>3, ReturnStep
<1>6. CASE Peek(t)
  <2>1. PICK r \in ThreadRecord : r.pc = "notify" /\ thr' = [thr EXCEPT ![t] = r]
    BY <1>1, <1>6, PeekIs DEF Peek
  <2> QED
    BY <1>1, <1>6, <2>1, UnderWay DEF Peek
<1>7. ASSUME NEW p, NEW nomem \in BOOLEAN PROVE OnStatus(p, nomem) \in StreamRecord
  BY <1>1, NomemSet DEF OnStatus
<1>8. CASE SendValue(t)
  <2>1. PICK r \in ThreadRecord : r.pc = "value" /\ thr' = [thr EXCEPT ![t] = r]
    BY <1>1, <1>8, ValueIs
  <2> QED
    BY <1>1, <1>8, <2>1, UnderWay DEF SendValue
<1>9. /\ Loses(thr[t].chunk) \in HistoryRecord
      /\ Sent(t) \in HistoryRecord
  <2>1. hist.lost \cup ToSet(thr[t].chunk) \in SUBSET Byte /\ hist.sent \o thr[t].chunk \in Seq(Byte)
    BY <1>1 DEF HistoryRecord, ToSet
  <2> QED
    BY <1>1, <2>1, LostSet, SentSet DEF Loses, Sent
<1>10. CASE NobodySubscribed(t) \/ PeerNotSubscribed(t)
  BY <1>1, <1>2, <1>9, <1>10 DEF NobodySubscribed, PeerNotSubscribed
<1>11. ASSUME NEW p \in Peers, NotifyPeer(t, p) PROVE SendInv'
  <2>1. str' \in StreamRecord /\ thr[t].pc = "value"
    BY <1>7, <1>11 DEF NotifyPeer, At
  <2>2. CASE hist' = Sent(t) /\ Leave(t, "drop")
    BY <1>2, <1>9, <2>1, <2>2
  <2>3. CASE thr' = [thr EXCEPT ![t].to = thr[t].to \ {p}] /\ UNCHANGED hist
    <3>1. SendTypeOK /\ thr' = [thr EXCEPT ![t].to = thr[t].to \ {p}]
      BY <1>1, <2>3
    <3>2. PICK r \in ThreadRecord :
            /\ r.pc = thr[t].pc /\ thr' = [thr EXCEPT ![t] = r]
            /\ r.before = thr[t].before /\ r.chunk = thr[t].chunk
            /\ r.to \subseteq thr[t].to /\ r.ended = thr[t].ended
      BY <3>1, LessIs, Zenon
    <3>3. r.pc = "value"
      BY <2>1, <3>2
    <3> QED
      BY <1>1, <2>1, <2>3, <3>2, <3>3, UnderWay
  <2> QED
    BY <1>11, <2>2, <2>3 DEF NotifyPeer
<1>12. ASSUME NEW p \in Peers, NEW nomem \in BOOLEAN, NotifyFails(t, p, nomem) PROVE SendInv'
  BY <1>1, <1>2, <1>7, <1>12, StarvedSet DEF NotifyFails
<1>13. CASE NoBuffer(t)
  BY <1>1, <1>2, <1>13, StarvedSet DEF NoBuffer
<1>14. CASE WriteValue(t)
  BY <1>1, <1>2, <1>9, <1>14 DEF WriteValue
<1>15. ASSUME NEW nomem \in BOOLEAN, WriteFails(t, nomem) PROVE SendInv'
  BY <1>1, <1>2, <1>15, StarvedSet DEF WriteFails
<1>16. CASE Drop(t)
  <2>1. SubSeq(str.tx, Len(thr[t].chunk) + 1, Len(str.tx)) \in Seq(Byte)
    BY <1>1
  <2> QED
    BY <1>1, <1>2, <1>16, <2>1, TxSet DEF Drop
<1> QED
  BY <1>3, <1>4, <1>5, <1>6, <1>8, <1>10, <1>11, <1>12, <1>13, <1>14, <1>15, <1>16 DEF SendStep

LEMMA SendInvStep ==
  ASSUME SubInv, SendInv, [Next]_vars
  PROVE  SendInv'
<1>1. /\ SendTypeOK /\ str \in StreamRecord /\ hist \in HistoryRecord
      /\ thr["app"] \in ThreadRecord /\ str.tx \in Seq(Byte)
  BY DEF SendInv, SendTypeOK, StreamRecord
<1>2. CASE UNCHANGED vars
  BY <1>1, <1>2, NothingChanges DEF vars, SendTypeOK
<1>3. CASE BeginServer \/ BeginClient \/ BuffersChange
  <2>1. str' = str \/ str' = [str EXCEPT !.begun = TRUE]
    BY <1>3 DEF BeginServer, BeginClient, BuffersChange, Begun
  <2>2. str' \in StreamRecord /\ str'.tx = str.tx /\ str'.event = str.event /\ str'.callout = str.callout
    BY <1>1, <2>1, BegunSet
  <2> QED
    BY <1>1, <1>3, <2>2, NothingChanges DEF BeginServer, BeginClient, BuffersChange, SendTypeOK
<1>4. CASE EndServer \/ EndClient
  <2>1. << >> \in Seq(Byte) /\ NoPeer \in Peers \cup {NoPeer}
    OBVIOUS
  <2>2. Ended \in StreamRecord /\ Ended.tx = << >>
    BY <1>1, <2>1 DEF Ended, StreamRecord
  <2>3. [Ended EXCEPT !.peer = NoPeer] \in StreamRecord /\ [Ended EXCEPT !.peer = NoPeer].tx = << >>
    BY <2>1, <2>2, PeerSet
  <2>4. hist.lost \cup ToSet(str.tx) \in SUBSET Byte
    BY <1>1 DEF HistoryRecord, ToSet
  <2>5. EndLoses \in HistoryRecord
    BY <1>1, <2>4 DEF EndLoses, HistoryRecord, Reason
  <2> QED
    BY <1>1, <1>4, <2>2, <2>3, <2>5, EmptyIsDone DEF EndServer, EndClient, SendTypeOK
<1>5. ASSUME NEW a \in {"flush", "wrote"}, Goto("app", a), str' \in StreamRecord, hist' \in HistoryRecord
      PROVE  SendInv'
  <2> DEFINE r == [thr["app"] EXCEPT !.pc = a]
  <2>1. r \in ThreadRecord /\ r.pc = a
    <3>1. a \in Place
      BY DEF Place
    <3> QED
      BY <1>1, <3>1, PcSet
  <2>2. thr' = [thr EXCEPT !["app"] = r]
    BY <1>5 DEF Goto
  <2> HIDE DEF r
  <2> QED
    BY <1>1, <1>5, <2>1, <2>2, UnderWay
<1>6. CASE FlushBegin
  BY <1>1, <1>5, <1>6 DEF FlushBegin
<1>7. ASSUME NEW n \in 0..Capacity, Write(n) PROVE SendInv'
  <2> DEFINE w == [i \in 1..n |-> hist.accepted + i]
  <2>1. hist.accepted \in Nat /\ n \in Nat /\ hist.accepted + n <= MaxBytes
    BY <1>1, <1>7, StreamAssumption DEF Write, HistoryRecord
  <2>2. w \in Seq(Byte)
    BY <2>1, StreamAssumption DEF Byte
  <2>3. str' = [str EXCEPT !.tx = str.tx \o w]
    BY <1>7 DEF Write
  <2> HIDE DEF w
  <2>4. str' \in StreamRecord
    <3>1. str.tx \o w \in Seq(Byte)
      BY <1>1, <2>2
    <3> QED
      BY <1>1, <2>3, <3>1, TxSet
  <2>5. hist' \in HistoryRecord
    <3>1. hist.accepted + n \in Nat
      BY <2>1
    <3>2. hist' = [hist EXCEPT !.accepted = hist.accepted + n]
      BY <1>7 DEF Write
    <3> QED
      BY <1>1, <3>1, <3>2, AcceptedSet
  <2> QED
    BY <1>5, <1>7, <2>4, <2>5 DEF Write
<1>8. ASSUME NEW s \in StreamRecord, s.tx = str.tx
      PROVE  /\ Drain(s) \in StreamRecord /\ Drain(s).tx = str.tx
             /\ str.tx # << >> => Drain(s).event
             /\ Drained \in HistoryRecord
  <2>1. (s.event \/ s.tx # << >>) \in BOOLEAN
    OBVIOUS
  <2>2. (IF str.tx = << >> THEN hist.gaveUp ELSE "no") \in Reason
    BY <1>1 DEF HistoryRecord, Reason
  <2>3. Drain(s) \in StreamRecord /\ Drain(s).tx = s.tx /\ Drain(s).event = (s.event \/ s.tx # << >>)
    BY <2>1, EventSet DEF Drain
  <2> QED
    BY <1>1, <1>8, <2>2, <2>3, GaveUpSet DEF Drained
<1>9. CASE WriteDrains
  <2> DEFINE r == [thr["app"] EXCEPT !.pc = "idle"]
  <2>1. r \in ThreadRecord
    BY <1>1, PcSet DEF Place
  <2>2. thr' = [thr EXCEPT !["app"] = r]
    BY <1>9 DEF WriteDrains, Goto
  <2> HIDE DEF r
  <2>3. thr' \in [{"host", "app"} -> ThreadRecord]
    BY <1>1, <2>1, <2>2, GoesThere
  <2> QED
    BY <1>1, <1>8, <1>9, <2>3 DEF WriteDrains, SendInv, SendTypeOK, DataIsScheduled
<1>10. CASE FlushLoop
  <2> DEFINE a == IF str.tx = << >> THEN "idle" ELSE "send"
             q == [thr["app"] EXCEPT !.pc = a]
             r == [q EXCEPT !.before = Len(str.tx)]
  <2>1. a \in Place /\ Len(str.tx) \in Nat
    BY <1>1 DEF Place
  <2>2. q \in ThreadRecord /\ q.pc = a
    <3> HIDE DEF a
    <3> QED
      BY <1>1, <2>1, PcSet
  <2>3. thr' = [thr EXCEPT !["app"] = r]
    BY <1>1, <1>10 DEF FlushLoop, SendTypeOK
  <2> HIDE DEF q
  <2>4. r \in ThreadRecord /\ r.pc = a
    <3> HIDE DEF a
    <3>1. r \in ThreadRecord /\ r.pc = q.pc
      BY <2>1, <2>2, BeforeSet, Zenon
    <3> QED
      BY <2>2, <3>1
  <2> HIDE DEF r
  <2>5. CASE str.tx = << >>
    <3>1. thr' \in [{"host", "app"} -> ThreadRecord]
      BY <1>1, <2>3, <2>4, GoesThere
    <3> QED
      BY <1>1, <1>10, <2>5, <3>1, EmptyIsDone DEF FlushLoop
  <2>6. CASE str.tx # << >>
    BY <1>1, <1>10, <2>3, <2>4, <2>6, UnderWay DEF FlushLoop
  <2> QED
    BY <2>5, <2>6
<1>11. CASE DrainEvent
  <2> DEFINE r == [thr["host"] EXCEPT !.pc = "send"]
  <2>1. r \in ThreadRecord /\ r.pc = "send"
    BY <1>1, PcSet DEF Place, SendTypeOK
  <2>2. thr' = [thr EXCEPT !["host"] = r]
    BY <1>11 DEF DrainEvent, Goto
  <2> HIDE DEF r
  <2>3. str' \in StreamRecord
    BY <1>1, <1>11, EventSet DEF DrainEvent
  <2> QED
    BY <1>1, <1>11, <2>1, <2>2, <2>3, UnderWay DEF DrainEvent
<1>12. CASE DrainCallout
  <2>1. [str EXCEPT !.callout = FALSE] \in StreamRecord /\ [str EXCEPT !.callout = FALSE].tx = str.tx
    BY <1>1, CalloutSet
  <2>2. /\ str' \in StreamRecord /\ str'.tx = str.tx
        /\ str.tx # << >> => str'.event
        /\ hist' \in HistoryRecord
    BY <1>8, <1>12, <2>1 DEF DrainCallout
  <2> QED
    BY <1>1, <1>12, <2>2 DEF DrainCallout, SendInv, SendTypeOK, DataIsScheduled
<1> QED
  BY <1>2, <1>3, <1>4, <1>6, <1>7, <1>9, <1>10, <1>11, <1>12, SendingStep, PeersDoNotDrain
     DEF Next, AppStep, HostStep

LEMMA SendInit ==
  ASSUME Init
  PROVE  SendInv
<1>1. << >> \in Seq(Byte) /\ 0 \in Nat /\ NoPeer \in Peers \cup {NoPeer}
  OBVIOUS
<1>2. str \in StreamRecord /\ str.tx = << >>
  BY <1>1 DEF Init, StreamRecord
<1>3. hist \in HistoryRecord
  BY <1>1 DEF Init, HistoryRecord, Reason
<1>4. thr \in [{"host", "app"} -> ThreadRecord]
  BY IdleIsTyped DEF Init
<1> QED
  BY <1>2, <1>3, <1>4 DEF SendInv, SendTypeOK, DataIsScheduled

\* Bytes in the buffer never stay there with nobody to send them: write(), the
\* drain event, its callout and flush() hand them on to each other, or the last
\* send() gave up (NimBLEStream.cpp).
THEOREM DataStaysScheduled == Spec => []DataIsScheduled
<1>1. SendInv => DataIsScheduled
  BY DEF SendInv
<1> QED
  BY <1>1, SubInit, SendInit, SubStep, SendInvStep, PTL DEF Spec

-----------------------------------------------------------------------------
(* Who gets it.                                                            *)

\* A subscriber that a sender has copied is on a link that is encrypted if it must
\* be, or on one that has ended since.
CopyOK ==
  opt.secure => \A t \in {"host", "app"} : thr[t].to \subseteq stk.enc \cup thr[t].ended

\* A sender that copies nobody, and forgets nothing about those that it has copied.
LEMMA CopyKeeps ==
  ASSUME SubInv, SendInv, CopyOK, NEW t \in {"host", "app"}, NEW r \in ThreadRecord,
         thr' = [thr EXCEPT ![t] = r], UNCHANGED opt, stk'.enc = stk.enc,
         \/ r.to = {}
         \/ r.to \subseteq thr[t].to /\ r.ended = thr[t].ended
         \/ (opt.secure => r.to \subseteq stk.enc)
  PROVE  CopyOK'
<1>1. thr'[t] = r /\ \A u \in {"host", "app"} : u # t => thr'[u] = thr[u]
  BY GoesThere DEF SendInv
<1> QED
  BY <1>1 DEF CopyOK

LEMMA CopySend ==
  ASSUME SubInv, SendInv, CopyOK, NEW t \in {"host", "app"}, SendStep(t)
  PROVE  CopyOK'
<1>1. /\ SendTypeOK /\ thr \in [{"host", "app"} -> ThreadRecord] /\ thr[t] \in ThreadRecord
      /\ UNCHANGED <<opt, stk>>
  BY DEF SendInv, SendTypeOK, SendStep, NotReady, Peek, AllSent, SendValue, NobodySubscribed,
         PeerNotSubscribed, NotifyPeer, NotifyFails, NoBuffer, WriteValue, WriteFails, Failed, Drop
<1>2. ASSUME NEW a \in Place, Leave(t, a) PROVE CopyOK'
  BY <1>1, <1>2, LeaveIs, LeaveSet, CopyKeeps
<1>3. ASSUME NEW retry, NEW why, Return(t, retry, why) PROVE CopyOK'
  <2>1. /\ Idle \in ThreadRecord /\ Idle.to = {}
        /\ [Idle EXCEPT !.pc = "flush"] \in ThreadRecord /\ [Idle EXCEPT !.pc = "flush"].to = {}
    BY IdleIsTyped, PcSet DEF Place, Idle
  <2>2. CASE t = "host"
    BY <1>1, <1>3, <2>1, <2>2, CopyKeeps DEF Return
  <2>3. CASE t = "app"
    BY <1>1, <1>3, <2>1, <2>3, CopyKeeps DEF Return
  <2> QED
    BY <2>2, <2>3
<1>4. CASE NotReady(t) \/ AllSent(t) \/ Failed(t)
  BY <1>3, <1>4 DEF NotReady, AllSent, Failed
<1>5. CASE Peek(t)
  BY <1>1, <1>5, PeekIs, CopyKeeps
<1>6. CASE SendValue(t)
  BY <1>1, <1>6, ValueIs, TargetsAreEncrypted, CopyKeeps
<1>7. ASSUME NEW p \in Peers, NotifyPeer(t, p) PROVE CopyOK'
  <2>1. CASE thr' = [thr EXCEPT ![t].to = thr[t].to \ {p}]
    BY <1>1, <2>1, LessIs, CopyKeeps
  <2> QED
    BY <1>2, <1>7, <2>1 DEF NotifyPeer, Place
<1>8. CASE \/ NobodySubscribed(t) \/ PeerNotSubscribed(t) \/ NoBuffer(t) \/ WriteValue(t)
           \/ \E p \in Peers, nomem \in BOOLEAN : NotifyFails(t, p, nomem)
           \/ \E nomem \in BOOLEAN : WriteFails(t, nomem)
  BY <1>2, <1>8
     DEF NobodySubscribed, PeerNotSubscribed, NoBuffer, WriteValue, NotifyFails, WriteFails, Place
<1>9. CASE Drop(t)
  <2>1. thr' = [thr EXCEPT ![t] = [thr[t] EXCEPT !.pc = "send"]]
    BY <1>9 DEF Drop, Goto
  <2>2. [thr[t] EXCEPT !.pc = "send"] \in ThreadRecord
        /\ [thr[t] EXCEPT !.pc = "send"].to = thr[t].to
        /\ [thr[t] EXCEPT !.pc = "send"].ended = thr[t].ended
    BY <1>1 DEF ThreadRecord
  <2> QED
    BY <1>1, <2>1, <2>2, CopyKeeps
<1> QED
  BY <1>4, <1>5, <1>6, <1>7, <1>8, <1>9 DEF SendStep

LEMMA CopyStep ==
  ASSUME SubInv, SendInv, CopyOK, [Next]_vars
  PROVE  CopyOK'
<1>1. /\ thr \in [{"host", "app"} -> ThreadRecord] /\ stk \in Stack
  BY DEF SendInv, SendTypeOK, SubInv, SubTypeOK, Stack
<1>2. ASSUME UNCHANGED <<opt, thr>>, stk.enc \subseteq stk'.enc PROVE CopyOK'
  BY <1>2 DEF CopyOK
<1>3. CASE \/ UNCHANGED vars \/ BeginServer \/ BeginClient \/ EndServer \/ EndClient
           \/ DrainCallout \/ BuffersChange
  <2>1. stk.enc = stk'.enc /\ UNCHANGED <<opt, thr>>
    BY <1>1, <1>3
       DEF vars, BeginServer, BeginClient, EndServer, EndClient, DrainCallout, BuffersChange, Stack
  <2> QED
    BY <1>2, <2>1
<1>4. ASSUME NEW p \in Peers, LinkDown(p) PROVE CopyOK'
  <2>1. /\ stk'.enc = stk.enc \ {p} /\ UNCHANGED opt
        /\ \A t \in {"host", "app"} :
             thr'[t] = [thr[t] EXCEPT !.ended = thr[t].ended \cup ({p} \cap thr[t].to)]
    BY <1>1, <1>4 DEF LinkDown, Stack
  <2>2. ASSUME NEW t \in {"host", "app"}
        PROVE  thr'[t].to = thr[t].to /\ thr'[t].ended = thr[t].ended \cup ({p} \cap thr[t].to)
    <3>1. thr[t] \in ThreadRecord
      BY <1>1
    <3> QED
      BY <2>1, <3>1 DEF ThreadRecord
  <2> QED
    BY <2>1, <2>2 DEF CopyOK
<1>5. ASSUME NEW p \in Peers, LinkUp(p) \/ Subscribe(p) \/ Resubscribe(p) \/ Unsubscribe(p)
      PROVE  CopyOK'
  <2>1. stk.enc = stk'.enc /\ UNCHANGED <<opt, thr>>
    BY <1>1, <1>5 DEF LinkUp, Subscribe, Resubscribe, Unsubscribe, Stack
  <2> QED
    BY <1>2, <2>1
<1>6. ASSUME NEW p \in Peers, NEW ok \in BOOLEAN, EncChange(p, ok) PROVE CopyOK'
  <2>1. stk.enc \subseteq stk'.enc /\ UNCHANGED <<opt, thr>>
    BY <1>1, <1>6 DEF EncChange, Stack
  <2> QED
    BY <1>2, <2>1
<1>7. ASSUME NEW t \in {"host", "app"}, NEW r \in ThreadRecord, thr' = [thr EXCEPT ![t] = r],
             UNCHANGED <<opt, stk>>, r.to = thr[t].to, r.ended = thr[t].ended
      PROVE  CopyOK'
  BY <1>7, CopyKeeps
<1>8. CASE FlushBegin \/ WriteDrains \/ DrainEvent \/ \E n \in 0..Capacity : Write(n)
  <2>1. PICK t \in {"host", "app"}, a \in Place :
          thr' = [thr EXCEPT ![t] = [thr[t] EXCEPT !.pc = a]]
    BY <1>8 DEF FlushBegin, WriteDrains, DrainEvent, Write, Goto, Place
  <2>2. LET r == [thr[t] EXCEPT !.pc = a]
        IN  r \in ThreadRecord /\ r.to = thr[t].to /\ r.ended = thr[t].ended
    BY <1>1 DEF ThreadRecord, Place
  <2>3. UNCHANGED <<opt, stk>>
    BY <1>8 DEF FlushBegin, WriteDrains, DrainEvent, Write
  <2> QED
    BY <1>7, <2>1, <2>2, <2>3
<1>9. CASE FlushLoop
  <2> DEFINE a == IF str.tx = << >> THEN "idle" ELSE "send"
             r == [[thr["app"] EXCEPT !.pc = a] EXCEPT !.before = Len(str.tx)]
  <2>1. thr' = [thr EXCEPT !["app"] = r] /\ UNCHANGED <<opt, stk>>
    BY <1>1, <1>9 DEF FlushLoop
  <2>2. Len(str.tx) \in Nat /\ thr["app"] \in ThreadRecord
    BY <1>1 DEF SendInv, SendTypeOK, StreamRecord
  <2>3. a \in {"idle", "send"}
    OBVIOUS
  <2> HIDE DEF a
  <2>4. r \in ThreadRecord /\ r.to = thr["app"].to /\ r.ended = thr["app"].ended
    BY <2>2, <2>3 DEF ThreadRecord
  <2> HIDE DEF r
  <2> QED
    BY <1>7, <2>1, <2>4
<1> QED
  BY <1>3, <1>4, <1>5, <1>6, <1>8, <1>9, CopySend DEF Next, PeerStep, AppStep, HostStep

LEMMA CopyInit ==
  ASSUME Init
  PROVE  CopyOK
BY DEF Init, CopyOK, Idle

\* No notification of a stream that needs secure links goes to a link that is not
\* encrypted, through subscriptions, links that end and handles that are used again,
\* but to one that came up under the handle of a subscriber while sendValue() was
\* at work on its copy of the subscribers (sendValue(), processSubRequest(),
\* updatePeerStatus(), NimBLECharacteristic.cpp).
THEOREM SecureDataStaysSecure == Spec => SecureGetsData
<1> DEFINE All == SubInv /\ SendInv /\ CopyOK
<1>1. Init => All
  BY SubInit, SendInit, CopyInit
<1>2. All /\ [Next]_vars => All'
  BY SubStep, SendInvStep, CopyStep
<1>3. All => [\A t \in {"host", "app"}, p \in Peers :
                NotifyPeer(t, p) /\ opt.secure => p \in stk.enc \cup thr[t].ended]_vars
  BY DEF CopyOK, NotifyPeer
<1> HIDE DEF All
<1> QED
  BY <1>1, <1>2, <1>3, PTL DEF Spec, SecureGetsData

-----------------------------------------------------------------------------
(* The bytes in order.                                                     *)

\* Of a sender that is about to drop what it sent, how many bytes that is.
Flight(T) ==
  IF T["host"].pc = "drop" THEN Len(T["host"].chunk)
  ELSE IF T["app"].pc = "drop" THEN Len(T["app"].chunk) ELSE 0

\* The buffer x holds the last of the n bytes that were accepted.
RunOK(x, n) ==
  /\ Len(x) <= n /\ Len(x) <= Capacity /\ n <= MaxBytes
  /\ \A i \in 1..Len(x) : x[i] = n - Len(x) + i

\* What a sender has copied is still at the head of the buffer.
ChunksOK(T, x) ==
  \A t \in {"host", "app"} :
    LET c == T[t].chunk
    IN  /\ Len(c) <= Chunk /\ T[t].before <= Capacity
        /\ T[t].pc \in {"notify", "value", "drop"} =>
             Len(c) <= Len(x) /\ \A i \in 1..Len(c) : c[i] = x[i]

\* flush() sends alone.
AloneOK(T, s) ==
  /\ T["host"].pc \in {"idle", "send", "notify", "value", "failed", "drop"}
  /\ T["app"].pc \notin {"idle", "wrote"} => T["host"].pc = "idle" /\ ~s.event /\ ~s.callout

\* The first n bytes are sent, in order, or lost.
Settled(sent, lost, n) ==
  /\ \A i, j \in 1..Len(sent) : i < j => sent[i] < sent[j]
  /\ ToSet(sent) \cup lost = 1..n
  /\ ToSet(sent) \cap lost = {}

OneEntryEach == \A i, j \in 1..Slots : sub[i].peer = sub[j].peer /\ i # j => sub[i].peer = NoPeer

ByteInv ==
  /\ OneEntryEach
  /\ RunOK(str.tx, hist.accepted)
  /\ ChunksOK(thr, str.tx)
  /\ AloneOK(thr, str)
  /\ Settled(hist.sent, hist.lost, hist.accepted - Len(str.tx) + Flight(thr))

\* Bytes that follow those that are settled: whether sent or lost, they are settled.
LEMMA SettleMore ==
  ASSUME NEW sent \in Seq(Nat), NEW lost, NEW n \in Nat, Settled(sent, lost, n),
         NEW c \in Seq(Nat), \A i \in 1..Len(c) : c[i] = n + i
  PROVE  /\ Settled(sent \o c, lost, n + Len(c))
         /\ Settled(sent, lost \cup ToSet(c), n + Len(c))
         /\ ToSet(c) = (n + 1)..(n + Len(c))
<1>1. ToSet(c) = (n + 1)..(n + Len(c))
  <2>1. \A b : b \in ToSet(c) <=> \E i \in 1..Len(c) : c[i] = b
    BY Members
  <2>2. ASSUME NEW b \in ToSet(c) PROVE b \in (n + 1)..(n + Len(c))
    <3>1. PICK i \in 1..Len(c) : c[i] = b
      BY <2>1
    <3>2. b = n + i /\ i \in 1..Len(c)
      BY <3>1
    <3> QED
      BY <3>2
  <2>3. ASSUME NEW b \in (n + 1)..(n + Len(c)) PROVE b \in ToSet(c)
    <3>1. b - n \in 1..Len(c) /\ c[b - n] = b
      OBVIOUS
    <3> QED
      BY <2>1, <3>1
  <2> QED
    BY <2>2, <2>3
<1>2. \A i \in 1..Len(sent) : sent[i] \in ToSet(sent) /\ sent[i] <= n /\ sent[i] \in Int
  <2>1. \A i \in 1..Len(sent) : sent[i] \in ToSet(sent) /\ sent[i] \in Nat
    BY Members
  <2>2. ToSet(sent) \subseteq 1..n
    BY DEF Settled
  <2> QED
    BY <2>1, <2>2
<1>3. ToSet(sent) \cap ToSet(c) = {} /\ lost \cap ToSet(c) = {}
  BY <1>1 DEF Settled
<1>4. 1..(n + Len(c)) = (1..n) \cup ToSet(c)
  BY <1>1
<1>5. Settled(sent, lost \cup ToSet(c), n + Len(c))
  BY <1>3, <1>4 DEF Settled
<1> DEFINE s == sent \o c
<1>6. /\ s \in Seq(Nat) /\ Len(s) = Len(sent) + Len(c)
      /\ \A i \in 1..Len(s) : s[i] = IF i <= Len(sent) THEN sent[i] ELSE c[i - Len(sent)]
  OBVIOUS
<1> HIDE DEF s
<1>7. ToSet(s) = ToSet(sent) \cup ToSet(c)
  <2>1. /\ \A b : b \in ToSet(s) <=> \E i \in 1..Len(s) : s[i] = b
        /\ \A b : b \in ToSet(sent) <=> \E i \in 1..Len(sent) : sent[i] = b
        /\ \A b : b \in ToSet(c) <=> \E i \in 1..Len(c) : c[i] = b
    BY <1>6, Members
  <2>2. ASSUME NEW b \in ToSet(s) PROVE b \in ToSet(sent) \cup ToSet(c)
    <3>1. PICK i \in 1..Len(s) : s[i] = b
      BY <2>1
    <3>2. CASE i <= Len(sent)
      <4>1. i \in 1..Len(sent) /\ sent[i] = b
        BY <1>6, <3>1, <3>2
      <4> QED
        BY <2>1, <4>1
    <3>3. CASE ~(i <= Len(sent))
      <4>1. i - Len(sent) \in 1..Len(c) /\ c[i - Len(sent)] = b
        BY <1>6, <3>1, <3>3
      <4> QED
        BY <2>1, <4>1
    <3> QED
      BY <3>2, <3>3
  <2>3. ASSUME NEW b \in ToSet(sent) PROVE b \in ToSet(s)
    <3>1. PICK i \in 1..Len(sent) : sent[i] = b
      BY <2>1
    <3>2. i \in 1..Len(s) /\ s[i] = b
      BY <1>6, <3>1
    <3> QED
      BY <2>1, <3>2
  <2>4. ASSUME NEW b \in ToSet(c) PROVE b \in ToSet(s)
    <3>1. PICK i \in 1..Len(c) : c[i] = b
      BY <2>1
    <3>2. Len(sent) + i \in 1..Len(s) /\ ~(Len(sent) + i <= Len(sent))
          /\ (Len(sent) + i) - Len(sent) = i
      BY <1>6
    <3>3. s[Len(sent) + i] = c[(Len(sent) + i) - Len(sent)]
      BY <1>6, <3>2
    <3> QED
      BY <2>1, <3>1, <3>2, <3>3
  <2> QED
    BY <2>2, <2>3, <2>4
<1>8. ASSUME NEW i \in 1..Len(s), NEW j \in 1..Len(s), i < j PROVE s[i] < s[j]
  <2>1. CASE j <= Len(sent)
    <3>1. s[i] = sent[i] /\ s[j] = sent[j] /\ i \in 1..Len(sent) /\ j \in 1..Len(sent)
      BY <1>6, <1>8, <2>1
    <3> QED
      BY <1>8, <3>1 DEF Settled
  <2>2. CASE ~(j <= Len(sent))
    <3>1. s[j] = n + (j - Len(sent)) /\ j - Len(sent) \in 1..Len(c)
      <4>1. s[j] = c[j - Len(sent)] /\ j - Len(sent) \in 1..Len(c)
        BY <1>6, <2>2
      <4> QED
        BY <4>1
    <3>2. CASE i <= Len(sent)
      <4>1. s[i] = sent[i] /\ i \in 1..Len(sent)
        BY <1>6, <3>2
      <4> QED
        BY <1>2, <3>1, <4>1
    <3>3. CASE ~(i <= Len(sent))
      <4>1. s[i] = c[i - Len(sent)] /\ i - Len(sent) \in 1..Len(c)
        BY <1>6, <3>3
      <4>2. s[i] = n + (i - Len(sent))
        BY <4>1
      <4> QED
        BY <1>8, <3>1, <4>2
    <3> QED
      BY <3>2, <3>3
  <2> QED
    BY <2>1, <2>2
<1>9. Settled(s, lost, n + Len(c))
  <2>1. ToSet(s) \cup lost = 1..(n + Len(c)) /\ ToSet(s) \cap lost = {}
    BY <1>3, <1>4, <1>7 DEF Settled
  <2> QED
    BY <1>8, <2>1 DEF Settled
<1> QED
  BY <1>1, <1>5, <1>9 DEF s

\* The buffer's bytes are those after the settled ones.
LEMMA RunIs ==
  ASSUME NEW x \in Seq(Byte), NEW n \in Nat, RunOK(x, n)
  PROVE  /\ Len(x) \in Nat /\ n - Len(x) \in Nat
         /\ ToSet(x) = (n - Len(x) + 1)..n
         /\ \A i, j \in DOMAIN x : i < j => x[i] < x[j]
<1>1. /\ Len(x) \in Nat /\ n - Len(x) \in Nat /\ DOMAIN x = 1..Len(x)
      /\ \A i \in 1..Len(x) : x[i] = n - Len(x) + i
  BY DEF RunOK
<1>2. \A b : b \in ToSet(x) <=> \E i \in 1..Len(x) : x[i] = b
  BY Members
<1>3. ASSUME NEW b \in (n - Len(x) + 1)..n PROVE b \in ToSet(x)
  <2>1. b - (n - Len(x)) \in 1..Len(x) /\ x[b - (n - Len(x))] = b
    BY <1>1
  <2> QED
    BY <1>2, <2>1
<1>4. ASSUME NEW b \in ToSet(x) PROVE b \in (n - Len(x) + 1)..n
  BY <1>1, <1>2
<1>5. ASSUME NEW i \in DOMAIN x, NEW j \in DOMAIN x, i < j PROVE x[i] < x[j]
  <2>1. x[i] = n - Len(x) + i /\ x[j] = n - Len(x) + j /\ i \in Int /\ j \in Int
    BY <1>1
  <2> QED
    BY <1>1, <1>5, <2>1
<1>6. ToSet(x) = (n - Len(x) + 1)..n
  BY <1>3, <1>4
<1> QED
  BY <1>1, <1>5, <1>6

LEMMA BytesAreNumbers ==
  ASSUME NEW s \in Seq(Byte)
  PROVE  s \in Seq(Nat)
<1>1. Byte \subseteq Nat
  BY StreamAssumption DEF Byte
<1> QED
  BY <1>1, SeqMonotonic

\* What is settled once the buffer is cleared.
ClearedIsSettled(lost) == Settled(hist.sent, lost, hist.accepted)

LEMMA ClearedIs ==
  ASSUME str.tx \in Seq(Byte), hist.sent \in Seq(Byte), hist.accepted \in Nat,
         RunOK(str.tx, hist.accepted), Settled(hist.sent, hist.lost, hist.accepted - Len(str.tx))
  PROVE  ClearedIsSettled(hist.lost \cup ToSet(str.tx))
<1> DEFINE n == hist.accepted - Len(str.tx)
<1>1. n \in Nat /\ n + Len(str.tx) = hist.accepted
  BY DEF RunOK
<1>2. str.tx \in Seq(Nat) /\ hist.sent \in Seq(Nat)
  BY BytesAreNumbers
<1>3. \A i \in 1..Len(str.tx) : str.tx[i] = n + i
  BY DEF RunOK
<1> HIDE DEF n
<1>4. Settled(hist.sent, hist.lost, n)
  BY DEF n
<1>5. Settled(hist.sent, hist.lost \cup ToSet(str.tx), n + Len(str.tx))
  BY <1>1, <1>2, <1>3, <1>4, SettleMore
<1> QED
  BY <1>1, <1>5 DEF ClearedIsSettled

\* A request changes at most one entry, to a subscriber that had none.
LEMMA EntriesStayApart ==
  ASSUME SubTypeOK, OneEntryEach, [Next]_vars
  PROVE  OneEntryEach'
<1>1. sub \in [1..Slots -> SubPeerEntry]
  BY DEF SubTypeOK
<1>2. CASE UNCHANGED sub
  BY <1>2 DEF OneEntryEach
<1>3. ASSUME NEW p \in Peers, SubscribeRequest(p) PROVE OneEntryEach'
  <2>1. CASE Entries(p) = {}
    <3> DEFINE e == [peer |-> p, secured |-> p \in stk.enc, awaiting |-> opt.secure /\ p \notin stk.enc]
    <3>1. sub' = [sub EXCEPT ![FirstFree] = e]
      BY <1>3, <2>1 DEF SubscribeRequest
    <3>2. e.peer = p /\ \A i \in 1..Slots : sub[i].peer # p
      BY <2>1 DEF Entries
    <3> HIDE DEF e
    <3>3. \A i \in 1..Slots : sub'[i] = IF i = FirstFree THEN e ELSE sub[i]
      BY <1>1, <3>1
    <3> QED
      BY <3>2, <3>3 DEF OneEntryEach
  <2>2. CASE Entries(p) # {}
    BY <1>2, <1>3, <2>2 DEF SubscribeRequest
  <2> QED
    BY <2>1, <2>2
<1>4. ASSUME NEW p \in Peers, UnsubscribeRequest(p) PROVE OneEntryEach'
  <2>1. \A i \in 1..Slots : sub'[i] = NoSub \/ sub'[i] = sub[i]
    BY <1>4 DEF UnsubscribeRequest
  <2>2. NoSub.peer = NoPeer
    BY DEF NoSub
  <2> QED
    BY <2>1, <2>2 DEF OneEntryEach
<1>5. ASSUME NEW p \in Peers, NEW ok \in BOOLEAN, EncChange(p, ok) PROVE OneEntryEach'
  <2> DEFINE secured == p \in stk'.enc
  <2>1. sub' = [i \in 1..Slots |->
                  IF i \in Entries(p)
                  THEN [sub[i] EXCEPT !.secured = secured, !.awaiting = FALSE] ELSE sub[i]]
    BY <1>5, Zenon DEF EncChange, UpdatePeerStatus
  <2>2. secured \in BOOLEAN
    OBVIOUS
  <2> HIDE DEF secured
  <2>3. \A i \in 1..Slots : sub'[i].peer = sub[i].peer
    BY <1>1, <2>1, <2>2, EntryIsTyped
  <2> QED
    BY <2>3 DEF OneEntryEach
<1> QED
  BY <1>2, <1>3, <1>4, <1>5, SubscriptionsStay
     DEF PeerStep, LinkUp, LinkDown, Subscribe, Resubscribe, Unsubscribe, vars

\* Nothing that the invariant speaks of changes but where a thread is, and no
\* thread comes to drop what it sent.
LEMMA BytesStay ==
  ASSUME ByteInv, OneEntryEach', AloneOK(thr', str'), ChunksOK(thr', str.tx),
         Flight(thr') = Flight(thr), str'.tx = str.tx, hist'.accepted = hist.accepted,
         hist'.sent = hist.sent, hist'.lost = hist.lost
  PROVE  ByteInv'
BY DEF ByteInv

\* Whoever sends, sends alone.
LEMMA FlightIs ==
  ASSUME NEW T, NEW s, AloneOK(T, s), NEW t \in {"host", "app"}, T[t].pc \notin {"idle", "wrote"}
  PROVE  Flight(T) = IF T[t].pc = "drop" THEN Len(T[t].chunk) ELSE 0
BY DEF AloneOK, Flight

LEMMA ChunksGo ==
  ASSUME SendTypeOK, NEW x, ChunksOK(thr, x), NEW t \in {"host", "app"}, NEW r \in ThreadRecord,
         thr' = [thr EXCEPT ![t] = r], Len(r.chunk) <= Chunk, r.before <= Capacity,
         r.pc \in {"notify", "value", "drop"} =>
           Len(r.chunk) <= Len(x) /\ \A i \in 1..Len(r.chunk) : r.chunk[i] = x[i]
  PROVE  ChunksOK(thr', x)
<1>1. thr'[t] = r /\ \A u \in {"host", "app"} : u # t => thr'[u] = thr[u]
  BY GoesThere
<1> QED
  BY <1>1 DEF ChunksOK

LEMMA AloneGoes ==
  ASSUME SendTypeOK, AloneOK(thr, str), NEW t \in {"host", "app"}, NEW r \in ThreadRecord,
         thr' = [thr EXCEPT ![t] = r], thr[t].pc \notin {"idle", "wrote"},
         t = "host" => r.pc \in {"idle", "send", "notify", "value", "failed", "drop"},
         t = "app" => str'.event = str.event /\ str'.callout = str.callout
  PROVE  AloneOK(thr', str')
<1>1. thr'[t] = r /\ \A u \in {"host", "app"} : u # t => thr'[u] = thr[u]
  BY GoesThere
<1> QED
  BY <1>1 DEF AloneOK

\* The end of send(): flush() may clear what is left.
LEMMA ReturnKeepsOrder ==
  ASSUME SendInv, ByteInv, OneEntryEach', NEW t \in {"host", "app"}, At(t, "send") \/ At(t, "failed"),
         NEW retry, NEW why, Return(t, retry, why)
  PROVE  ByteInv'
<1>1. /\ SendTypeOK /\ str \in StreamRecord /\ hist \in HistoryRecord
      /\ str.tx \in Seq(Byte) /\ hist.accepted \in Nat /\ hist.sent \in Seq(Byte)
      /\ thr[t].pc \in {"send", "failed"}
      /\ RunOK(str.tx, hist.accepted) /\ ChunksOK(thr, str.tx) /\ AloneOK(thr, str)
      /\ Settled(hist.sent, hist.lost, hist.accepted - Len(str.tx) + Flight(thr))
  BY DEF SendInv, SendTypeOK, StreamRecord, HistoryRecord, ByteInv, At
<1>2. Flight(thr) = 0
  BY <1>1, FlightIs
<1>3. ASSUME NEW r \in ThreadRecord, r.chunk = << >>, r.before = 0, r.pc \in {"idle", "flush"},
             t = "host" => r.pc = "idle", thr' = [thr EXCEPT ![t] = r],
             t = "app" => str'.event = str.event /\ str'.callout = str.callout
      PROVE  /\ Flight(thr') = 0 /\ AloneOK(thr', str')
             /\ \A x : ChunksOK(thr, x) => ChunksOK(thr', x)
  <2>1. AloneOK(thr', str')
    BY <1>1, <1>3, AloneGoes
  <2>2. thr'[t] = r /\ \A u \in {"host", "app"} : u # t => thr'[u] = thr[u]
    BY <1>1, <1>3, GoesThere
  <2>3. Flight(thr') = 0
    BY <1>1, <1>3, <2>2 DEF Flight, AloneOK
  <2>4. Len(r.chunk) <= Chunk /\ r.before <= Capacity
    BY <1>3, StreamAssumption
  <2>5. \A x : ChunksOK(thr, x) => ChunksOK(thr', x)
    BY <1>1, <1>3, <2>4, ChunksGo
  <2> QED
    BY <2>1, <2>3, <2>5
<1>4. /\ Idle \in ThreadRecord /\ Idle.chunk = << >> /\ Idle.before = 0 /\ Idle.pc = "idle"
      /\ LET f == [Idle EXCEPT !.pc = "flush"]
         IN  f \in ThreadRecord /\ f.chunk = << >> /\ f.before = 0 /\ f.pc = "flush"
  <2>1. Idle \in ThreadRecord
    BY IdleIsTyped
  <2> QED
    BY <2>1 DEF Idle, ThreadRecord
<1>5. CASE t = "host"
  <2> DEFINE g == IF retry \/ str.tx = << >> THEN "no" ELSE why
             c == str.callout \/ retry
  <2>1. /\ str' = [str EXCEPT !.callout = c]
        /\ hist' = [hist EXCEPT !.gaveUp = g, !.starved = FALSE]
        /\ thr' = [thr EXCEPT !["host"] = Idle]
    BY <1>5 DEF Return
  <2> HIDE DEF g, c
  <2>2. str'.tx = str.tx /\ hist'.accepted = hist.accepted /\ hist'.sent = hist.sent /\ hist'.lost = hist.lost
    BY <1>1, <2>1 DEF StreamRecord, HistoryRecord
  <2>3. Flight(thr') = 0 /\ AloneOK(thr', str') /\ ChunksOK(thr', str.tx)
    BY <1>1, <1>3, <1>4, <1>5, <2>1
  <2> QED
    BY <1>2, <2>2, <2>3, BytesStay
<1>6. CASE t = "app"
  <2>1. CASE /\ thr' = [thr EXCEPT !["app"] = [Idle EXCEPT !.pc = "flush"]]
             /\ hist' = [hist EXCEPT !.starved = FALSE]
             /\ UNCHANGED str
    <3>1. hist'.accepted = hist.accepted /\ hist'.sent = hist.sent /\ hist'.lost = hist.lost
      BY <1>1, <2>1 DEF HistoryRecord
    <3>2. Flight(thr') = 0 /\ AloneOK(thr', str') /\ ChunksOK(thr', str.tx)
      BY <1>1, <1>3, <1>4, <1>6, <2>1
    <3> QED
      BY <1>2, <2>1, <3>1, <3>2, BytesStay
  <2>2. CASE /\ thr' = [thr EXCEPT !["app"] = Idle]
             /\ str' = Cleared
             /\ hist' = [Loses(str.tx) EXCEPT !.starved = FALSE]
    <3>1. str'.tx = << >> /\ str'.event = str.event /\ str'.callout = str.callout
      BY <1>1, <2>2 DEF Cleared, StreamRecord
    <3>2. hist'.accepted = hist.accepted /\ hist'.sent = hist.sent
          /\ hist'.lost = hist.lost \cup ToSet(str.tx)
      BY <1>1, <2>2 DEF Loses, HistoryRecord
    <3>3. Flight(thr') = 0 /\ AloneOK(thr', str') /\ ChunksOK(thr', << >>)
      <4>1. ChunksOK(thr', str.tx) /\ Flight(thr') = 0 /\ AloneOK(thr', str')
        BY <1>1, <1>3, <1>4, <1>6, <2>2, <3>1
      <4>2. \A u \in {"host", "app"} : thr'[u].pc \notin {"notify", "value", "drop"}
        BY <1>1, <1>4, <1>6, <2>2, GoesThere DEF AloneOK
      <4> QED
        BY <4>1, <4>2 DEF ChunksOK
    <3>4. ClearedIsSettled(hist.lost \cup ToSet(str.tx))
      BY <1>1, <1>2, ClearedIs
    <3>5. RunOK(<< >>, hist.accepted)
      BY <1>1, StreamAssumption DEF RunOK
    <3> QED
      BY <1>1, <3>1, <3>2, <3>3, <3>4, <3>5 DEF ByteInv, ClearedIsSettled
  <2> QED
    BY <1>6, <2>1, <2>2 DEF Return
<1> QED
  BY <1>5, <1>6

\* A sender that goes on, with nothing sent and nothing dropped.
LEMMA MoveKeepsOrder ==
  ASSUME SendTypeOK, ByteInv, OneEntryEach', NEW t \in {"host", "app"}, NEW r \in ThreadRecord,
         thr' = [thr EXCEPT ![t] = r], thr[t].pc \in {"flush", "send", "notify", "value", "failed"},
         r.pc \in {"idle", "send", "notify", "value", "failed"},
         Len(r.chunk) <= Chunk, r.before <= Capacity,
         r.pc \in {"notify", "value"} =>
           Len(r.chunk) <= Len(str.tx) /\ \A i \in 1..Len(r.chunk) : r.chunk[i] = str.tx[i],
         str'.tx = str.tx, str'.event = str.event, str'.callout = str.callout,
         hist'.accepted = hist.accepted, hist'.sent = hist.sent, hist'.lost = hist.lost
  PROVE  ByteInv'
<1>1. AloneOK(thr, str) /\ ChunksOK(thr, str.tx)
  BY DEF ByteInv
<1>2. thr'[t] = r /\ \A u \in {"host", "app"} : u # t => thr'[u] = thr[u]
  BY GoesThere
<1>3. AloneOK(thr', str')
  BY <1>1, AloneGoes
<1>4. Flight(thr) = 0 /\ Flight(thr') = 0
  BY <1>1, <1>2, <1>3 DEF Flight, AloneOK
<1>5. ChunksOK(thr', str.tx)
  BY <1>1, ChunksGo
<1> QED
  BY <1>3, <1>4, <1>5, BytesStay

\* What a sender holds are the bytes after those that are settled.
LEMMA ChunkIsNext ==
  ASSUME SendInv, ByteInv, NEW t \in {"host", "app"}, thr[t].pc \in {"notify", "value", "drop"}
  PROVE  LET c == thr[t].chunk
             n == hist.accepted - Len(str.tx)
         IN  /\ c \in Seq(Nat) /\ hist.sent \in Seq(Nat) /\ n \in Nat
             /\ Len(c) \in 0..Len(str.tx)
             /\ \A i \in 1..Len(c) : c[i] = n + i
<1>1. /\ str.tx \in Seq(Byte) /\ hist.sent \in Seq(Byte) /\ thr[t].chunk \in Seq(Byte)
      /\ hist.accepted \in Nat
  BY DEF SendInv, SendTypeOK, StreamRecord, HistoryRecord, ThreadRecord
<1> DEFINE c == thr[t].chunk
           n == hist.accepted - Len(str.tx)
<1>2. /\ Len(c) <= Len(str.tx) /\ \A i \in 1..Len(c) : c[i] = str.tx[i]
      /\ n \in Nat /\ \A i \in 1..Len(str.tx) : str.tx[i] = n + i
  BY <1>1 DEF ByteInv, ChunksOK, RunOK
<1>3. Len(c) \in 0..Len(str.tx)
  BY <1>1, <1>2
<1>4. \A i \in 1..Len(c) : c[i] = n + i
  <2> HIDE DEF c, n
  <2> QED
    BY <1>1, <1>2, <1>3
<1> QED
  BY <1>1, <1>2, <1>3, <1>4, BytesAreNumbers

\* A value that is handed to the stack is settled: sent, or lost if it was for nobody.
LEMMA NotifyKeepsOrder ==
  ASSUME SendInv, ByteInv, OneEntryEach', NEW t \in {"host", "app"},
         thr[t].pc \in {"notify", "value"}, Leave(t, "drop"),
         str'.tx = str.tx, str'.event = str.event, str'.callout = str.callout,
         hist' = Sent(t) \/ hist' = Loses(thr[t].chunk)
  PROVE  ByteInv'
<1>1. /\ SendTypeOK /\ str \in StreamRecord /\ hist \in HistoryRecord /\ thr[t] \in ThreadRecord
      /\ thr[t].pc \in {"notify", "value"}
  BY DEF SendInv, SendTypeOK
<1>2. AloneOK(thr, str) /\ ChunksOK(thr, str.tx) /\ RunOK(str.tx, hist.accepted)
      /\ Settled(hist.sent, hist.lost, hist.accepted - Len(str.tx) + Flight(thr))
  BY DEF ByteInv
<1> DEFINE c == thr[t].chunk
           n == hist.accepted - Len(str.tx)
           r == LeftRecord(thr[t], "drop")
<1>3. /\ c \in Seq(Nat) /\ hist.sent \in Seq(Nat) /\ n \in Nat
      /\ Len(c) \in 0..Len(str.tx)
      /\ \A i \in 1..Len(c) : c[i] = n + i
  BY <1>1, ChunkIsNext
<1>4. r \in ThreadRecord /\ r.pc = "drop" /\ r.chunk = c /\ r.before = thr[t].before
  BY <1>1, LeaveSet DEF Place
<1>5. thr' = [thr EXCEPT ![t] = r]
  BY <1>1, LeaveIs DEF SendTypeOK
<1>6. Len(c) <= Chunk /\ thr[t].before <= Capacity
      /\ Len(c) <= Len(str.tx) /\ \A i \in 1..Len(c) : c[i] = str.tx[i]
  BY <1>1, <1>2 DEF ChunksOK
<1>7. /\ str'.tx = str.tx /\ str'.event = str.event /\ str'.callout = str.callout
      /\ hist'.accepted = hist.accepted
      /\ \/ hist'.sent = hist.sent \o c /\ hist'.lost = hist.lost
         \/ hist'.sent = hist.sent /\ hist'.lost = hist.lost \cup ToSet(c)
  BY <1>1 DEF Sent, Loses, HistoryRecord
<1> HIDE DEF c, n, r
<1>8. AloneOK(thr', str')
  BY <1>1, <1>2, <1>4, <1>5, <1>7, AloneGoes
<1>9. ChunksOK(thr', str.tx)
  BY <1>1, <1>2, <1>4, <1>5, <1>6, ChunksGo
<1>10. Flight(thr) = 0
  BY <1>1, <1>2, FlightIs
<1>11. thr'[t] = r
  BY <1>1, <1>4, <1>5, GoesThere
<1>12. Flight(thr') = Len(c)
  BY <1>4, <1>8, <1>11, FlightIs
<1>13. Settled(hist.sent, hist.lost, n)
  BY <1>2, <1>3, <1>10 DEF n
<1>14. Settled(hist'.sent, hist'.lost, n + Len(c))
  <2>1. /\ Settled(hist.sent \o c, hist.lost, n + Len(c))
        /\ Settled(hist.sent, hist.lost \cup ToSet(c), n + Len(c))
    BY <1>3, <1>13, SettleMore
  <2> QED
    BY <1>7, <2>1
<1>15. hist'.accepted - Len(str'.tx) + Flight(thr') = n + Len(c)
  BY <1>7, <1>12 DEF n
<1> QED
  BY <1>2, <1>7, <1>8, <1>9, <1>14, <1>15 DEF ByteInv

\* What is dropped is what was handed over.
LEMMA DropKeepsOrder ==
  ASSUME SendInv, ByteInv, OneEntryEach', NEW t \in {"host", "app"}, Drop(t)
  PROVE  ByteInv'
<1>1. /\ SendTypeOK /\ str \in StreamRecord /\ hist \in HistoryRecord /\ thr[t] \in ThreadRecord
      /\ thr[t].pc = "drop" /\ str.tx \in Seq(Byte) /\ hist.accepted \in Nat
  BY DEF SendInv, SendTypeOK, StreamRecord, HistoryRecord, Drop, At
<1>2. AloneOK(thr, str) /\ ChunksOK(thr, str.tx) /\ RunOK(str.tx, hist.accepted)
      /\ Settled(hist.sent, hist.lost, hist.accepted - Len(str.tx) + Flight(thr))
  BY DEF ByteInv
<1> DEFINE k == Len(thr[t].chunk)
           n == hist.accepted - Len(str.tx)
           r == [thr[t] EXCEPT !.pc = "send"]
           x == SubSeq(str.tx, k + 1, Len(str.tx))
<1>3. n \in Nat /\ k \in 0..Len(str.tx)
  BY <1>1, ChunkIsNext
<1>4. r \in ThreadRecord /\ r.pc = "send" /\ r.chunk = thr[t].chunk /\ r.before = thr[t].before
  BY <1>1 DEF ThreadRecord
<1>5. thr' = [thr EXCEPT ![t] = r]
  BY DEF Drop, Goto
<1>6. Len(thr[t].chunk) <= Chunk /\ thr[t].before <= Capacity
  BY <1>1, <1>2 DEF ChunksOK
<1>7. /\ str'.tx = x /\ str'.event = str.event /\ str'.callout = str.callout
      /\ UNCHANGED hist
  BY <1>1 DEF Drop, StreamRecord
<1>8. Flight(thr) = k
  BY <1>1, <1>2, FlightIs
<1> HIDE DEF n, k
<1>9. x \in Seq(Byte) /\ Len(x) = Len(str.tx) - k /\ \A i \in 1..Len(x) : x[i] = str.tx[k + i]
  <2>1. \A i \in (k + 1)..Len(str.tx) : str.tx[i] \in Byte
    BY <1>1, <1>3
  <2>2. k + 1 \in Nat /\ Len(str.tx) \in Nat
    BY <1>1, <1>3
  <2>3. /\ x \in Seq(Byte)
        /\ Len(x) = IF k + 1 <= Len(str.tx) THEN Len(str.tx) - (k + 1) + 1 ELSE 0
        /\ \A i \in 1..(Len(str.tx) - (k + 1) + 1) : x[i] = str.tx[(k + 1) + i - 1]
    BY <2>1, <2>2, SubSeqProperties
  <2> HIDE DEF x
  <2> QED
    BY <1>3, <2>2, <2>3
<1> HIDE DEF x, r
<1>10. Len(str.tx) \in Nat /\ hist.accepted - Len(x) = n + k
  BY <1>1, <1>3, <1>9 DEF n
<1>11. \A i \in 1..Len(x) : k + i \in 1..Len(str.tx)
  BY <1>3, <1>9, <1>10
<1>12. RunOK(x, hist.accepted)
  <2>1. \A i \in 1..Len(x) : x[i] = (n + k) + i
    <3>1. \A i \in 1..Len(str.tx) : str.tx[i] = n + i
      BY <1>2 DEF RunOK, n
    <3>2. ASSUME NEW i \in 1..Len(x) PROVE x[i] = (n + k) + i
      <4>1. x[i] = n + (k + i)
        BY <1>9, <1>11, <3>1
      <4> QED
        BY <1>3, <1>10, <4>1
    <3> QED
      BY <3>2
  <2>2. Len(x) <= Len(str.tx)
    BY <1>3, <1>9, <1>10
  <2> QED
    BY <1>1, <1>2, <1>9, <1>10, <2>1, <2>2, StreamAssumption DEF RunOK
<1>13. AloneOK(thr', str')
  BY <1>1, <1>2, <1>4, <1>5, <1>7, AloneGoes
<1>14. thr'[t] = r /\ \A u \in {"host", "app"} : u # t => thr'[u] = thr[u]
  BY <1>1, <1>4, <1>5, GoesThere
<1>15. Flight(thr') = 0
  BY <1>4, <1>13, <1>14, FlightIs
<1>16. ChunksOK(thr', x)
  <2>1. ChunksOK(thr', str.tx)
    BY <1>1, <1>2, <1>4, <1>5, <1>6, ChunksGo
  <2>2. \A u \in {"host", "app"} : thr'[u].pc \notin {"notify", "value", "drop"}
    BY <1>1, <1>2, <1>4, <1>14 DEF AloneOK
  <2> QED
    BY <2>1, <2>2 DEF ChunksOK
<1>17. Settled(hist.sent, hist.lost, n + k)
  BY <1>2, <1>8 DEF n
<1>18. hist.accepted - Len(x) + 0 = n + k
  BY <1>3, <1>10
<1> QED
  BY <1>7, <1>12, <1>13, <1>15, <1>16, <1>17, <1>18 DEF ByteInv

LEMMA SenderKeepsOrder ==
  ASSUME SubInv, SendInv, ByteInv, OneEntryEach', NEW t \in {"host", "app"}, SendStep(t)
  PROVE  ByteInv'
<1>1. /\ SendTypeOK /\ str \in StreamRecord /\ hist \in HistoryRecord /\ thr[t] \in ThreadRecord
      /\ str.tx \in Seq(Byte)
  BY DEF SendInv, SendTypeOK, StreamRecord
<1>2. ChunksOK(thr, str.tx)
  BY DEF ByteInv
<1>3. CASE NotReady(t)
  BY <1>3, ReturnKeepsOrder DEF NotReady
<1>4. CASE AllSent(t)
  BY <1>4, ReturnKeepsOrder DEF AllSent
<1>5. CASE Failed(t)
  BY <1>5, ReturnKeepsOrder DEF Failed
<1>6. CASE Peek(t)
  <2>1. PICK r \in ThreadRecord :
          /\ r.pc = "notify" /\ thr' = [thr EXCEPT ![t] = r]
          /\ r.before = thr[t].before
          /\ Len(r.chunk) <= Chunk /\ Len(r.chunk) <= Len(str.tx)
          /\ \A i \in 1..Len(r.chunk) : r.chunk[i] = str.tx[i]
    BY <1>1, <1>6, PeekIs
  <2>2. thr[t].pc = "send" /\ UNCHANGED <<str, hist>>
    BY <1>6 DEF Peek, At
  <2>3. r.before <= Capacity
    BY <1>2, <2>1 DEF ChunksOK
  <2> QED
    BY <1>1, <2>1, <2>2, <2>3, MoveKeepsOrder
<1>7. ASSUME thr[t].pc \in {"notify", "value"}, NEW r \in ThreadRecord, thr' = [thr EXCEPT ![t] = r],
             r.pc \in {"value", "failed"}, r.chunk = thr[t].chunk, r.before = thr[t].before,
             str'.tx = str.tx, str'.event = str.event, str'.callout = str.callout,
             hist'.accepted = hist.accepted, hist'.sent = hist.sent, hist'.lost = hist.lost
      PROVE  ByteInv'
  <2>1. /\ Len(r.chunk) <= Chunk /\ r.before <= Capacity
        /\ Len(r.chunk) <= Len(str.tx) /\ \A i \in 1..Len(r.chunk) : r.chunk[i] = str.tx[i]
    BY <1>2, <1>7 DEF ChunksOK
  <2> QED
    BY <1>1, <1>7, <2>1, MoveKeepsOrder
<1>8. CASE SendValue(t)
  <2>1. PICK r \in ThreadRecord :
          /\ r.pc = "value" /\ thr' = [thr EXCEPT ![t] = r]
          /\ r.before = thr[t].before /\ r.chunk = thr[t].chunk
    BY <1>1, <1>8, ValueIs
  <2> QED
    BY <1>7, <1>8, <2>1 DEF SendValue, At
<1>9. ASSUME Leave(t, "failed"), thr[t].pc \in {"notify", "value"},
             str'.tx = str.tx, str'.event = str.event, str'.callout = str.callout,
             hist'.accepted = hist.accepted, hist'.sent = hist.sent, hist'.lost = hist.lost
      PROVE  ByteInv'
  <2>1. PICK r \in ThreadRecord :
          /\ r.pc = "failed" /\ thr' = [thr EXCEPT ![t] = r]
          /\ r.before = thr[t].before /\ r.chunk = thr[t].chunk
    <3>1. "failed" \in Place /\ thr \in [{"host", "app"} -> ThreadRecord]
      BY <1>1 DEF Place, SendTypeOK
    <3>2. thr' = [thr EXCEPT ![t] = LeftRecord(thr[t], "failed")]
      BY <1>9, <3>1, LeaveIs
    <3> DEFINE r == LeftRecord(thr[t], "failed")
    <3>3. r \in ThreadRecord /\ r.pc = "failed" /\ r.before = thr[t].before /\ r.chunk = thr[t].chunk
      BY <1>1, <3>1, LeaveSet
    <3>4. thr' = [thr EXCEPT ![t] = r]
      BY <3>2
    <3> HIDE DEF r
    <3> QED
      BY <3>3, <3>4, Zenon
  <2> QED
    BY <1>7, <1>9, <2>1
<1>10. ASSUME NEW b, hist' = [hist EXCEPT !.starved = b]
       PROVE  hist'.accepted = hist.accepted /\ hist'.sent = hist.sent /\ hist'.lost = hist.lost
  BY <1>1, <1>10 DEF HistoryRecord
<1>11. ASSUME NEW p, NEW b, str' = OnStatus(p, b)
       PROVE  str'.tx = str.tx /\ str'.event = str.event /\ str'.callout = str.callout
  BY <1>1, <1>11 DEF OnStatus, StreamRecord
<1>12. CASE NobodySubscribed(t)
  BY <1>12, NotifyKeepsOrder DEF NobodySubscribed, At
<1>13. CASE PeerNotSubscribed(t)
  BY <1>9, <1>13 DEF PeerNotSubscribed, At
<1>14. ASSUME NEW p \in Peers, NotifyPeer(t, p) PROVE ByteInv'
  <2>1. thr[t].pc = "value" /\ str' = OnStatus(p, FALSE)
    BY <1>14 DEF NotifyPeer, At
  <2>2. CASE hist' = Sent(t) /\ Leave(t, "drop")
    BY <1>11, <2>1, <2>2, NotifyKeepsOrder
  <2>3. CASE thr' = [thr EXCEPT ![t].to = thr[t].to \ {p}] /\ UNCHANGED hist
    <3>1. PICK r \in ThreadRecord :
            /\ r.pc = thr[t].pc /\ thr' = [thr EXCEPT ![t] = r]
            /\ r.before = thr[t].before /\ r.chunk = thr[t].chunk
      BY <1>1, <2>3, LessIs, Zenon
    <3> QED
      BY <1>7, <1>11, <2>1, <2>3, <3>1
  <2> QED
    BY <1>14, <2>2, <2>3 DEF NotifyPeer
<1>15. ASSUME NEW p \in Peers, NEW nomem \in BOOLEAN, NotifyFails(t, p, nomem) PROVE ByteInv'
  BY <1>9, <1>10, <1>11, <1>15 DEF NotifyFails, At
<1>16. CASE NoBuffer(t)
  BY <1>9, <1>10, <1>16 DEF NoBuffer, At
<1>17. CASE WriteValue(t)
  BY <1>17, NotifyKeepsOrder DEF WriteValue, At
<1>18. ASSUME NEW nomem \in BOOLEAN, WriteFails(t, nomem) PROVE ByteInv'
  BY <1>9, <1>10, <1>18 DEF WriteFails, At
<1> QED
  BY <1>3, <1>4, <1>5, <1>6, <1>8, <1>12, <1>13, <1>14, <1>15, <1>16, <1>17, <1>18,
     DropKeepsOrder DEF SendStep

\* What write() accepts goes behind what is there.
LEMMA WriteKeepsOrder ==
  ASSUME SendInv, ByteInv, OneEntryEach', NEW n \in 0..Capacity, Write(n)
  PROVE  ByteInv'
<1>1. /\ SendTypeOK /\ str \in StreamRecord /\ hist \in HistoryRecord
      /\ thr["app"] \in ThreadRecord /\ thr["app"].pc = "idle"
      /\ str.tx \in Seq(Byte) /\ hist.accepted \in Nat
  BY DEF SendInv, SendTypeOK, StreamRecord, HistoryRecord, Write, At
<1>2. AloneOK(thr, str) /\ ChunksOK(thr, str.tx) /\ RunOK(str.tx, hist.accepted)
      /\ Settled(hist.sent, hist.lost, hist.accepted - Len(str.tx) + Flight(thr))
  BY DEF ByteInv
<1> DEFINE w == [i \in 1..n |-> hist.accepted + i]
           x == str.tx \o w
           r == [thr["app"] EXCEPT !.pc = "wrote"]
<1>3. /\ n \in Nat /\ hist.accepted + n <= MaxBytes /\ Len(str.tx) + n <= Capacity
  BY <1>1, StreamAssumption DEF Write, Fits
<1>4. w \in Seq(Byte) /\ Len(w) = n
  BY <1>1, <1>3, StreamAssumption DEF Byte
<1>5. /\ str'.tx = x /\ str'.event = str.event /\ str'.callout = str.callout
      /\ hist'.accepted = hist.accepted + n /\ hist'.sent = hist.sent /\ hist'.lost = hist.lost
  BY <1>1 DEF Write, StreamRecord, HistoryRecord
<1>6. /\ r \in ThreadRecord /\ r.pc = "wrote" /\ r.chunk = thr["app"].chunk
      /\ r.before = thr["app"].before
  BY <1>1 DEF ThreadRecord
<1>7. thr' = [thr EXCEPT !["app"] = r]
  BY DEF Write, Goto
<1>8. \A i \in 1..n : w[i] = hist.accepted + i
  OBVIOUS
<1> HIDE DEF w, r
<1>9. /\ Len(x) = Len(str.tx) + n /\ Len(str.tx) \in Nat
      /\ \A i \in 1..Len(str.tx) : x[i] = str.tx[i]
      /\ \A i \in 1..Len(x) : i > Len(str.tx) => x[i] = w[i - Len(str.tx)]
  BY <1>1, <1>3, <1>4
<1> HIDE DEF x
<1>10. RunOK(x, hist.accepted + n)
  <2>1. ASSUME NEW i \in 1..Len(x) PROVE x[i] = (hist.accepted + n) - Len(x) + i
    <3>1. CASE i <= Len(str.tx)
      <4>1. i \in 1..Len(str.tx)
        BY <1>9, <3>1
      <4>2. str.tx[i] = hist.accepted - Len(str.tx) + i
        BY <1>2, <4>1 DEF RunOK
      <4> QED
        BY <1>1, <1>3, <1>9, <4>1, <4>2
    <3>2. CASE i > Len(str.tx)
      <4>1. i - Len(str.tx) \in 1..n /\ x[i] = w[i - Len(str.tx)]
        BY <1>9, <1>3, <3>2
      <4>2. x[i] = hist.accepted + (i - Len(str.tx))
        BY <1>8, <4>1
      <4> QED
        BY <1>1, <1>3, <1>9, <4>2
    <3> QED
      BY <1>9, <3>1, <3>2
  <2>2. Len(str.tx) <= hist.accepted
    BY <1>2 DEF RunOK
  <2> QED
    BY <1>1, <1>3, <1>9, <2>1, <2>2, StreamAssumption DEF RunOK
<1>11. thr'["app"] = r /\ thr'["host"] = thr["host"]
  BY <1>1, <1>6, <1>7, GoesThere
<1>12. AloneOK(thr', str')
  BY <1>2, <1>6, <1>11 DEF AloneOK
<1>13. Flight(thr') = Flight(thr)
  BY <1>1, <1>6, <1>11 DEF Flight
<1>14. ChunksOK(thr', x)
  <2>1. ASSUME NEW u \in {"host", "app"}, thr[u].pc \in {"notify", "value", "drop"}
        PROVE  Len(thr[u].chunk) <= Len(x) /\ \A i \in 1..Len(thr[u].chunk) : thr[u].chunk[i] = x[i]
    <3>1. thr[u].chunk \in Seq(Byte)
      BY <1>1 DEF SendTypeOK, ThreadRecord
    <3>2. Len(thr[u].chunk) <= Len(str.tx)
          /\ \A i \in 1..Len(thr[u].chunk) : thr[u].chunk[i] = str.tx[i]
      BY <1>2, <2>1 DEF ChunksOK
    <3> QED
      BY <1>3, <1>9, <3>1, <3>2
  <2> QED
    BY <1>2, <1>6, <1>11, <2>1 DEF ChunksOK
<1>15. (hist.accepted + n) - Len(x) + Flight(thr') = hist.accepted - Len(str.tx) + Flight(thr)
  <2>1. (hist.accepted + n) - Len(x) = hist.accepted - Len(str.tx)
    BY <1>1, <1>3, <1>9
  <2> QED
    BY <1>13, <2>1
<1> QED
  BY <1>2, <1>5, <1>10, <1>12, <1>14, <1>15 DEF ByteInv

\* A step that leaves the bytes and whoever is at them alone.
LEMMA BytesUntouched ==
  ASSUME ByteInv, OneEntryEach', AloneOK(thr', str'), str'.tx = str.tx,
         \A t \in {"host", "app"} :
           thr'[t].pc = thr[t].pc /\ thr'[t].chunk = thr[t].chunk /\ thr'[t].before = thr[t].before,
         hist'.accepted = hist.accepted, hist'.sent = hist.sent, hist'.lost = hist.lost
  PROVE  ByteInv'
<1>1. Flight(thr') = Flight(thr)
  BY DEF Flight
<1>2. ChunksOK(thr', str.tx)
  BY DEF ByteInv, ChunksOK
<1> QED
  BY <1>1, <1>2, BytesStay

LEMMA ByteStep ==
  ASSUME ~Overlap, SubInv, SendInv, ByteInv, [Next]_vars
  PROVE  ByteInv'
<1>1. /\ SendTypeOK /\ str \in StreamRecord /\ hist \in HistoryRecord
      /\ thr["app"] \in ThreadRecord /\ thr["host"] \in ThreadRecord
      /\ str.tx \in Seq(Byte) /\ hist.accepted \in Nat /\ hist.sent \in Seq(Byte)
  BY DEF SendInv, SendTypeOK, StreamRecord, HistoryRecord
<1>2. AloneOK(thr, str) /\ ChunksOK(thr, str.tx) /\ RunOK(str.tx, hist.accepted)
      /\ Settled(hist.sent, hist.lost, hist.accepted - Len(str.tx) + Flight(thr))
  BY DEF ByteInv
<1>3. OneEntryEach'
  BY EntriesStayApart DEF SubInv, ByteInv
<1>4. CASE UNCHANGED vars
  BY <1>2, <1>3, <1>4, BytesUntouched DEF vars
<1>5. CASE BeginServer \/ BeginClient \/ BuffersChange
  <2>1. str' = str \/ str' = [str EXCEPT !.begun = TRUE]
    BY <1>5 DEF BeginServer, BeginClient, BuffersChange, Begun
  <2>2. str'.tx = str.tx /\ str'.event = str.event /\ str'.callout = str.callout
    BY <1>1, <2>1, BegunSet
  <2>3. UNCHANGED <<thr, hist>>
    BY <1>5 DEF BeginServer, BeginClient, BuffersChange
  <2>4. AloneOK(thr', str')
    BY <1>2, <2>2, <2>3 DEF AloneOK
  <2> QED
    BY <1>3, <2>2, <2>3, <2>4, BytesUntouched
<1>6. CASE PeerStep
  <2>1. /\ str'.tx = str.tx /\ str'.event = str.event /\ str'.callout = str.callout
        /\ \A t \in {"host", "app"} :
             thr'[t].pc = thr[t].pc /\ thr'[t].chunk = thr[t].chunk /\ thr'[t].before = thr[t].before
        /\ UNCHANGED hist
    BY <1>6, PeersLeaveBytes
  <2>2. AloneOK(thr', str')
    BY <1>2, <2>1 DEF AloneOK
  <2> QED
    BY <1>3, <2>1, <2>2, BytesUntouched
<1>7. CASE EndServer \/ EndClient
  <2>1. /\ str'.tx = << >> /\ UNCHANGED thr
        /\ thr["host"].pc = "idle" /\ thr["app"].pc = "idle"
    BY <1>1, <1>7 DEF EndServer, EndClient, Ended, Quiet, At, StreamRecord
  <2>2. /\ hist'.accepted = hist.accepted /\ hist'.sent = hist.sent
        /\ hist'.lost = hist.lost \cup ToSet(str.tx)
    BY <1>1, <1>7 DEF EndServer, EndClient, EndLoses, HistoryRecord
  <2>3. Flight(thr) = 0 /\ Flight(thr') = 0
    BY <2>1 DEF Flight
  <2>4. ClearedIsSettled(hist.lost \cup ToSet(str.tx))
    BY <1>1, <1>2, <2>3, ClearedIs
  <2>5. RunOK(<< >>, hist.accepted)
    BY <1>1, <1>2, StreamAssumption DEF RunOK
  <2>6. ChunksOK(thr', << >>) /\ AloneOK(thr', str')
    BY <1>2, <2>1 DEF ChunksOK, AloneOK
  <2> QED
    BY <1>1, <1>3, <2>1, <2>2, <2>3, <2>4, <2>5, <2>6 DEF ByteInv, ClearedIsSettled
<1>8. ASSUME NEW a \in {"idle", "flush"}, thr["app"].pc \in {"idle", "wrote"},
             thr' = [thr EXCEPT !["app"].pc = a],
             a = "flush" => thr["host"].pc = "idle" /\ ~str'.event /\ ~str'.callout,
             str'.tx = str.tx, hist'.accepted = hist.accepted, hist'.sent = hist.sent,
             hist'.lost = hist.lost
      PROVE  ByteInv'
  <2> DEFINE r == [thr["app"] EXCEPT !.pc = a]
  <2>1. /\ r \in ThreadRecord /\ r.pc = a /\ r.chunk = thr["app"].chunk
        /\ r.before = thr["app"].before
    BY <1>1 DEF ThreadRecord
  <2>2. thr' = [thr EXCEPT !["app"] = r]
    BY <1>8
  <2> HIDE DEF r
  <2>3. thr'["app"] = r /\ thr'["host"] = thr["host"]
    BY <1>1, <2>1, <2>2, GoesThere
  <2>4. AloneOK(thr', str')
    BY <1>2, <1>8, <2>1, <2>3 DEF AloneOK
  <2>5. Flight(thr') = Flight(thr)
    BY <1>8, <2>1, <2>3 DEF Flight
  <2>6. ChunksOK(thr', str.tx)
    BY <1>2, <2>1, <2>3 DEF ChunksOK
  <2> QED
    BY <1>3, <1>8, <2>4, <2>5, <2>6, BytesStay
<1>9. ASSUME NEW s \in StreamRecord, s.tx = str.tx
      PROVE  Drain(s).tx = str.tx
  BY <1>9 DEF Drain, StreamRecord
<1>10. Drained.accepted = hist.accepted /\ Drained.sent = hist.sent /\ Drained.lost = hist.lost
  <2> DEFINE g == IF str.tx = << >> THEN hist.gaveUp ELSE "no"
  <2>1. Drained = [hist EXCEPT !.gaveUp = g]
    BY <1>1 DEF Drained
  <2> HIDE DEF g
  <2> QED
    BY <1>1, <2>1 DEF HistoryRecord
<1>11. CASE WriteDrains
  <2>1. thr["app"].pc = "wrote" /\ thr' = [thr EXCEPT !["app"].pc = "idle"]
        /\ str' = Drain(str) /\ hist' = Drained
    BY <1>11 DEF WriteDrains, At, Goto
  <2> QED
    BY <1>1, <1>8, <1>9, <1>10, <2>1
<1>12. CASE FlushBegin
  <2>1. /\ thr["app"].pc = "idle" /\ thr' = [thr EXCEPT !["app"].pc = "flush"]
        /\ thr["host"].pc = "idle" /\ ~str.event /\ ~str.callout
        /\ UNCHANGED <<str, hist>>
    BY <1>12 DEF FlushBegin, At, Goto, HostIsFree
  <2> QED
    BY <1>8, <2>1
<1>13. CASE FlushLoop
  <2> DEFINE a == IF str.tx = << >> THEN "idle" ELSE "send"
             r == [[thr["app"] EXCEPT !.pc = a] EXCEPT !.before = Len(str.tx)]
  <2>1. thr' = [thr EXCEPT !["app"] = r]
    BY <1>1, <1>13 DEF FlushLoop, SendTypeOK
  <2>2. a \in {"idle", "send"} /\ Len(str.tx) \in Nat /\ Len(str.tx) <= Capacity
    BY <1>1, <1>2 DEF RunOK
  <2> HIDE DEF a
  <2>3. /\ r \in ThreadRecord /\ r.pc = a /\ r.chunk = thr["app"].chunk
        /\ r.before = Len(str.tx)
    BY <1>1, <2>2 DEF ThreadRecord
  <2> HIDE DEF r
  <2>4. Len(r.chunk) <= Chunk /\ r.before <= Capacity
    BY <1>2, <2>2, <2>3 DEF ChunksOK
  <2>5. thr["app"].pc = "flush" /\ UNCHANGED <<str, hist>>
    BY <1>13 DEF FlushLoop, At
  <2> QED
    BY <1>1, <1>3, <2>1, <2>2, <2>3, <2>4, <2>5, MoveKeepsOrder
<1>14. CASE DrainEvent
  <2> DEFINE r == [thr["host"] EXCEPT !.pc = "send"]
  <2>1. /\ r \in ThreadRecord /\ r.pc = "send" /\ r.chunk = thr["host"].chunk
        /\ r.before = thr["host"].before
    BY <1>1 DEF ThreadRecord
  <2>2. thr' = [thr EXCEPT !["host"] = r] /\ thr["host"].pc = "idle" /\ str.event
        /\ UNCHANGED hist
    BY <1>14 DEF DrainEvent, At, Goto, HostIsFree
  <2>3. str'.tx = str.tx
    BY <1>1, <1>14 DEF DrainEvent, StreamRecord
  <2> HIDE DEF r
  <2>4. thr'["host"] = r /\ thr'["app"] = thr["app"]
    BY <1>1, <2>1, <2>2, GoesThere
  <2>5. thr["app"].pc \in {"idle", "wrote"}
    BY <1>2, <2>2 DEF AloneOK
  <2>6. AloneOK(thr', str') /\ Flight(thr') = Flight(thr) /\ ChunksOK(thr', str.tx)
    BY <1>2, <2>1, <2>2, <2>4, <2>5 DEF AloneOK, Flight, ChunksOK
  <2> QED
    BY <1>3, <2>2, <2>3, <2>6, BytesStay
<1>15. CASE DrainCallout
  <2>1. [str EXCEPT !.callout = FALSE] \in StreamRecord /\ [str EXCEPT !.callout = FALSE].tx = str.tx
    BY <1>1, CalloutSet
  <2>2. str' = Drain([str EXCEPT !.callout = FALSE]) /\ hist' = Drained /\ UNCHANGED thr
        /\ thr["host"].pc = "idle" /\ str.callout
    BY <1>15 DEF DrainCallout, HostIsFree, At
  <2>3. str'.tx = str.tx
    BY <1>9, <2>1, <2>2
  <2>4. AloneOK(thr', str')
    BY <1>2, <2>2 DEF AloneOK
  <2> QED
    BY <1>3, <1>10, <2>2, <2>3, <2>4, BytesUntouched
<1> QED
  BY <1>3, <1>4, <1>5, <1>6, <1>7, <1>11, <1>12, <1>13, <1>14, <1>15,
     SenderKeepsOrder, WriteKeepsOrder DEF Next, AppStep, HostStep

LEMMA ByteInit ==
  ASSUME Init
  PROVE  ByteInv
<1>1. str.tx = << >> /\ hist.accepted = 0 /\ hist.sent = << >> /\ hist.lost = {}
      /\ str.event = FALSE /\ str.callout = FALSE
  BY DEF Init
<1>2. \A t \in {"host", "app"} : thr[t].pc = "idle" /\ thr[t].chunk = << >> /\ thr[t].before = 0
  BY DEF Init, Idle
<1>3. OneEntryEach
  BY DEF Init, NoSub, OneEntryEach
<1>4. ToSet(<< >>) = {}
  BY DEF ToSet
<1>5. Settled(<< >>, {}, 0)
  BY <1>4 DEF Settled
<1>6. Flight(thr) = 0
  BY <1>2 DEF Flight
<1>7. RunOK(str.tx, 0) /\ ChunksOK(thr, str.tx) /\ AloneOK(thr, str)
  BY <1>1, <1>2, StreamAssumption DEF RunOK, ChunksOK, AloneOK
<1> QED
  BY <1>1, <1>3, <1>5, <1>6, <1>7 DEF ByteInv

\* What is in flight is at the head of the buffer.
LEMMA FlightIsHead ==
  ASSUME SendInv, ByteInv
  PROVE  LET n == hist.accepted - Len(str.tx)
         IN  /\ InFlight = (n + 1)..(n + Flight(thr))
             /\ n \in Nat /\ Flight(thr) \in 0..Len(str.tx)
<1> DEFINE n == hist.accepted - Len(str.tx)
<1>1. str.tx \in Seq(Byte) /\ hist.accepted \in Nat /\ RunOK(str.tx, hist.accepted)
      /\ AloneOK(thr, str)
  BY DEF SendInv, SendTypeOK, StreamRecord, HistoryRecord, ByteInv
<1>2. n \in Nat /\ Len(str.tx) \in Nat
  BY <1>1 DEF RunOK
<1>3. ASSUME NEW t \in {"host", "app"}, thr[t].pc = "drop"
      PROVE  /\ ToSet(thr[t].chunk) = (n + 1)..(n + Len(thr[t].chunk))
             /\ Flight(thr) = Len(thr[t].chunk) /\ Flight(thr) \in 0..Len(str.tx)
             /\ InFlight = ToSet(thr[t].chunk)
  <2> DEFINE c == thr[t].chunk
  <2>1. c \in Seq(Nat) /\ Len(c) \in 0..Len(str.tx) /\ \A i \in 1..Len(c) : c[i] = n + i
    BY <1>3, ChunkIsNext
  <2>2. Flight(thr) = Len(c)
    BY <1>1, <1>3, FlightIs
  <2>3. {u \in {"host", "app"} : thr[u].pc = "drop"} = {t}
    BY <1>1, <1>3 DEF AloneOK
  <2>4. InFlight = ToSet(c)
    <3>1. {ToSet(thr[u].chunk) : u \in {u \in {"host", "app"} : At(u, "drop")}} = {ToSet(c)}
      BY <2>3 DEF At
    <3> QED
      BY <3>1 DEF InFlight
  <2> HIDE DEF c, n
  <2>5. ToSet(c) = (n + 1)..(n + Len(c))
    <3>1. \A b : b \in ToSet(c) <=> \E i \in 1..Len(c) : c[i] = b
      BY <2>1, Members
    <3>2. ASSUME NEW b \in ToSet(c) PROVE b \in (n + 1)..(n + Len(c))
      <4>1. PICK i \in 1..Len(c) : c[i] = b
        BY <3>1
      <4> QED
        BY <1>2, <2>1, <4>1
    <3>3. ASSUME NEW b \in (n + 1)..(n + Len(c)) PROVE b \in ToSet(c)
      <4>1. b - n \in 1..Len(c) /\ c[b - n] = n + (b - n)
        BY <1>2, <2>1
      <4>2. n + (b - n) = b
        BY <1>2
      <4> QED
        BY <3>1, <4>1, <4>2
    <3> QED
      BY <3>2, <3>3
  <2> QED
    BY <2>1, <2>2, <2>4, <2>5 DEF c
<1>4. CASE \A t \in {"host", "app"} : thr[t].pc # "drop"
  <2>1. InFlight = {}
    BY <1>4 DEF InFlight, At
  <2>2. Flight(thr) = 0
    BY <1>4 DEF Flight
  <2> HIDE DEF n
  <2>3. (n + 1)..(n + Flight(thr)) = {}
    BY <1>2, <2>2
  <2> QED
    BY <1>2, <2>1, <2>2, <2>3 DEF n
<1> QED
  BY <1>2, <1>3, <1>4

LEMMA ShortIsBounded ==
  ASSUME NEW s \in Seq(Byte), NEW n \in Nat, Len(s) <= n
  PROVE  s \in BoundedSeq(Byte, n)
<1>1. Len(s) \in 0..n /\ s \in [1..Len(s) -> Byte]
  BY LenProperties
<1> QED
  BY <1>1 DEF BoundedSeq, SeqOf

\* What the types are once the lengths are bounded.
LEMMA BoundedTypes ==
  ASSUME SubInv, SendInv, ByteInv
  PROVE  TypeOK
<1>1. /\ str \in StreamRecord /\ thr \in [{"host", "app"} -> ThreadRecord] /\ hist \in HistoryRecord
      /\ str.tx \in Seq(Byte) /\ RunOK(str.tx, hist.accepted) /\ ChunksOK(thr, str.tx)
      /\ OneEntryEach
  BY DEF SendInv, SendTypeOK, ByteInv, StreamRecord
<1>2. str.tx \in BoundedSeq(Byte, Capacity)
  BY <1>1, ShortIsBounded, StreamAssumption DEF RunOK
<1>3. str \in Stream
  BY <1>1, <1>2 DEF StreamRecord, Stream
<1>4. ASSUME NEW t \in {"host", "app"} PROVE thr[t] \in Thread
  <2>1. thr[t] \in ThreadRecord /\ Len(thr[t].chunk) <= Chunk /\ thr[t].before <= Capacity
    BY <1>1 DEF ChunksOK
  <2>2. thr[t].chunk \in BoundedSeq(Byte, Chunk) /\ thr[t].before \in 0..Capacity
    BY <2>1, ShortIsBounded, StreamAssumption DEF ThreadRecord
  <2> QED
    BY <2>1, <2>2 DEF ThreadRecord, Thread
<1>5. hist \in History
  <2>1. hist.accepted \in 0..MaxBytes
    BY <1>1, StreamAssumption DEF RunOK, HistoryRecord
  <2> QED
    BY <1>1, <2>1 DEF HistoryRecord, History
<1>6. thr \in [{"host", "app"} -> Thread]
  BY <1>1, <1>4
<1>7. opt \in Streams /\ sub \in [1..Slots -> SubPeerEntry] /\ stk \in Stack
  BY DEF SubInv, SubTypeOK, Stack
<1> QED
  BY <1>1, <1>3, <1>5, <1>6, <1>7 DEF TypeOK, OneEntryEach

LEMMA BytesAreInOrder ==
  ASSUME SubInv, SendInv, ByteInv
  PROVE  BytesInOrder
<1> DEFINE n == hist.accepted - Len(str.tx)
           f == Flight(thr)
           rest == ToSet(str.tx) \ InFlight
<1>1. TypeOK
  BY BoundedTypes
<1>2. /\ str.tx \in Seq(Byte) /\ hist.accepted \in Nat /\ hist.sent \in Seq(Byte)
      /\ RunOK(str.tx, hist.accepted) /\ Settled(hist.sent, hist.lost, n + f)
  BY DEF SendInv, SendTypeOK, StreamRecord, HistoryRecord, ByteInv
<1>3. InFlight = (n + 1)..(n + f) /\ n \in Nat /\ f \in 0..Len(str.tx)
  BY FlightIsHead
<1>4. /\ ToSet(str.tx) = (n + 1)..hist.accepted
      /\ \A i, j \in DOMAIN str.tx : i < j => str.tx[i] < str.tx[j]
  BY <1>2, RunIs
<1>5. hist.accepted = n + Len(str.tx) /\ Len(str.tx) \in Nat
  BY <1>2
<1> HIDE DEF n, f
<1>6. rest = (n + f + 1)..hist.accepted /\ n + f \in 0..hist.accepted
  BY <1>3, <1>4, <1>5
<1> HIDE DEF rest
<1>7. \A i, j \in DOMAIN hist.sent : i < j => hist.sent[i] < hist.sent[j]
  BY <1>2 DEF Settled
<1>8. ToSet(hist.sent) \cup hist.lost = 1..(n + f) /\ ToSet(hist.sent) \cap hist.lost = {}
  BY <1>2 DEF Settled
<1>9. \A b \in ToSet(hist.sent), c \in rest : b < c
  <2>1. ASSUME NEW b \in ToSet(hist.sent), NEW c \in rest PROVE b < c
    <3>1. b \in 1..(n + f) /\ c \in (n + f + 1)..hist.accepted
      BY <1>6, <1>8
    <3> QED
      BY <1>2, <1>6, <3>1
  <2> QED
    BY <2>1
<1>10. ToSet(hist.sent) \cup rest \cup hist.lost = 1..hist.accepted
  <2>1. ToSet(hist.sent) \cup rest \cup hist.lost = (1..(n + f)) \cup ((n + f + 1)..hist.accepted)
    BY <1>6, <1>8
  <2> QED
    BY <1>2, <1>6, <2>1
<1>11. (ToSet(hist.sent) \cup rest) \cap hist.lost = {}
  <2>1. rest \cap (1..(n + f)) = {}
    BY <1>2, <1>6
  <2> QED
    BY <1>8, <2>1
<1> QED
  BY <1>1, <1>4, <1>7, <1>9, <1>10, <1>11 DEF BytesInOrder, rest

\* As long as flush() does not run while the drain event does, which its caller has
\* to see to, every byte that write() accepted is sent once and in order, waits in
\* the buffer, or is lost for a known reason, through partial writes, retries and
\* end() (write(), send(), flush(), NimBLEStream.cpp).
THEOREM BytesStayInOrder == ~Overlap => (Spec => []BytesInOrder)
<1> DEFINE All == SubInv /\ SendInv /\ ByteInv
<1>1. Init => All
  BY SubInit, SendInit, ByteInit
<1>2. ~Overlap /\ All /\ [Next]_vars => All'
  BY SubStep, SendInvStep, ByteStep
<1>3. All => BytesInOrder
  BY BytesAreInOrder
<1> HIDE DEF All
<1>4. SUFFICES ASSUME ~Overlap PROVE Spec => []BytesInOrder
  OBVIOUS
<1>5. All /\ [Next]_vars => All'
  BY <1>2, <1>4
<1> QED
  BY <1>1, <1>3, <1>5, PTL DEF Spec
=============================================================================
