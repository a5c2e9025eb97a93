-------------------------- MODULE NimBLEServerProofs --------------------------
(***************************************************************************)
(* The proofs about the GATT server, for every tree of attributes, every   *)
(* number of slots and any peers: each change of the table is indicated,   *)
(* the server knows its peers, what it serves is what the application      *)
(* wants, and a handle of the table leads to the object of its entry.      *)
(*                                                                         *)
(* First the flags and the peers, for which the contents of containers and *)
(* table are left open (ServerInv); then the tree of the attributes and    *)
(* the order in which the loops reach them; then the invariant of          *)
(* containers, handles and table (TablesInv) through each call, through    *)
(* each step of start(), and what it says about the lookups.               *)
(***************************************************************************)
EXTENDS NimBLEServer, FiniteSetTheorems, ListLemmas

\* The types that do not depend on the containers' and the table's contents.
ShapesOK ==
  /\ srv \in ServerState
  /\ stk = [links |-> stk.links, adv |-> stk.adv, defs |-> stk.defs, table |-> stk.table,
          hidden |-> stk.hidden]
  /\ stk.links \in SUBSET Peers
  /\ hist = [told |-> hist.told, missed |-> hist.missed]
  /\ run = [pc |-> run.pc, by |-> run.by, adv |-> run.adv, i |-> run.i, svc |-> run.svc,
            chr |-> run.chr]
  /\ hst \in HostTask

\* Nobody serves while start() is under way; a server that has been stopped for a
\* change, or has hidden a service, has the change pending.
Telling ==
  /\ run.pc # "idle" => ~srv.started
  /\ srv.started => hist.told = stk.table
  /\ run.pc = "callback" => stk.hidden = {}
  /\ srv.started /\ stk.hidden # {} => srv.changed
  /\ ~srv.started /\ hist.told # <<Server>> => srv.changed

\* The peers that m_connectedPeers has, and the one that the host task is about to
\* add to it or to take from it.
Held == {srv.peers[i] : i \in 1..Slots} \ {NoPeer}
Connecting == IF hst.ev = "connect" THEN {hst.peer} ELSE {}
Disconnecting == IF hst.ev = "disconnect" THEN {hst.peer} ELSE {}

SlotsOK ==
  /\ IsFiniteSet(stk.links) /\ Cardinality(stk.links) <= Slots
  /\ hst.ev \in {"connect", "disconnect"} => hst.peer \in Peers
  /\ \A i, j \in 1..Slots : srv.peers[i] = srv.peers[j] /\ srv.peers[i] # NoPeer => i = j
  /\ Connecting \subseteq stk.links /\ Disconnecting \cap stk.links = {}
  /\ Held = (stk.links \ Connecting) \cup Disconnecting

\* A start() in the disconnect handler occupies the host task.
HostStarts == run.pc # "idle" /\ run.by = "host" => hst.ev = "starting"

ServerInv == ShapesOK /\ Telling /\ SlotsOK /\ HostStarts

-----------------------------------------------------------------------------
\* The steps that leave the peers alone.
LEMMA SlotsStay ==
  ASSUME ServerInv, UNCHANGED <<stk.links, srv.peers>>,
         hst.ev \notin {"connect", "disconnect"} \/ hst' = hst,
         hst'.ev \notin {"connect", "disconnect"} \/ hst' = hst
  PROVE  SlotsOK'
<1>1. SlotsOK
  BY DEF ServerInv
<1>2. Connecting' = Connecting /\ Disconnecting' = Disconnecting
  BY DEF Connecting, Disconnecting
<1>3. Held' = Held
  BY DEF Held
<1>4. (hst.ev \in {"connect", "disconnect"} => hst.peer \in Peers)'
  BY <1>1 DEF SlotsOK
<1> QED
  BY <1>1, <1>2, <1>3, <1>4 DEF SlotsOK

\* The calls that change the services: the table that is served stays.
LEMMA ChangeKeeps == ServerInv /\ Change => ServerInv'
<1> SUFFICES ASSUME ServerInv, Change PROVE ServerInv'
  OBVIOUS
<1>1. UNCHANGED <<run, hst>> /\ run.pc = "idle"
  BY DEF Change, Create, DeleteRemoved, AddNewService, AddServiceBack, RemoveService, AddChildBack,
         RemoveChild, MayCall
<1>2. srv' = srv \/ srv' = [srv EXCEPT !.changed = @ \/ srv.started]
  BY DEF Change, Create, DeleteRemoved, AddNewService, AddServiceBack, RemoveService, AddChildBack,
         RemoveChild, SetServiceChanged
<1>3. hist' = hist \/ hist' = [hist EXCEPT !.missed = @ \/ srv.started]
  BY DEF Change, Create, DeleteRemoved, AddNewService, AddServiceBack, RemoveService, AddChildBack,
         RemoveChild
<1>4. /\ srv' \in ServerState /\ srv'.started = srv.started /\ srv'.peers = srv.peers
      /\ srv.changed => srv'.changed
  <2>1. srv \in ServerState
    BY DEF ServerInv, ShapesOK
  <2> QED
    BY <1>2, <2>1 DEF ServerState
<1>5. hist'.told = hist.told /\ hist' = [told |-> hist'.told, missed |-> hist'.missed]
  <2>1. hist = [told |-> hist.told, missed |-> hist.missed]
    BY DEF ServerInv, ShapesOK
  <2> QED
    BY <1>3, <2>1
<1>9. /\ stk' = [links |-> stk'.links, adv |-> stk'.adv, defs |-> stk'.defs, table |-> stk'.table,
                 hidden |-> stk'.hidden]
      /\ stk'.links = stk.links /\ stk'.table = stk.table
      /\ stk'.hidden = stk.hidden \/ (srv.started => srv'.changed)
  <2>1. stk = [links |-> stk.links, adv |-> stk.adv, defs |-> stk.defs, table |-> stk.table,
               hidden |-> stk.hidden]
    BY DEF ServerInv, ShapesOK
  <2>2. CASE stk' = stk
    BY <2>1, <2>2
  <2>3. CASE \E s \in Services, del \in BOOLEAN : RemoveService(s, del)
    <3>1. PICK s \in Services : /\ stk' = [stk EXCEPT !.hidden = @ \cup {stk.table[att[s].handle]}]
                                /\ SetServiceChanged
      BY <2>3 DEF RemoveService
    <3>2. srv.started => srv'.changed
      BY <3>1 DEF SetServiceChanged, ServerInv, ShapesOK, ServerState
    <3> QED
      BY <2>1, <3>1, <3>2
  <2> QED
    BY <2>2, <2>3 DEF Change, Create, DeleteRemoved, AddNewService, AddServiceBack, AddChildBack,
         RemoveChild
<1>6. ShapesOK'
  BY <1>1, <1>4, <1>5, <1>9 DEF ServerInv, ShapesOK
<1>7. Telling'
  BY <1>1, <1>4, <1>5, <1>9 DEF ServerInv, Telling
<1>8. SlotsOK' /\ HostStarts'
  BY <1>1, <1>4, <1>9, SlotsStay DEF ServerInv, HostStarts
<1> QED
  BY <1>6, <1>7, <1>8 DEF ServerInv

\* start() stops the server for a change that is pending, and for no other reason.
LEMMA StartKeeps ==
  ASSUME ServerInv, NEW thread \in {"app", "host"}, NEW advertise \in BOOLEAN,
         run.pc = "idle", thread = "host" => hst.ev = "advertise", Start(thread, advertise)
  PROVE  ServerInv'
<1>1. /\ srv' \in ServerState /\ srv'.peers = srv.peers /\ srv'.changed = srv.changed
      /\ srv'.started => srv.started
      /\ srv.started /\ ~srv'.started => srv.changed
  <2>1. srv \in ServerState /\ srv' = Begin
    BY DEF ServerInv, ShapesOK, Start
  <2> QED
    BY <2>1 DEF Begin, ServerState
<1>2. UNCHANGED <<att, vec, hist>>
  BY DEF Start
<1>3. CASE srv'.started
  <2>1. /\ stk' = [stk EXCEPT !.adv = @ \/ advertise]
        /\ hst' = IF thread = "host" THEN NoEvent ELSE hst
        /\ run' = run
    BY <1>3 DEF Start
  <2>2. /\ stk' = [links |-> stk'.links, adv |-> stk'.adv, defs |-> stk'.defs, table |-> stk'.table,
                hidden |-> stk'.hidden]
        /\ stk'.links = stk.links /\ stk'.table = stk.table /\ stk'.hidden = stk.hidden
    BY <2>1 DEF ServerInv, ShapesOK
  <2>3. hst' \in HostTask /\ (hst' = hst \/ (hst.ev = "advertise" /\ hst'.ev = "none"))
    BY <2>1 DEF ServerInv, ShapesOK, HostTask, NoEvent
  <2>4. SlotsOK'
    BY <1>1, <2>2, <2>3, SlotsStay
  <2>5. ShapesOK'
    BY <1>1, <1>2, <2>1, <2>2, <2>3 DEF ServerInv, ShapesOK
  <2>6. Telling' /\ HostStarts'
    BY <1>1, <1>2, <1>3, <2>1, <2>2 DEF ServerInv, Telling, HostStarts
  <2> QED
    BY <2>4, <2>5, <2>6 DEF ServerInv
<1>4. CASE ~srv'.started
  <2>1. /\ run' = [IdleRun EXCEPT !.pc = "reset", !.by = thread, !.adv = advertise]
        /\ hst' = IF thread = "host" THEN [hst EXCEPT !.ev = "starting"] ELSE hst
        /\ stk' = stk
    BY <1>4 DEF Start
  <2>2. run' = [pc |-> run'.pc, by |-> run'.by, adv |-> run'.adv, i |-> run'.i, svc |-> run'.svc,
                chr |-> run'.chr]
    BY <2>1 DEF IdleRun
  <2>3. hst' \in HostTask /\ (hst' = hst \/ (hst.ev = "advertise" /\ hst'.ev = "starting"))
    BY <2>1 DEF ServerInv, ShapesOK, HostTask
  <2>7. HostStarts'
    <3>1. run'.by = thread
      BY <2>1 DEF IdleRun
    <3>2. thread = "host" => hst'.ev = "starting"
      BY <2>1 DEF ServerInv, ShapesOK, HostTask
    <3> QED
      BY <3>1, <3>2 DEF HostStarts
  <2>4. SlotsOK'
    BY <1>1, <2>1, <2>3, SlotsStay
  <2>5. ShapesOK'
    BY <1>1, <1>2, <2>1, <2>2, <2>3 DEF ServerInv, ShapesOK
  <2>6. Telling'
    BY <1>1, <1>2, <1>4, <2>1 DEF ServerInv, Telling
  <2> QED
    BY <2>4, <2>5, <2>6, <2>7 DEF ServerInv
<1> QED
  BY <1>3, <1>4

\* start() ends or goes on: what it does to containers and handles is left open.
LEMMA StartStepKeeps == ServerInv /\ StartStep => ServerInv'
<1> SUFFICES ASSUME ServerInv, StartStep PROVE ServerInv'
  OBVIOUS
<1>1. /\ run.pc # "idle" /\ ~srv.started
      /\ ShapesOK /\ Telling
  BY DEF ServerInv, Telling, StartStep, ResetStack, EraseService, RegisterService, RegisterFails, AtService,
         GattsStart, GattsStartFails, Registered, RegisterCallback, Started
<1>2. (srv' = srv /\ hist' = hist) \/ Started
  BY DEF StartStep, ResetStack, EraseService, RegisterService, RegisterFails, GattsStart,
         GattsStartFails, RegisterCallback
<1>3. /\ stk' = [links |-> stk'.links, adv |-> stk'.adv, defs |-> stk'.defs, table |-> stk'.table,
                hidden |-> stk'.hidden]
      /\ stk'.links = stk.links
  <2>1. stk = [links |-> stk.links, adv |-> stk.adv, defs |-> stk.defs, table |-> stk.table,
          hidden |-> stk.hidden]
    BY <1>1 DEF ShapesOK
  <2>2. CASE ResetStack
    BY <2>1, <2>2 DEF ResetStack
  <2>3. CASE \E s \in Services : RegisterService(s)
    <3>1. PICK s \in Services : RegisterService(s)
      BY <2>3
    <3>2. stk' = stk \/ stk' = [stk EXCEPT !.defs = @ \o Definition(s)]
      BY <3>1 DEF RegisterService
    <3> QED
      BY <2>1, <3>2
  <2>4. CASE GattsStart
    BY <2>1, <2>4 DEF GattsStart
  <2>5. CASE Started
    BY <2>1, <2>5 DEF Started
  <2>6. CASE (\E s \in Services : EraseService(s) \/ RegisterFails(s)) \/ GattsStartFails \/ RegisterCallback
    <3>1. stk' = stk
      BY <2>6 DEF EraseService, RegisterFails, GattsStartFails, RegisterCallback
    <3> QED
      BY <2>1, <3>1
  <2> QED
    BY <2>2, <2>3, <2>4, <2>5, <2>6 DEF StartStep
<1>4. hst' = hst \/ (run.by = "host" /\ hst' = NoEvent)
  <2>1. CASE ResetStack \/ GattsStart \/ RegisterCallback \/ \E s \in Services : EraseService(s) \/ RegisterService(s)
    BY <2>1 DEF ResetStack, GattsStart, RegisterCallback, EraseService, RegisterService
  <2>2. CASE GattsStartFails \/ Started \/ \E s \in Services : RegisterFails(s)
    <3>1. Leave
      BY <2>2 DEF GattsStartFails, Started, RegisterFails
    <3> QED
      BY <3>1 DEF Leave
  <2> QED
    BY <2>1, <2>2 DEF StartStep
<1>5. NoEvent \in HostTask /\ NoEvent.ev = "none"
  BY DEF NoEvent, HostTask
<1>6. hst' \in HostTask /\ (hst' = hst \/ (hst.ev = "starting" /\ hst'.ev = "none"))
  BY <1>1, <1>4, <1>5 DEF ShapesOK, ServerInv, HostStarts
<1>7. /\ run' = [pc |-> run'.pc, by |-> run'.by, adv |-> run'.adv, i |-> run'.i, svc |-> run'.svc,
                 chr |-> run'.chr]
      /\ run'.pc # "idle" => run'.by = run.by /\ hst' = hst
  <2>1. run = [pc |-> run.pc, by |-> run.by, adv |-> run.adv, i |-> run.i, svc |-> run.svc, chr |-> run.chr]
    BY <1>1 DEF ShapesOK
  <2>2. CASE ResetStack
    BY <2>1, <2>2, <1>1 DEF ResetStack
  <2>3. CASE \E s \in Services : EraseService(s) \/ RegisterService(s)
    <3>1. (run' = run \/ run' = [run EXCEPT !.i = @ + 1]) /\ hst' = hst /\ run.pc = "register"
      BY <2>3 DEF EraseService, RegisterService, AtService
    <3>2. run'.pc = run.pc /\ run'.by = run.by
      BY <2>1, <3>1
    <3> QED
      BY <2>1, <3>1, <3>2
  <2>4. CASE GattsStart
    BY <2>1, <2>4 DEF GattsStart
  <2>5. CASE RegisterCallback
    BY <2>1, <2>5 DEF RegisterCallback
  <2>6. CASE GattsStartFails \/ Started \/ \E s \in Services : RegisterFails(s)
    <3>1. run' = IdleRun
      BY <2>6 DEF GattsStartFails, Started, RegisterFails, Leave
    <3> QED
      BY <3>1 DEF IdleRun
  <2> QED
    BY <2>2, <2>3, <2>4, <2>5, <2>6 DEF StartStep
<1>8. srv' \in ServerState /\ srv'.peers = srv.peers
      /\ hist' = [told |-> hist'.told, missed |-> hist'.missed]
  BY <1>1, <1>2 DEF ShapesOK, ServerState, Started
<1>9. Telling'
  <2>1. CASE Started
    <3>1. /\ srv'.started /\ hist'.told = stk.table /\ stk'.table = stk.table
          /\ run'.pc = "idle" /\ stk'.hidden = {}
      BY <1>1, <2>1 DEF ShapesOK, ServerState, Started, Telling, Leave, IdleRun
    <3> QED
      BY <3>1 DEF Telling
  <2>2. CASE srv' = srv /\ hist' = hist /\ ~Started
    <3>1. run'.pc = "callback" => stk'.hidden = {}
      <4>1. CASE GattsStart
        BY <1>3, <4>1 DEF GattsStart, ShapesOK, ServerInv
      <4>2. CASE RegisterCallback
        BY <1>1, <4>2 DEF RegisterCallback, Telling
      <4>3. CASE ~GattsStart /\ ~RegisterCallback
        <5>1. run = [pc |-> run.pc, by |-> run.by, adv |-> run.adv, i |-> run.i, svc |-> run.svc,
                     chr |-> run.chr]
          BY <1>1 DEF ShapesOK
        <5>2. run'.pc \in {"register", "idle"}
          <6>1. CASE ResetStack
            BY <5>1, <6>1 DEF ResetStack
          <6>2. CASE \E s \in Services : EraseService(s) \/ RegisterService(s)
            <7>1. (run' = run \/ run' = [run EXCEPT !.i = @ + 1]) /\ run.pc = "register"
              BY <6>2 DEF EraseService, RegisterService, AtService
            <7> QED
              BY <5>1, <7>1
          <6>3. CASE GattsStartFails \/ \E s \in Services : RegisterFails(s)
            <7>1. run' = IdleRun
              BY <6>3 DEF GattsStartFails, RegisterFails, Leave
            <7> QED
              BY <7>1 DEF IdleRun
          <6> QED
            BY <2>2, <4>3, <6>1, <6>2, <6>3 DEF StartStep
        <5> QED
          BY <5>2
      <4> QED
        BY <4>1, <4>2, <4>3
    <3> QED
      BY <1>1, <2>2, <3>1 DEF Telling
  <2> QED
    BY <1>2, <2>1, <2>2
<1>10. ShapesOK'
  BY <1>1, <1>3, <1>6, <1>7, <1>8 DEF ShapesOK
<1>11. SlotsOK'
  BY <1>3, <1>6, <1>8, SlotsStay
<1>12. HostStarts'
  BY <1>1, <1>7 DEF ServerInv, HostStarts
<1> QED
  BY <1>9, <1>10, <1>11, <1>12 DEF ServerInv

-----------------------------------------------------------------------------
(* The peers.                                                              *)

\* What a link step may do.
LEMMA LinksIs ==
  ASSUME ServerInv
  PROVE  /\ SlotsOK /\ srv \in ServerState /\ hst \in HostTask /\ NoPeer \notin Peers /\ Slots \in Nat
         /\ stk = [links |-> stk.links, adv |-> stk.adv, defs |-> stk.defs, table |-> stk.table,
          hidden |-> stk.hidden]
         /\ srv.peers \in [1..Slots -> Peers \cup {NoPeer}]
BY ServerAssumption DEF ServerAssumption, ServerInv, ShapesOK, ServerState

\* The stack accepts no more links than there are slots.
LEMMA LinkUpKeeps ==
  ASSUME ServerInv, NEW p \in Peers, LinkUp(p)
  PROVE  ServerInv'
<1>1. /\ hst.ev = "none" /\ p \notin stk.links /\ Cardinality(stk.links) < Slots
      /\ stk' = [stk EXCEPT !.links = @ \cup {p}, !.adv = FALSE]
      /\ hst' = [ev |-> "connect", peer |-> p] /\ UNCHANGED <<att, vec, srv, run, hist>>
  BY DEF LinkUp
<1>2. /\ stk' = [links |-> stk'.links, adv |-> stk'.adv, defs |-> stk'.defs, table |-> stk'.table,
                hidden |-> stk'.hidden]
      /\ stk'.links = stk.links \cup {p} /\ stk'.table = stk.table /\ stk'.hidden = stk.hidden
  BY <1>1, LinksIs
<1>3. hst' \in HostTask /\ hst'.ev = "connect" /\ hst'.peer = p
  BY <1>1 DEF HostTask
<1>4. ShapesOK'
  BY <1>1, <1>2, <1>3 DEF ServerInv, ShapesOK
<1>5. Telling' /\ HostStarts'
  BY <1>1, <1>2 DEF ServerInv, Telling, HostStarts
<1>6. IsFiniteSet(stk'.links) /\ Cardinality(stk'.links) = Cardinality(stk.links) + 1
  BY <1>1, <1>2, LinksIs, FS_AddElement DEF SlotsOK
<1>7. Cardinality(stk'.links) <= Slots
  <2>1. Cardinality(stk.links) \in Nat
    BY LinksIs, FS_CardinalityType DEF SlotsOK
  <2> QED
    BY <1>1, <1>6, <2>1, LinksIs
<1>8. Connecting' = {p} /\ Disconnecting' = {} /\ Connecting = {} /\ Disconnecting = {}
  BY <1>1, <1>3 DEF Connecting, Disconnecting
<1>9. Held' = Held
  BY <1>1 DEF Held
<1>10. SlotsOK'
  BY <1>1, <1>2, <1>3, <1>6, <1>7, <1>8, <1>9, LinksIs DEF SlotsOK
<1> QED
  BY <1>4, <1>5, <1>10 DEF ServerInv

LEMMA LinkDownKeeps ==
  ASSUME ServerInv, NEW p \in Peers, LinkDown(p)
  PROVE  ServerInv'
<1>1. /\ hst.ev = "none" /\ p \in stk.links
      /\ stk' = [stk EXCEPT !.links = @ \ {p}]
      /\ hst' = [ev |-> "disconnect", peer |-> p] /\ UNCHANGED <<att, vec, srv, run, hist>>
  BY DEF LinkDown
<1>2. /\ stk' = [links |-> stk'.links, adv |-> stk'.adv, defs |-> stk'.defs, table |-> stk'.table,
                hidden |-> stk'.hidden]
      /\ stk'.links = stk.links \ {p} /\ stk'.table = stk.table /\ stk'.hidden = stk.hidden
  BY <1>1, LinksIs
<1>3. hst' \in HostTask /\ hst'.ev = "disconnect" /\ hst'.peer = p
  BY <1>1 DEF HostTask
<1>4. ShapesOK'
  BY <1>1, <1>2, <1>3 DEF ServerInv, ShapesOK
<1>5. Telling' /\ HostStarts'
  BY <1>1, <1>2 DEF ServerInv, Telling, HostStarts
<1>6. IsFiniteSet(stk'.links) /\ Cardinality(stk'.links) = Cardinality(stk.links) - 1
  BY <1>1, <1>2, LinksIs, FS_RemoveElement DEF SlotsOK
<1>7. Cardinality(stk'.links) <= Slots
  <2>1. Cardinality(stk.links) \in Nat /\ Cardinality(stk.links) <= Slots
    BY LinksIs, FS_CardinalityType DEF SlotsOK
  <2> QED
    BY <1>6, <2>1, LinksIs
<1>8. Connecting' = {} /\ Disconnecting' = {p} /\ Connecting = {} /\ Disconnecting = {}
  BY <1>1, <1>3 DEF Connecting, Disconnecting
<1>9. Held' = Held
  BY <1>1 DEF Held
<1>10. SlotsOK'
  BY <1>1, <1>2, <1>3, <1>6, <1>7, <1>8, <1>9, LinksIs DEF SlotsOK
<1> QED
  BY <1>4, <1>5, <1>10 DEF ServerInv

LEMMA LinkFailsKeeps == ServerInv /\ LinkFails => ServerInv'
<1> SUFFICES ASSUME ServerInv, LinkFails PROVE ServerInv'
  OBVIOUS
<1>1. /\ hst.ev = "none" /\ stk' = [stk EXCEPT !.adv = FALSE]
      /\ hst' = [NoEvent EXCEPT !.ev = "failed"] /\ UNCHANGED <<att, vec, srv, run, hist>>
  BY DEF LinkFails
<1>2. /\ stk' = [links |-> stk'.links, adv |-> stk'.adv, defs |-> stk'.defs, table |-> stk'.table,
                hidden |-> stk'.hidden]
      /\ stk'.links = stk.links /\ stk'.table = stk.table /\ stk'.hidden = stk.hidden
  BY <1>1, LinksIs
<1>3. hst' \in HostTask /\ hst'.ev = "failed"
  BY <1>1 DEF HostTask, NoEvent
<1>4. ShapesOK'
  BY <1>1, <1>2, <1>3 DEF ServerInv, ShapesOK
<1>5. Telling' /\ HostStarts'
  BY <1>1, <1>2 DEF ServerInv, Telling, HostStarts
<1>6. SlotsOK'
  BY <1>1, <1>2, <1>3, SlotsStay
<1> QED
  BY <1>4, <1>5, <1>6 DEF ServerInv

\* A link for which no event has come has a slot free.
LEMMA SlotIsFree ==
  ASSUME ServerInv, hst.ev = "connect"
  PROVE  \E i \in FreeSlots : FirstFree = {i}
<1>1. SlotsOK /\ Slots \in Nat /\ srv.peers \in [1..Slots -> Peers \cup {NoPeer}] /\ NoPeer \notin Peers
  BY LinksIs
<1>2. FreeSlots # {}
  <2>1. SUFFICES ASSUME FreeSlots = {} PROVE FALSE
    OBVIOUS
  <2> DEFINE others == stk.links \ {hst.peer}
  <2>2. \A i \in 1..Slots : srv.peers[i] # NoPeer
    BY <2>1 DEF FreeSlots
  <2>3. Held = others /\ hst.peer \in stk.links
    BY <1>1 DEF SlotsOK, Connecting, Disconnecting
  <2>4. \A i \in 1..Slots : srv.peers[i] \in others
    BY <2>2, <2>3 DEF Held
  <2>5. srv.peers \in [1..Slots -> others]
    BY <1>1, <2>4
  <2>6. IsFiniteSet(others) /\ Cardinality(others) = Cardinality(stk.links) - 1
        /\ Cardinality(stk.links) \in Nat /\ Cardinality(stk.links) <= Slots
    BY <1>1, <2>3, FS_RemoveElement, FS_CardinalityType DEF SlotsOK
  <2>7. IsFiniteSet(1..Slots) /\ Cardinality(1..Slots) = Slots
    BY <1>1, FS_Interval
  <2> HIDE DEF others
  <2>8. Cardinality(others) < Cardinality(1..Slots)
    BY <1>1, <2>6, <2>7
  <2>9. \E i, j \in 1..Slots : i # j /\ srv.peers[i] = srv.peers[j]
    <3>1. PICK f \in [1..Slots -> others] : f = srv.peers
      BY <2>5
    <3>2. PICK S : S = 1..Slots
      OBVIOUS
    <3>3. \E i, j \in S : i # j /\ f[i] = f[j]
      BY <2>6, <2>7, <2>8, <3>2, FS_PigeonHole
    <3> QED
      BY <3>1, <3>2, <3>3
  <2> QED
    BY <1>1, <2>2, <2>9 DEF SlotsOK
<1>3. FreeSlots \subseteq Nat
  BY DEF FreeSlots
<1>4. PICK i \in FreeSlots : \A j \in FreeSlots : i <= j
  BY <1>2, <1>3, LeastIs
<1>5. FirstFree = {i}
  <2>1. \A k \in FreeSlots : k <= i /\ i <= k => k = i
    BY <1>3, <1>4
  <2> QED
    BY <1>4, <2>1 DEF FirstFree
<1> QED
  BY <1>4, <1>5

LEMMA HandleConnectKeeps == ServerInv /\ HandleConnect => ServerInv'
<1> SUFFICES ASSUME ServerInv, HandleConnect PROVE ServerInv'
  OBVIOUS
<1>1. /\ hst.ev = "connect" /\ hst' = NoEvent /\ UNCHANGED <<att, vec, run, stk, hist>>
      /\ srv' = [srv EXCEPT !.peers = [i \in 1..Slots |-> IF i \in FirstFree THEN hst.peer ELSE @[i]]]
  BY DEF HandleConnect
<1>2. PICK k \in 1..Slots : srv.peers[k] = NoPeer /\ FirstFree = {k}
  BY <1>1, SlotIsFree DEF FreeSlots
<1>3. /\ SlotsOK /\ srv \in ServerState /\ srv.peers \in [1..Slots -> Peers \cup {NoPeer}]
      /\ hst.peer \in Peers /\ NoPeer \notin Peers
  BY <1>1, LinksIs DEF SlotsOK
<1> DEFINE q == [i \in 1..Slots |-> IF i = k THEN hst.peer ELSE srv.peers[i]]
<1>4. q \in [1..Slots -> Peers \cup {NoPeer}]
  BY <1>3
<1>5. srv' = [srv EXCEPT !.peers = q]
  BY <1>1, <1>2
<1>6. q[k] = hst.peer /\ \A i \in 1..Slots \ {k} : q[i] = srv.peers[i]
  OBVIOUS
<1> HIDE DEF q
<1>7. srv' \in ServerState /\ srv'.peers = q /\ srv'.started = srv.started /\ srv'.changed = srv.changed
  BY <1>3, <1>4, <1>5 DEF ServerState
<1>8. hst' \in HostTask /\ hst'.ev = "none"
  BY <1>1 DEF HostTask, NoEvent
<1>9. ShapesOK'
  BY <1>1, <1>7, <1>8 DEF ServerInv, ShapesOK
<1>10. Telling' /\ HostStarts'
  BY <1>1, <1>7 DEF ServerInv, Telling, HostStarts
<1>11. Connecting' = {} /\ Disconnecting' = {} /\ Connecting = {hst.peer} /\ Disconnecting = {}
  BY <1>1, <1>8 DEF Connecting, Disconnecting
<1>12. hst.peer \in stk.links /\ Held = stk.links \ {hst.peer}
  BY <1>3, <1>11 DEF SlotsOK
<1>13. Held' = Held \cup {hst.peer}
  <2>1. Held' = {q[i] : i \in 1..Slots} \ {NoPeer}
    BY <1>7 DEF Held
  <2>2. ASSUME NEW x PROVE x \in Held' <=> x \in Held \cup {hst.peer}
    <3>1. x \in Held' <=> x # NoPeer /\ \E i \in 1..Slots : q[i] = x
      BY <2>1
    <3>2. x \in Held <=> x # NoPeer /\ \E i \in 1..Slots : srv.peers[i] = x
      BY DEF Held
    <3> QED
      BY <1>2, <1>3, <1>6, <3>1, <3>2
  <2> QED
    BY <2>2
<1>14. \A i \in 1..Slots : srv.peers[i] # hst.peer
  BY <1>3, <1>12 DEF Held
<1>15. \A i, j \in 1..Slots : q[i] = q[j] /\ q[i] # NoPeer => i = j
  BY <1>3, <1>6, <1>14 DEF SlotsOK
<1>16. SlotsOK'
  BY <1>1, <1>3, <1>7, <1>8, <1>11, <1>12, <1>13, <1>15 DEF SlotsOK
<1> QED
  BY <1>9, <1>10, <1>16 DEF ServerInv

LEMMA HandleDisconnectKeeps == ServerInv /\ HandleDisconnect => ServerInv'
<1> SUFFICES ASSUME ServerInv, HandleDisconnect PROVE ServerInv'
  OBVIOUS
<1>1. /\ hst.ev = "disconnect" /\ UNCHANGED <<att, vec, run, stk, hist>>
      /\ srv' = [srv EXCEPT !.peers = [i \in 1..Slots |-> IF @[i] = hst.peer THEN NoPeer ELSE @[i]]]
      /\ hst' = IF srv.advOnDisc THEN [NoEvent EXCEPT !.ev = "advertise"] ELSE NoEvent
  BY DEF HandleDisconnect
<1>2. /\ SlotsOK /\ srv \in ServerState /\ srv.peers \in [1..Slots -> Peers \cup {NoPeer}]
      /\ hst.peer \in Peers /\ NoPeer \notin Peers
  BY <1>1, LinksIs DEF SlotsOK
<1> DEFINE q == [i \in 1..Slots |-> IF srv.peers[i] = hst.peer THEN NoPeer ELSE srv.peers[i]]
<1>3. q \in [1..Slots -> Peers \cup {NoPeer}]
  BY <1>2
<1>4. srv' = [srv EXCEPT !.peers = q]
  BY <1>1
<1>5. \A i \in 1..Slots : q[i] = IF srv.peers[i] = hst.peer THEN NoPeer ELSE srv.peers[i]
  OBVIOUS
<1> HIDE DEF q
<1>6. srv' \in ServerState /\ srv'.peers = q /\ srv'.started = srv.started /\ srv'.changed = srv.changed
  BY <1>2, <1>3, <1>4 DEF ServerState
<1>7. hst' \in HostTask /\ hst'.ev \in {"none", "advertise"}
  BY <1>1 DEF HostTask, NoEvent
<1>8. ShapesOK'
  BY <1>1, <1>6, <1>7 DEF ServerInv, ShapesOK
<1>9. Telling' /\ HostStarts'
  BY <1>1, <1>6 DEF ServerInv, Telling, HostStarts
<1>10. Connecting' = {} /\ Disconnecting' = {} /\ Connecting = {} /\ Disconnecting = {hst.peer}
  BY <1>1, <1>7 DEF Connecting, Disconnecting
<1>11. hst.peer \notin stk.links /\ Held = stk.links \cup {hst.peer}
  BY <1>2, <1>10 DEF SlotsOK
<1>12. Held' = Held \ {hst.peer}
  <2>1. Held' = {q[i] : i \in 1..Slots} \ {NoPeer}
    BY <1>6 DEF Held
  <2>2. ASSUME NEW x PROVE x \in Held' <=> x \in Held \ {hst.peer}
    <3>1. x \in Held' <=> x # NoPeer /\ \E i \in 1..Slots : q[i] = x
      BY <2>1
    <3>2. x \in Held <=> x # NoPeer /\ \E i \in 1..Slots : srv.peers[i] = x
      BY DEF Held
    <3> QED
      BY <1>2, <1>5, <3>1, <3>2
  <2> QED
    BY <2>2
<1>13. \A i, j \in 1..Slots : q[i] = q[j] /\ q[i] # NoPeer => i = j
  BY <1>2, <1>5 DEF SlotsOK
<1>14. SlotsOK'
  BY <1>1, <1>2, <1>6, <1>7, <1>10, <1>11, <1>12, <1>13 DEF SlotsOK
<1> QED
  BY <1>8, <1>9, <1>14 DEF ServerInv

LEMMA HostAdvertiseKeeps ==
  ServerInv /\ (HostAdvertise \/ HandleConnectFailed) => ServerInv'
<1> SUFFICES ASSUME ServerInv, HostAdvertise \/ HandleConnectFailed PROVE ServerInv'
  OBVIOUS
<1>1. CASE HostAdvertise /\ ~stk.adv
  <2>1. hst.ev = "advertise" /\ run.pc = "idle" /\ Start("host", TRUE)
    BY <1>1 DEF HostAdvertise
  <2> QED
    BY <2>1, StartKeeps
<1>2. CASE (HostAdvertise /\ stk.adv) \/ HandleConnectFailed
  <2>1. /\ UNCHANGED <<srv, run, stk, hist>>
        /\ \/ hst' = NoEvent /\ hst.ev = "advertise" /\ run.pc = "idle"
           \/ hst' = [hst EXCEPT !.ev = "advertise"] /\ hst.ev = "failed"
    BY <1>2 DEF HostAdvertise, HandleConnectFailed
  <2>2. hst' \in HostTask /\ hst'.ev \in {"none", "advertise"} /\ hst.ev \in {"failed", "advertise"}
    BY <2>1, LinksIs DEF HostTask, NoEvent
  <2>3. SlotsOK'
    BY <2>1, <2>2, SlotsStay
  <2>4. ShapesOK'
    BY <2>1, <2>2 DEF ServerInv, ShapesOK
  <2>5. Telling' /\ HostStarts'
    BY <2>1, <2>2 DEF ServerInv, Telling, HostStarts
  <2> QED
    BY <2>3, <2>4, <2>5 DEF ServerInv
<1> QED
  BY <1>1, <1>2

-----------------------------------------------------------------------------
LEMMA InitServerInv == Init => ServerInv
<1> SUFFICES ASSUME Init PROVE ServerInv
  OBVIOUS
<1>1. /\ srv \in ServerState /\ ~srv.started /\ \A i \in 1..Slots : srv.peers[i] = NoPeer
  BY DEF Init, ServerState
<1>2. /\ stk = [links |-> {}, adv |-> FALSE, defs |-> << >>, table |-> << >>, hidden |-> {}]
      /\ hst = NoEvent /\ run = IdleRun /\ hist = [told |-> <<Server>>, missed |-> FALSE]
  BY DEF Init
<1>3. ShapesOK
  <2>1. hst \in HostTask
    BY <1>2 DEF HostTask, NoEvent
  <2>2. run = [pc |-> run.pc, by |-> run.by, adv |-> run.adv, i |-> run.i, svc |-> run.svc,
               chr |-> run.chr]
    BY <1>2 DEF IdleRun
  <2> QED
    BY <1>1, <1>2, <2>1, <2>2 DEF ShapesOK
<1>4. Telling /\ HostStarts
  BY <1>1, <1>2 DEF Telling, HostStarts, IdleRun
<1>5. Held = {} /\ Connecting = {} /\ Disconnecting = {}
  BY <1>1, <1>2 DEF Held, Connecting, Disconnecting, NoEvent
<1>6. SlotsOK
  BY <1>1, <1>2, <1>5, FS_EmptySet, ServerAssumption DEF SlotsOK, NoEvent, ServerAssumption
<1> QED
  BY <1>3, <1>4, <1>6 DEF ServerInv

LEMMA NextServerInv == ServerInv /\ [Next]_vars => ServerInv'
<1> SUFFICES ASSUME ServerInv, [Next]_vars PROVE ServerInv'
  OBVIOUS
<1>1. CASE UNCHANGED vars
  <2>1. UNCHANGED <<srv, run, stk, hst, hist>>
    BY <1>1 DEF vars
  <2>2. SlotsOK'
    BY <2>1, SlotsStay
  <2> QED
    BY <2>1, <2>2 DEF ServerInv, ShapesOK, Telling, HostStarts
<1>2. CASE CallStart \/ CallAdvertise
  <2>1. run.pc = "idle" /\ \E advertise \in BOOLEAN : Start("app", advertise)
    BY <1>2 DEF CallStart, CallAdvertise, MayCall
  <2> QED
    BY <2>1, StartKeeps
<1>3. CASE LinkStep
  BY <1>3, LinkUpKeeps, LinkDownKeeps, LinkFailsKeeps DEF LinkStep
<1>4. CASE HostStep
  BY <1>4, HandleConnectKeeps, HandleDisconnectKeeps, HostAdvertiseKeeps DEF HostStep
<1> QED
  BY <1>1, <1>2, <1>3, <1>4, ChangeKeeps, StartStepKeeps DEF Next

\* What start(), the events and the calls that change the services preserve of the
\* server's flags, of what the peers were told and of m_connectedPeers.
THEOREM ServerInvariance == Spec => []ServerInv
BY InitServerInv, NextServerInv, PTL DEF Spec

\* The table that is served is the one that the peers were last told of: start()
\* indicates each change that it applies, also after starts that failed.  A service
\* that removeService() has hidden from connected peers, and that they were not told
\* of, leaves a change pending, which the next start() that applies it indicates.
THEOREM EveryChangeIsIndicated == Spec => []ChangeIsIndicated
<1>1. ServerInv => ChangeIsIndicated
  BY DEF ServerInv, Telling, ChangeIsIndicated, Serving
<1> QED
  BY <1>1, ServerInvariance, PTL

-----------------------------------------------------------------------------
(* What the server knows of its peers.                                     *)

\* getPeerInfo() reaches each of the peers, and nothing behind the last of them.
EachPeerHasAnIndex ==
  hst.ev \in {"none", "advertise"} =>
    /\ \A p \in stk.links : \E i \in 0..(Cardinality(stk.links) - 1) : PeerInfo(i) = p
    /\ \A i \in 0..Slots : i >= Cardinality(stk.links) => PeerInfo(i) = NoPeer

\* The slots of each peer.
LEMMA HeldIs ==
  ASSUME ServerInv, hst.ev \in {"none", "advertise"}
  PROVE  /\ Held = stk.links
         /\ \A p \in stk.links : \E i \in 1..Slots : {j \in 1..Slots : srv.peers[j] = p} = {i}
         /\ \A p \in Peers \ stk.links : {j \in 1..Slots : srv.peers[j] = p} = {}
<1>1. SlotsOK /\ stk.links \subseteq Peers /\ NoPeer \notin Peers
  BY LinksIs DEF ServerInv, ShapesOK
<1>2. Held = stk.links
  BY <1>1 DEF SlotsOK, Connecting, Disconnecting
<1>3. ASSUME NEW p \in stk.links
      PROVE  \E i \in 1..Slots : {j \in 1..Slots : srv.peers[j] = p} = {i}
  <2>1. p # NoPeer
    BY <1>1
  <2>2. PICK i \in 1..Slots : srv.peers[i] = p
    BY <1>2 DEF Held
  <2>3. \A j \in 1..Slots : srv.peers[j] = p => j = i
    BY <1>1, <2>1, <2>2 DEF SlotsOK
  <2> QED
    BY <2>2, <2>3
<1>4. \A p \in Peers \ stk.links : {j \in 1..Slots : srv.peers[j] = p} = {}
  BY <1>1, <1>2 DEF Held
<1> QED
  BY <1>2, <1>3, <1>4

LEMMA InvImpliesHeld == ServerInv => EachPeerIsHeld
<1> SUFFICES ASSUME ServerInv, hst.ev \in {"none", "advertise"}, NEW p \in Peers
             PROVE  Cardinality({i \in 1..Slots : srv.peers[i] = p}) = (IF p \in stk.links THEN 1 ELSE 0)
  BY DEF EachPeerIsHeld
<1>1. CASE p \in stk.links
  <2>1. PICK i \in 1..Slots : {j \in 1..Slots : srv.peers[j] = p} = {i}
    BY <1>1, HeldIs
  <2> QED
    BY <1>1, <2>1, FS_Singleton
<1>2. CASE p \notin stk.links
  BY <1>2, HeldIs, FS_EmptySet
<1> QED
  BY <1>1, <1>2

\* As many slots are taken as there are links.
LEMMA ConnectedIs ==
  ASSUME ServerInv, hst.ev \in {"none", "advertise"}
  PROVE  /\ Connected \subseteq 1..Slots /\ Cardinality(Connected) = Cardinality(stk.links)
         /\ \A p \in stk.links : \E k \in Connected : srv.peers[k] = p
<1> DEFINE f == [k \in Connected |-> srv.peers[k]]
<1>1. SlotsOK /\ Slots \in Nat
  BY LinksIs
<1>2. Connected \subseteq 1..Slots /\ \A k \in Connected : srv.peers[k] \in Held
  BY DEF Connected, Held
<1>3. Held = stk.links
  BY HeldIs
<1>4. \A p \in stk.links : \E k \in Connected : srv.peers[k] = p
  BY <1>3 DEF Held, Connected
<1>5. \A k, l \in Connected : srv.peers[k] = srv.peers[l] => k = l
  BY <1>1, <1>2 DEF SlotsOK, Connected
<1>6. f \in [Connected -> stk.links] /\ \A k \in Connected : f[k] = srv.peers[k]
  BY <1>2, <1>3
<1> HIDE DEF f
<1>7. f \in Bijection(Connected, stk.links)
  BY <1>4, <1>5, <1>6 DEF Bijection, Injection, Surjection, IsInjective
<1>8. IsFiniteSet(Connected)
  BY <1>1, <1>2, NthIs
<1>9. Cardinality(Connected) = Cardinality(stk.links)
  BY <1>7, <1>8, FS_Bijection DEF ExistsBijection
<1> QED
  BY <1>2, <1>4, <1>9

\* getPeerInfo() and getPeerDevices() give the same peer for each of the indexes.
LEMMA PeerInfoIs ==
  ASSUME ServerInv, hst.ev \in {"none", "advertise"}
  PROVE  /\ Cardinality(stk.links) \in 0..Slots
         /\ \A i \in 0..(Cardinality(stk.links) - 1) : \E k \in Connected :
              /\ Nth(Connected, i) = {k}
              /\ PeerInfo(i) = srv.peers[k] /\ PeerDevices[i + 1] = srv.peers[k]
         /\ \A i \in Nat : i >= Cardinality(stk.links) => PeerInfo(i) = NoPeer
<1> DEFINE n == Cardinality(stk.links)
<1>1. /\ Slots \in Nat /\ Connected \in SUBSET (1..Slots) /\ Cardinality(Connected) = n
      /\ srv.peers \in Seq(Peers \cup {NoPeer}) /\ Len(srv.peers) = Slots
      /\ DOMAIN srv.peers = 1..Slots
  BY ConnectedIs, LinksIs
<1>2. n \in 0..Slots /\ \A i \in Nat : i >= n => Nth(Connected, i) = {}
  BY <1>1, NthIs
<1>3. PeerDevices = Picked(srv.peers, Connected)
  <2>1. {k \in DOMAIN srv.peers : srv.peers[k] \notin {NoPeer}} = Connected
    BY <1>1 DEF Connected
  <2> QED
    BY <2>1 DEF PeerDevices, Kept
<1>4. PICK f : /\ f \in [1..Cardinality(Connected) -> Connected]
               /\ \A i \in 1..Cardinality(Connected) :
                    /\ Nth(Connected, i - 1) = {f[i]}
                    /\ Picked(srv.peers, Connected)[i] = srv.peers[f[i]]
  <2>1. PICK q \in Seq(Peers \cup {NoPeer}) : q = srv.peers
    BY <1>1
  <2>2. PICK K \in SUBSET (1..Len(q)) : K = Connected
    BY <1>1, <2>1
  <2>3. \E f : /\ f \in [1..Cardinality(K) -> K]
              /\ \A i \in 1..Cardinality(K) : Nth(K, i - 1) = {f[i]} /\ Picked(q, K)[i] = q[f[i]]
    BY PickedIs
  <2> QED
    BY <2>1, <2>2, <2>3
<1>5. \A i : PeerInfo(i) = IF i >= Slots \/ Nth(Connected, i) = {} THEN NoPeer
                           ELSE srv.peers[CHOOSE k \in Connected : k \in Nth(Connected, i)]
  BY DEF PeerInfo
<1>6. ASSUME NEW i \in 0..(n - 1)
      PROVE  \E k \in Connected : /\ Nth(Connected, i) = {k}
                                  /\ PeerInfo(i) = srv.peers[k] /\ PeerDevices[i + 1] = srv.peers[k]
  <2> DEFINE k == f[i + 1]
  <2>1. i + 1 \in 1..n /\ (i + 1) - 1 = i /\ ~(i >= Slots)
    BY <1>1, <1>2
  <2>2. k \in Connected /\ Nth(Connected, i) = {k} /\ PeerDevices[i + 1] = srv.peers[k]
    BY <1>1, <1>3, <1>4, <2>1
  <2> HIDE DEF k
  <2>3. (CHOOSE l \in Connected : l \in Nth(Connected, i)) = k
    BY <2>2
  <2> QED
    BY <1>5, <2>1, <2>2, <2>3
<1>7. \A i \in Nat : i >= n => PeerInfo(i) = NoPeer
  BY <1>2, <1>5
<1> QED
  BY <1>2, <1>6, <1>7

LEMMA InvImpliesIndexed == ServerInv => EachPeerHasAnIndex
<1> SUFFICES ASSUME ServerInv, hst.ev \in {"none", "advertise"}
             PROVE  /\ \A p \in stk.links : \E i \in 0..(Cardinality(stk.links) - 1) : PeerInfo(i) = p
                    /\ \A i \in 0..Slots : i >= Cardinality(stk.links) => PeerInfo(i) = NoPeer
  BY DEF EachPeerHasAnIndex
<1> DEFINE n == Cardinality(stk.links)
<1>1. Slots \in Nat /\ Connected \in SUBSET (1..Slots) /\ Cardinality(Connected) = n
  BY ConnectedIs, LinksIs
<1>2. ASSUME NEW p \in stk.links PROVE \E i \in 0..(n - 1) : PeerInfo(i) = p
  <2>1. PICK k \in Connected : srv.peers[k] = p
    BY ConnectedIs
  <2>2. PICK i \in 0..(n - 1) : Nth(Connected, i) = {k}
    BY <1>1, NthIs
  <2>3. PeerInfo(i) = srv.peers[k]
    BY <2>2, PeerInfoIs
  <2> QED
    BY <2>1, <2>3
<1> QED
  BY <1>2, PeerInfoIs

\* Between two events m_connectedPeers has each connected peer once and nobody else,
\* and getPeerInfo() gives each of them for one of the first indexes, an empty
\* connection for the others: the connect handler always finds a free slot.
THEOREM PeersAreHeld == Spec => [](EachPeerIsHeld /\ EachPeerHasAnIndex)
BY ServerInvariance, InvImpliesHeld, InvImpliesIndexed, PTL

-----------------------------------------------------------------------------
(* The tree of the attributes.                                             *)

\* A container holds the objects that belong there and exist, each of them once,
\* and an object that does not exist has no handle.
Contained ==
  /\ att \in [Attrs -> Attribute]
  /\ vec \in [Attrs \cup {Server} -> Seq(Attrs)]
  /\ \A p \in Attrs \cup {Server} :
       /\ IsInjective(vec[p])
       /\ \A a \in ToSet(vec[p]) : Parent[a] = p /\ att[a].state = "live"
  /\ \A a \in Attrs :
       /\ Live(a) => a \in ToSet(vec[Parent[a]]) /\ (Parent[a] \in Attrs => Live(Parent[a]))
       /\ ~Live(a) => att[a].handle = 0

\* The tree of services, characteristics and descriptors.
LEMMA TreeIs ==
  /\ Server \notin Attrs
  /\ \A a \in Attrs :
       /\ a \in Services <=> Parent[a] = Server
       /\ a \in Services <=> a \notin Children
       /\ a \in Children => Parent[a] \in Attrs
       /\ a \in Children /\ Parent[a] \in Children => Parent[Parent[a]] \in Services
BY ServerAssumption DEF ServerAssumption, Attrs

LEMMA SubtreeIs ==
  /\ \A a, b \in Attrs :
       a \in Subtree(b) <=> a = b \/ (a \in Children /\ (b = Parent[a] \/ b = Parent[Parent[a]]))
  /\ \A a \in Attrs : Subtree(a) \subseteq Attrs /\ a \in Subtree(a)
  /\ \A a \in Attrs : \E s \in Services : a \in Subtree(s)
  /\ \A a \in Services, b \in Attrs : a \in Subtree(b) <=> a = b
  /\ \A a \in Children, b \in Attrs : a \in Subtree(b) <=> a = b \/ Parent[a] \in Subtree(b)
<1>1. \A b : Subtree(b) = {b} \cup {c \in Children : Parent[c] = b \/ Parent[Parent[c]] = b}
  BY DEF Subtree
<1>2. \A a, b \in Attrs :
        a \in Subtree(b) <=> a = b \/ (a \in Children /\ (b = Parent[a] \/ b = Parent[Parent[a]]))
  BY <1>1
<1>3. \A a \in Attrs : Subtree(a) \subseteq Attrs /\ a \in Subtree(a)
  BY <1>1 DEF Attrs
<1>4. ASSUME NEW a \in Attrs PROVE \E s \in Services : a \in Subtree(s)
  <2>1. CASE a \in Services
    BY <1>3, <2>1
  <2>2. CASE a \in Children /\ Parent[a] \in Services
    BY <1>2, <2>2 DEF Attrs
  <2>3. CASE a \in Children /\ Parent[a] \in Children
    BY <1>2, <2>3, TreeIs DEF Attrs
  <2> QED
    BY <2>1, <2>2, <2>3, TreeIs DEF Attrs
<1>5. ASSUME NEW a \in Services, NEW b \in Attrs PROVE a \in Subtree(b) <=> a = b
  BY <1>2, TreeIs DEF Attrs
<1>6. ASSUME NEW a \in Children, NEW b \in Attrs
      PROVE  a \in Subtree(b) <=> a = b \/ Parent[a] \in Subtree(b)
  <2>1. a \in Attrs /\ Parent[a] \in Attrs
    BY TreeIs DEF Attrs
  <2>2. CASE Parent[a] \in Services
    BY <1>2, <1>5, <2>1, <2>2, TreeIs
  <2>3. CASE Parent[a] \in Children
    <3>1. Parent[Parent[a]] \in Services /\ Parent[Parent[a]] \in Attrs
      BY <2>1, <2>3, TreeIs DEF Attrs
    <3>2. Parent[Parent[Parent[a]]] \notin Attrs
      BY <3>1, TreeIs
    <3> QED
      BY <1>2, <2>1, <2>3, <3>1, <3>2
  <2> QED
    BY <2>1, <2>2, <2>3 DEF Attrs
<1> QED
  BY <1>2, <1>3, <1>4, <1>5, <1>6

LEMMA SubtreesNest ==
  /\ \A a, b, c \in Attrs : a \in Subtree(b) /\ b \in Subtree(c) => a \in Subtree(c)
  /\ \A a, b, c \in Attrs : a \in Subtree(b) /\ a \in Subtree(c) => b \in Subtree(c) \/ c \in Subtree(b)
  /\ \A a, b \in Attrs : a \in Subtree(b) /\ b \in Subtree(a) => a = b
  /\ \A a, b, c \in Attrs : b \in Subtree(a) /\ b # a /\ Parent[c] = Parent[b] => c \in Subtree(a)
  /\ \A a, b, c \in Attrs : a \in Subtree(b) /\ a \in Subtree(c) /\ Parent[b] = Parent[c] => b = c
<1> DEFINE up(a, b) == a = b \/ (a \in Children /\ (b = Parent[a] \/ b = Parent[Parent[a]]))
<1>1. \A a, b \in Attrs : a \in Subtree(b) <=> up(a, b)
  BY SubtreeIs
<1>2. \A a \in Attrs :
        /\ a \in Children => Parent[a] \in Attrs
        /\ a \in Services => a \notin Children /\ Parent[a] = Server
        /\ a \in Services \/ a \in Children
        /\ a \in Children /\ Parent[a] \in Children => Parent[Parent[a]] \in Services
        /\ a \in Children => Parent[a] # Server
  BY TreeIs DEF Attrs
<1>3. Server \notin Attrs /\ Server \notin Children /\ Services \subseteq Attrs /\ Children \subseteq Attrs
  BY TreeIs DEF Attrs
<1>4. \A a \in Services, b \in Attrs : up(a, b) <=> a = b
  BY <1>2, <1>3
<1>5. \A a \in Children, b \in Attrs : up(a, b) <=> a = b \/ up(Parent[a], b)
  BY SubtreeIs, <1>1, <1>2, <1>3
<1> HIDE DEF up
<1>6. ASSUME NEW a \in Attrs, NEW b \in Attrs, NEW c \in Attrs, up(a, b), up(b, c) PROVE up(a, c)
  <2>1. CASE a \in Services
    BY <1>4, <1>6, <2>1
  <2>2. CASE a \in Children /\ Parent[a] \in Services
    BY <1>2, <1>4, <1>5, <1>6, <2>2
  <2>3. CASE a \in Children /\ Parent[a] \in Children
    BY <1>2, <1>4, <1>5, <1>6, <2>3
  <2> QED
    BY <1>2, <2>1, <2>2, <2>3
<1>7. ASSUME NEW a \in Attrs, NEW b \in Attrs, NEW c \in Attrs, up(a, b), up(a, c) PROVE up(b, c) \/ up(c, b)
  <2>0. up(a, a)
    BY DEF up
  <2>1. CASE a \in Services
    BY <1>4, <1>7, <2>1
  <2>2. CASE a \in Children /\ Parent[a] \in Services
    BY <1>2, <1>4, <1>5, <1>7, <2>2 DEF up
  <2>3. CASE a \in Children /\ Parent[a] \in Children
    BY <1>2, <1>4, <1>5, <1>7, <2>3 DEF up
  <2> QED
    BY <1>2, <2>1, <2>2, <2>3
<1>8. ASSUME NEW a \in Attrs, NEW b \in Attrs, up(a, b), up(b, a) PROVE a = b
  <2>1. CASE a \in Services
    BY <1>4, <1>8, <2>1
  <2>2. CASE b \in Services
    BY <1>4, <1>8, <2>2
  <2>3. CASE a \in Children /\ b \in Children
    <3>1. a = b \/ b = Parent[a] \/ b = Parent[Parent[a]]
      BY <1>8 DEF up
    <3>2. a = b \/ a = Parent[b] \/ a = Parent[Parent[b]]
      BY <1>8 DEF up
    <3> QED
      BY <1>2, <1>3, <2>3, <3>1, <3>2
  <2> QED
    BY <1>2, <2>1, <2>2, <2>3
<1>9. ASSUME NEW a \in Attrs, NEW b \in Attrs, NEW c \in Attrs, up(b, a), b # a, Parent[c] = Parent[b]
      PROVE  up(c, a)
  BY <1>2, <1>4, <1>5, <1>9
<1>10. ASSUME NEW a \in Attrs, NEW b \in Attrs, NEW c \in Attrs, up(a, b), up(a, c), Parent[b] = Parent[c]
       PROVE  b = c
  <2>1. up(b, c) \/ up(c, b)
    BY <1>7, <1>10
  <2>2. ASSUME NEW x \in Attrs, NEW y \in Attrs, up(x, y), x # y, Parent[x] = Parent[y] PROVE FALSE
    <3>1. x \in Children /\ up(Parent[x], y)
      BY <1>2, <1>4, <1>5, <2>2
    <3>2. y \in Children
      BY <1>2, <2>2, <3>1
    <3>3. up(y, Parent[x])
      BY <1>2, <2>2, <3>2 DEF up
    <3>4. y = Parent[x]
      BY <1>2, <1>8, <3>1, <3>3
    <3>5. Parent[y] = y
      BY <2>2, <3>4
    <3> QED
      BY <1>2, <1>3, <3>2, <3>5
  <2> QED
    BY <1>10, <2>1, <2>2
<1> QED
  BY <1>1, <1>6, <1>7, <1>8, <1>9, <1>10

-----------------------------------------------------------------------------
(* The places and the order of the objects.                                *)

Placed ==
  /\ \A a \in Attrs : Live(a) =>
       /\ Place(a) \in 1..Len(vec[Parent[a]]) /\ vec[Parent[a]][Place(a)] = a
       /\ \A b \in Attrs : a \in Subtree(b) => Live(b)
  /\ \A p \in Attrs \cup {Server} :
       /\ vec[p] \in Seq(Attrs)
       /\ \A i \in 1..Len(vec[p]) :
            /\ vec[p][i] \in Attrs /\ Live(vec[p][i]) /\ Parent[vec[p][i]] = p
            /\ Place(vec[p][i]) = i

LEMMA PlaceIs == Contained => Placed
<1> SUFFICES ASSUME Contained PROVE Placed
  OBVIOUS
<1>1. ASSUME NEW p \in Attrs \cup {Server}
      PROVE  /\ vec[p] \in Seq(Attrs) /\ DOMAIN vec[p] = 1..Len(vec[p])
             /\ \A i, j \in 1..Len(vec[p]) : vec[p][i] = vec[p][j] => i = j
             /\ \A a : a \in ToSet(vec[p]) <=> \E i \in 1..Len(vec[p]) : vec[p][i] = a
             /\ \A a \in ToSet(vec[p]) : a \in Attrs /\ Parent[a] = p /\ Live(a)
  <2>1. vec[p] \in Seq(Attrs) /\ IsInjective(vec[p]) /\ \A a \in ToSet(vec[p]) : Parent[a] = p /\ Live(a)
    BY DEF Contained, Live
  <2>2. ToSet(vec[p]) \subseteq Attrs
    BY <2>1, Members
  <2>3. \A a : a \in ToSet(vec[p]) <=> \E i \in 1..Len(vec[p]) : vec[p][i] = a
    BY <2>1, Members
  <2> QED
    BY <2>1, <2>2, <2>3 DEF IsInjective
<1>2. ASSUME NEW a \in Attrs, Live(a)
      PROVE  Parent[a] \in Attrs \cup {Server} /\ a \in ToSet(vec[Parent[a]])
  BY <1>2, TreeIs DEF Contained
<1>3. ASSUME NEW a \in Attrs, Live(a)
      PROVE  Place(a) \in 1..Len(vec[Parent[a]]) /\ vec[Parent[a]][Place(a)] = a
  <2>1. PICK p \in Attrs \cup {Server} : p = Parent[a] /\ a \in ToSet(vec[p])
    BY <1>2, <1>3
  <2>2. DOMAIN vec[p] = 1..Len(vec[p]) /\ \E i \in 1..Len(vec[p]) : vec[p][i] = a
    BY <1>1, <2>1
  <2> QED
    BY <2>1, <2>2 DEF Place
<1>4. ASSUME NEW p \in Attrs \cup {Server}, NEW i \in 1..Len(vec[p])
      PROVE  /\ vec[p][i] \in Attrs /\ Live(vec[p][i]) /\ Parent[vec[p][i]] = p
             /\ Place(vec[p][i]) = i
  <2>1. vec[p][i] \in Attrs /\ Live(vec[p][i]) /\ Parent[vec[p][i]] = p
    BY <1>1
  <2>2. Place(vec[p][i]) \in 1..Len(vec[p]) /\ vec[p][Place(vec[p][i])] = vec[p][i]
    BY <1>3, <2>1
  <2> QED
    BY <1>1, <2>1, <2>2
<1>5. ASSUME NEW a \in Attrs, Live(a), NEW b \in Attrs, a \in Subtree(b) PROVE Live(b)
  <2>1. a = b \/ (a \in Children /\ (b = Parent[a] \/ b = Parent[Parent[a]]))
    BY <1>5, SubtreeIs
  <2>2. Parent[a] \in Attrs => Live(Parent[a])
    BY <1>5 DEF Contained
  <2>3. Parent[a] \in Attrs /\ Parent[Parent[a]] \in Attrs => Live(Parent[Parent[a]])
    BY <2>2 DEF Contained
  <2> QED
    BY <1>5, <2>1, <2>2, <2>3, TreeIs
<1> QED
  BY <1>1, <1>3, <1>4, <1>5 DEF Placed

\* The way down to a member of a subtree.
LEMMA WayDown ==
  /\ \A a, b \in Attrs : a \in Subtree(b) /\ a # b =>
       a \in Children /\ \E c \in Children : a \in Subtree(c) /\ Parent[c] = b
  /\ \A a \in Attrs, c \in Children : a \in Subtree(c) /\ a # c /\ Parent[c] \in Services =>
       Parent[a] = c
<1>1. ASSUME NEW a \in Attrs, NEW b \in Attrs, a \in Subtree(b), a # b
      PROVE  a \in Children /\ \E c \in Children : a \in Subtree(c) /\ Parent[c] = b
  <2>1. a \in Children /\ (b = Parent[a] \/ b = Parent[Parent[a]]) /\ a \in Subtree(a)
    BY <1>1, SubtreeIs
  <2>2. CASE b = Parent[a]
    BY <2>1, <2>2
  <2>3. CASE b # Parent[a]
    <3>1. Parent[a] \in Attrs /\ Parent[a] \notin Services
      BY <1>1, <2>1, <2>3, TreeIs
    <3>2. Parent[a] \in Children /\ a \in Subtree(Parent[a])
      BY <2>1, <3>1, SubtreeIs, TreeIs
    <3> QED
      BY <2>1, <2>3, <3>2
  <2> QED
    BY <2>1, <2>2, <2>3
<1>2. ASSUME NEW a \in Attrs, NEW c \in Children, a \in Subtree(c), a # c, Parent[c] \in Services
      PROVE  Parent[a] = c
  <2>1. c \in Attrs /\ c \notin Services
    BY TreeIs DEF Attrs
  <2>2. a \in Children /\ (c = Parent[a] \/ c = Parent[Parent[a]])
    BY <1>2, <2>1, SubtreeIs
  <2>3. Parent[a] \in Attrs
    BY <2>2, TreeIs
  <2>4. Parent[a] \in Services => Parent[Parent[a]] = Server
    BY <2>3, TreeIs
  <2>5. Parent[a] \in Children => Parent[Parent[a]] \in Services
    BY <1>2, <2>2, TreeIs
  <2> QED
    BY <2>1, <2>2, <2>3, <2>4, <2>5, TreeIs DEF Attrs
<1> QED
  BY <1>1, <1>2

\* Before() orders the objects that exist strictly and totally.
InTreeOrder ==
  /\ \A a \in Attrs : Live(a) => ~Before(a, a)
  /\ \A a, b \in Attrs : Live(a) /\ Live(b) /\ a # b => Before(a, b) \/ Before(b, a)
  /\ \A a, b, c \in Attrs :
       Live(a) /\ Live(b) /\ Live(c) /\ Before(a, b) /\ Before(b, c) => Before(a, c)

LEMMA OrderIs == Contained => InTreeOrder
<1> SUFFICES ASSUME Contained PROVE InTreeOrder
  OBVIOUS
<1>1. Placed
  BY PlaceIs
<1>2. \A a \in Attrs : Live(a) => Place(a) \in Nat
  BY <1>1 DEF Placed
<1>3. ASSUME NEW x \in Attrs, NEW y \in Attrs, Live(x), Live(y), Parent[x] = Parent[y], x # y
      PROVE  Place(x) < Place(y) \/ Place(y) < Place(x)
  <2>1. Place(x) # Place(y)
    BY <1>1, <1>3 DEF Placed
  <2> QED
    BY <1>2, <1>3, <2>1
<1>4. ASSUME NEW a \in Attrs, NEW b \in Attrs, Live(a), Live(b),
             NEW x \in Attrs, NEW y \in Attrs, a \in Subtree(x), b \in Subtree(y),
             Parent[x] = Parent[y], x # y
      PROVE  Before(a, b) \/ Before(b, a)
  <2>1. Live(x) /\ Live(y)
    BY <1>1, <1>4 DEF Placed
  <2>2. Place(x) < Place(y) \/ Place(y) < Place(x)
    BY <1>3, <1>4, <2>1
  <2> QED
    BY <1>4, <2>2 DEF Before
<1>5. ASSUME NEW a \in Attrs, Live(a) PROVE ~Before(a, a)
  <2>1. ASSUME NEW x \in Attrs, NEW y \in Attrs, a \in Subtree(x), a \in Subtree(y),
               Parent[x] = Parent[y], Place(x) < Place(y)
        PROVE  FALSE
    <3>1. x = y /\ Live(x)
      BY <1>1, <1>5, <2>1, SubtreesNest DEF Placed
    <3> QED
      BY <1>2, <2>1, <3>1
  <2> QED
    BY <2>1 DEF Before
<1>6. ASSUME NEW a \in Attrs, NEW b \in Attrs, Live(a), Live(b), a # b
      PROVE  Before(a, b) \/ Before(b, a)
  <2>1. PICK r \in Services : a \in Subtree(r)
    BY SubtreeIs
  <2>2. PICK q \in Services : b \in Subtree(q)
    BY SubtreeIs
  <2>3. r \in Attrs /\ q \in Attrs /\ Parent[r] = Parent[q]
    BY TreeIs DEF Attrs
  <2>4. CASE r # q
    BY <1>4, <1>6, <2>1, <2>2, <2>3, <2>4
  <2>5. CASE b \in Subtree(a) \/ a \in Subtree(b)
    BY <1>6, <2>5 DEF Before
  <2>6. CASE r = q /\ ~(b \in Subtree(a) \/ a \in Subtree(b))
    <3>1. a # r /\ b # r
      BY <2>1, <2>2, <2>6
    <3>2. PICK c \in Children : a \in Subtree(c) /\ Parent[c] = r
      BY <2>1, <2>3, <3>1, WayDown
    <3>3. PICK d \in Children : b \in Subtree(d) /\ Parent[d] = r
      BY <2>2, <2>3, <2>6, <3>1, WayDown
    <3>4. c \in Attrs /\ d \in Attrs
      BY DEF Attrs
    <3>5. CASE c # d
      BY <1>4, <1>6, <3>2, <3>3, <3>4, <3>5
    <3>6. CASE c = d
      <4>1. a # c /\ b # c
        BY <2>6, <3>2, <3>3, <3>6
      <4>2. Parent[a] = c /\ Parent[b] = c
        BY <3>2, <3>3, <3>6, <4>1, WayDown
      <4>3. a \in Subtree(a) /\ b \in Subtree(b)
        BY SubtreeIs
      <4> QED
        BY <1>4, <1>6, <4>2, <4>3
    <3> QED
      BY <3>5, <3>6
  <2> QED
    BY <2>4, <2>5, <2>6
<1>7. ASSUME NEW a \in Attrs, NEW b \in Attrs, NEW c \in Attrs, Live(a), Live(b), Live(c),
             Before(a, b), Before(b, c)
      PROVE  Before(a, c)
  <2> DEFINE sib(a1, b1, x, y) ==
        a1 \in Subtree(x) /\ b1 \in Subtree(y) /\ Parent[x] = Parent[y] /\ Place(x) < Place(y)
  <2>0. ASSUME NEW x \in Attrs, NEW y \in Attrs, sib(a, c, x, y) PROVE Before(a, c)
    BY <2>0 DEF Before
  <2>1. CASE b \in Subtree(a) \ {a} /\ c \in Subtree(b) \ {b}
    <3>1. c \in Subtree(a) /\ c # a
      BY <2>1, SubtreesNest
    <3> QED
      BY <3>1 DEF Before
  <2>2. ASSUME b \in Subtree(a) \ {a}, NEW y \in Attrs, NEW z \in Attrs, sib(b, c, y, z)
        PROVE  Before(a, c)
    <3>1. CASE a \in Subtree(y)
      BY <2>0, <2>2, <3>1
    <3>2. CASE a \notin Subtree(y)
      <4>1. y \in Subtree(a) /\ y # a
        BY <2>2, <3>2, SubtreesNest, SubtreeIs
      <4>2. z \in Subtree(a)
        BY <2>2, <4>1, SubtreesNest
      <4>3. c \in Subtree(a)
        BY <2>2, <4>2, SubtreesNest
      <4>4. c # a
        <5>1. ASSUME c = a PROVE FALSE
          <6>1. a \in Subtree(z)
            BY <2>2, <5>1
          <6>2. a = z
            BY <4>2, <6>1, SubtreesNest
          <6>3. b \in Subtree(y) /\ y \in Subtree(z) /\ y # z
            BY <2>2, <4>1, <6>2
          <6>4. z \in Subtree(z) /\ Parent[z] = Parent[y]
            BY <2>2, SubtreeIs
          <6>5. y \in Subtree(y)
            BY SubtreeIs
          <6> QED
            BY <6>3, <6>4, <6>5, SubtreesNest
        <5> QED
          BY <5>1
      <4> QED
        BY <4>3, <4>4 DEF Before
    <3> QED
      BY <3>1, <3>2
  <2>3. ASSUME c \in Subtree(b) \ {b}, NEW x \in Attrs, NEW y \in Attrs, sib(a, b, x, y)
        PROVE  Before(a, c)
    <3>1. c \in Subtree(y)
      BY <2>3, SubtreesNest
    <3> QED
      BY <2>0, <2>3, <3>1
  <2>4. ASSUME NEW x \in Attrs, NEW y \in Attrs, NEW u \in Attrs, NEW v \in Attrs,
               sib(a, b, x, y), sib(b, c, u, v)
        PROVE  Before(a, c)
    <3>1. y \in Subtree(u) \/ u \in Subtree(y)
      BY <2>4, SubtreesNest
    <3>2. CASE u = y
      <4>1. Live(x) /\ Live(y) /\ Live(v)
        BY <1>1, <1>7, <2>4 DEF Placed
      <4>2. Place(x) < Place(v)
        BY <1>2, <2>4, <3>2, <4>1
      <4> QED
        BY <2>0, <2>4, <3>2, <4>2
    <3>3. CASE u # y /\ u \in Subtree(y)
      <4>1. v \in Subtree(y)
        BY <2>4, <3>3, SubtreesNest
      <4>2. c \in Subtree(y)
        BY <2>4, <4>1, SubtreesNest
      <4> QED
        BY <2>0, <2>4, <4>2
    <3>4. CASE u # y /\ y \in Subtree(u)
      <4>1. x \in Subtree(u)
        BY <2>4, <3>4, SubtreesNest
      <4>2. a \in Subtree(u)
        BY <2>4, <4>1, SubtreesNest
      <4> QED
        BY <2>0, <2>4, <4>2
    <3> QED
      BY <3>1, <3>2, <3>3, <3>4
  <2>5. b \in Subtree(a) \ {a} \/ \E x, y \in Attrs : sib(a, b, x, y)
    BY <1>7 DEF Before
  <2>6. c \in Subtree(b) \ {b} \/ \E x, y \in Attrs : sib(b, c, x, y)
    BY <1>7 DEF Before
  <2> HIDE DEF sib
  <2> QED
    BY <2>1, <2>2, <2>3, <2>4, <2>5, <2>6
<1> QED
  BY <1>5, <1>6, <1>7 DEF InTreeOrder

\* Objects go with all that they own: the others stay, in their order.
LEMMA DeletionKeeps ==
  ASSUME Contained, NEW D \in SUBSET Attrs, \A c \in Children : Parent[c] \in D => c \in D,
         vec' = Without(D), att' \in [Attrs -> Attribute],
         \A a \in Attrs :
           IF a \in D /\ Live(a) THEN att'[a] = Gone
           ELSE /\ att'[a].state = att[a].state /\ att'[a].removed = att[a].removed
                /\ att'[a].handle \in {0, att[a].handle}
  PROVE  /\ Contained'
         /\ \A a \in Attrs : Live(a)' <=> Live(a) /\ a \notin D
         /\ \A a, b \in Attrs : Live(a)' /\ Live(b)' => (Before(a, b)' <=> Before(a, b))
         /\ \A a \in Attrs : Live(a)' => (Removed(a)' <=> Removed(a))
         /\ \A a \in Attrs : Exposed(a)' <=> Exposed(a) /\ a \notin D
         /\ Len(vec'[Server]) \in 0..Len(vec[Server])
         /\ \A m \in 0..Len(vec[Server]) :
              (\A i \in 1..m : vec[Server][i] \notin D) =>
                m <= Len(vec'[Server]) /\ \A i \in 1..m : vec'[Server][i] = vec[Server][i]
<1>1. \A a \in Attrs : Live(a)' <=> Live(a) /\ a \notin D
  BY DEF Live, Gone
<1>2. \A a \in Attrs : Live(a)' => (Removed(a)' <=> Removed(a))
  BY <1>1 DEF Live, Removed
<1>3. ASSUME NEW p \in Attrs \cup {Server}
      PROVE  /\ vec[p] \in Seq(Attrs) /\ IsInjective(vec[p])
             /\ \A a \in ToSet(vec[p]) : a \in Attrs /\ Parent[a] = p /\ Live(a)
             /\ vec'[p] = IF p \in D THEN << >> ELSE Kept(vec[p], D)
  <2>1. /\ vec[p] \in Seq(Attrs) /\ IsInjective(vec[p])
        /\ \A a \in ToSet(vec[p]) : Parent[a] = p /\ Live(a)
    BY DEF Contained, Live
  <2>2. ToSet(vec[p]) \subseteq Attrs
    BY <2>1, Members
  <2> QED
    BY <2>1, <2>2 DEF Without
<1>4. ASSUME NEW p \in Attrs \cup {Server}, p \notin D
      PROVE  /\ vec'[p] \in Seq(Attrs) /\ IsInjective(vec'[p])
             /\ ToSet(vec'[p]) = ToSet(vec[p]) \ D
             /\ Len(vec'[p]) <= Len(vec[p])
             /\ \A i, j \in 1..Len(vec'[p]), m, n \in 1..Len(vec[p]) :
                  vec'[p][i] = vec[p][m] /\ vec'[p][j] = vec[p][n] => (i < j <=> m < n)
             /\ \A m \in 0..Len(vec[p]) :
                  (\A i \in 1..m : vec[p][i] \notin D) =>
                    m <= Len(vec'[p]) /\ \A i \in 1..m : vec'[p][i] = vec[p][i]
  <2>1. PICK s \in Seq(Attrs) : s = vec[p] /\ IsInjective(s)
    BY <1>3
  <2>2. vec'[p] = Kept(s, D)
    BY <1>3, <1>4, <2>1
  <2>3. /\ Kept(s, D) \in Seq(Attrs) /\ IsInjective(Kept(s, D))
        /\ ToSet(Kept(s, D)) = ToSet(s) \ D
        /\ Len(Kept(s, D)) <= Len(s)
        /\ \A i, j \in 1..Len(Kept(s, D)), m, n \in 1..Len(s) :
             Kept(s, D)[i] = s[m] /\ Kept(s, D)[j] = s[n] => (i < j <=> m < n)
        /\ \A m \in 0..Len(s) :
             (\A i \in 1..m : s[i] \notin D) =>
               m <= Len(Kept(s, D)) /\ \A i \in 1..m : Kept(s, D)[i] = s[i]
    BY <2>1, KeptIs
  <2> QED
    BY <2>1, <2>2, <2>3
<1>5. ASSUME NEW p \in Attrs \cup {Server}, p \in D
      PROVE  vec'[p] = << >> /\ vec'[p] \in Seq(Attrs) /\ IsInjective(vec'[p]) /\ ToSet(vec'[p]) = {}
  <2>1. vec'[p] = << >>
    BY <1>3, <1>5
  <2>2. << >> \in Seq(Attrs) /\ ToSet(<< >>) = {} /\ IsInjective(<< >>)
    BY DEF ToSet, IsInjective
  <2> QED
    BY <2>1, <2>2
<1>6. \A a \in Attrs : Live(a)' => Parent[a] \in Attrs \cup {Server} /\ Parent[a] \notin D
  BY <1>1, TreeIs DEF Attrs
<1>7. Contained'
  <2>1. vec' \in [Attrs \cup {Server} -> Seq(Attrs)]
    <3>1. vec' = [p \in Attrs \cup {Server} |-> vec'[p]]
      BY DEF Without
    <3>2. \A p \in Attrs \cup {Server} : vec'[p] \in Seq(Attrs)
      BY <1>4, <1>5
    <3> QED
      BY <3>1, <3>2
  <2>2. ASSUME NEW p \in Attrs \cup {Server}
        PROVE  /\ IsInjective(vec'[p])
               /\ \A a \in ToSet(vec'[p]) : Parent[a] = p /\ att'[a].state = "live"
    <3>1. \A a \in ToSet(vec'[p]) : a \in ToSet(vec[p]) /\ a \notin D
      <4>1. CASE p \in D
        BY <1>5, <4>1
      <4>2. CASE p \notin D
        BY <1>4, <4>2
      <4> QED
        BY <4>1, <4>2
    <3>2. \A a \in ToSet(vec'[p]) : Parent[a] = p /\ Live(a)'
      BY <1>1, <1>3, <3>1
    <3> QED
      BY <1>4, <1>5, <3>2 DEF Live
  <2>3. ASSUME NEW a \in Attrs, Live(a)'
        PROVE  a \in ToSet(vec'[Parent[a]]) /\ (Parent[a] \in Attrs => Live(Parent[a])')
    <3>1. Live(a) /\ a \notin D
      BY <1>1, <2>3
    <3>2. a \in ToSet(vec[Parent[a]]) /\ (Parent[a] \in Attrs => Live(Parent[a]))
      BY <3>1 DEF Contained
    <3> QED
      BY <1>1, <1>4, <1>6, <2>3, <3>1, <3>2
  <2>4. ASSUME NEW a \in Attrs, ~Live(a)' PROVE att'[a].handle = 0
    <3>1. CASE a \in D /\ Live(a)
      BY <3>1 DEF Gone
    <3>2. CASE ~(a \in D /\ Live(a))
      <4>1. ~Live(a)
        BY <1>1, <2>4, <3>2
      <4> QED
        BY <3>2, <4>1 DEF Contained
    <3> QED
      BY <3>1, <3>2
  <2> QED
    BY <2>1, <2>2, <2>3, <2>4 DEF Contained, Live
<1>8. Placed /\ Placed'
  <2>1. Contained' => Placed'
    BY PlaceIs, PTL
  <2> QED
    BY <1>7, <2>1, PlaceIs
<1>9. ASSUME NEW x \in Attrs, NEW y \in Attrs, Live(x)', Live(y)', Parent[x] = Parent[y]
      PROVE  Place(x)' < Place(y)' <=> Place(x) < Place(y)
  <2>1. Live(x) /\ Live(y)
    BY <1>1, <1>9
  <2>2. PICK p \in Attrs \cup {Server} : p = Parent[x] /\ p = Parent[y] /\ p \notin D
    BY <1>6, <1>9
  <2>3. Place(x) \in 1..Len(vec[p]) /\ vec[p][Place(x)] = x /\ Place(y) \in 1..Len(vec[p]) /\ vec[p][Place(y)] = y
    BY <1>8, <2>1, <2>2 DEF Placed
  <2>4. /\ Place(x)' \in 1..Len(vec'[p]) /\ vec'[p][Place(x)'] = x
        /\ Place(y)' \in 1..Len(vec'[p]) /\ vec'[p][Place(y)'] = y
    BY <1>8, <1>9, <2>2 DEF Placed
  <2> QED
    BY <1>4, <2>2, <2>3, <2>4
<1>10. ASSUME NEW a \in Attrs, NEW b \in Attrs, Live(a)', Live(b)'
       PROVE  Before(a, b)' <=> Before(a, b)
  <2>1. ASSUME NEW x \in Attrs, NEW y \in Attrs, a \in Subtree(x), b \in Subtree(y), Parent[x] = Parent[y]
        PROVE  Place(x)' < Place(y)' <=> Place(x) < Place(y)
    <3>1. Live(x)' /\ Live(y)'
      BY <1>8, <1>10, <2>1 DEF Placed
    <3> QED
      BY <1>9, <2>1, <3>1
  <2> QED
    BY <2>1 DEF Before
<1>11. Server \in Attrs \cup {Server} /\ Server \notin D
  BY TreeIs
<1>12. Len(vec'[Server]) \in 0..Len(vec[Server])
  BY <1>3, <1>4, <1>11
<1>13. ASSUME NEW a \in Attrs PROVE Exposed(a)' <=> Exposed(a) /\ a \notin D
  <2>1. \A b \in Attrs : Live(a)' /\ a \in Subtree(b) => (Removed(b)' <=> Removed(b))
    BY <1>2, <1>8 DEF Placed
  <2> QED
    BY <1>1, <2>1 DEF Exposed
<1> QED
  BY <1>1, <1>2, <1>4, <1>7, <1>10, <1>11, <1>12, <1>13

-----------------------------------------------------------------------------
(* What a list of attributes shows.                                        *)

LEMMA ShowsIs ==
  ASSUME Contained, NEW q \in Seq(Attrs), NEW A, Shows(q, A), \A a \in A : Live(a)
  PROVE  /\ IsInjective(q) /\ A \subseteq Attrs
         /\ \A i \in 1..Len(q) : q[i] \in A
         /\ \A a \in A : \E i \in 1..Len(q) : q[i] = a
         /\ \A i, j \in 1..Len(q) : i < j <=> Before(q[i], q[j])
<1>1. InTreeOrder
  BY OrderIs
<1>2. /\ ToSet(q) = A /\ DOMAIN q = 1..Len(q)
      /\ \A i, j \in 1..Len(q) : i < j => Before(q[i], q[j])
  BY DEF Shows
<1>3. /\ A \subseteq Attrs /\ \A i \in 1..Len(q) : q[i] \in A
      /\ \A a \in A : \E i \in 1..Len(q) : q[i] = a
  BY <1>2, Members
<1>4. ASSUME NEW i \in 1..Len(q), NEW j \in 1..Len(q) PROVE i < j <=> Before(q[i], q[j])
  <2>1. q[i] \in Attrs /\ q[j] \in Attrs /\ Live(q[i]) /\ Live(q[j])
    BY <1>3
  <2>2. ~Before(q[i], q[i]) /\ (Before(q[i], q[j]) => ~Before(q[j], q[i]))
    BY <1>1, <2>1 DEF InTreeOrder
  <2>3. i < j \/ j < i \/ i = j
    OBVIOUS
  <2> QED
    BY <1>2, <2>2, <2>3
<1>5. ASSUME NEW i \in 1..Len(q), NEW j \in 1..Len(q), q[i] = q[j] PROVE i = j
  <2>1. ~Before(q[i], q[j]) /\ ~Before(q[j], q[i])
    BY <1>1, <1>3, <1>5 DEF InTreeOrder
  <2> QED
    BY <1>4, <2>1
<1> QED
  BY <1>2, <1>3, <1>4, <1>5 DEF IsInjective

\* Two lists, the first before the second.
LEMMA ShowsBoth ==
  ASSUME NEW u \in Seq(Attrs), NEW v \in Seq(Attrs), NEW A, NEW B, Shows(u, A), Shows(v, B),
         \A a \in A, b \in B : Before(a, b)
  PROVE  Shows(u \o v, A \cup B)
<1>1. /\ ToSet(u) = A /\ DOMAIN u = 1..Len(u) /\ \A i, j \in 1..Len(u) : i < j => Before(u[i], u[j])
      /\ ToSet(v) = B /\ DOMAIN v = 1..Len(v) /\ \A i, j \in 1..Len(v) : i < j => Before(v[i], v[j])
  BY DEF Shows
<1>2. /\ u \o v \in Seq(Attrs) /\ Len(u \o v) = Len(u) + Len(v)
      /\ \A i \in 1..(Len(u) + Len(v)) : (u \o v)[i] = IF i <= Len(u) THEN u[i] ELSE v[i - Len(u)]
  BY ConcatProperties
<1>3. ToSet(u \o v) = A \cup B
  BY <1>1, ConcatLemma
<1>4. (\A i \in 1..Len(u) : u[i] \in A) /\ (\A i \in 1..Len(v) : v[i] \in B)
  BY <1>1, Members
<1>5. ASSUME NEW i \in 1..(Len(u) + Len(v)), NEW j \in 1..(Len(u) + Len(v)), i < j
      PROVE  Before((u \o v)[i], (u \o v)[j])
  <2>1. Len(u) \in Nat /\ Len(v) \in Nat
    OBVIOUS
  <2>2. CASE j <= Len(u)
    <3>1. i \in 1..Len(u) /\ j \in 1..Len(u) /\ i <= Len(u)
      BY <1>5, <2>1, <2>2
    <3>2. (u \o v)[i] = u[i] /\ (u \o v)[j] = u[j]
      BY <1>2, <2>2, <3>1
    <3> QED
      BY <1>1, <1>5, <3>1, <3>2
  <2>3. CASE i <= Len(u) /\ ~(j <= Len(u))
    <3>1. i \in 1..Len(u) /\ j - Len(u) \in 1..Len(v)
      BY <1>5, <2>1, <2>3
    <3>2. (u \o v)[i] = u[i] /\ (u \o v)[j] = v[j - Len(u)]
      BY <1>2, <2>3
    <3> QED
      BY <1>4, <3>1, <3>2
  <2>4. CASE ~(i <= Len(u))
    <3>1. i - Len(u) \in 1..Len(v) /\ j - Len(u) \in 1..Len(v) /\ i - Len(u) < j - Len(u) /\ ~(j <= Len(u))
      BY <1>5, <2>1, <2>4
    <3>2. (u \o v)[i] = v[i - Len(u)] /\ (u \o v)[j] = v[j - Len(u)]
      BY <1>2, <2>4, <3>1
    <3> QED
      BY <1>1, <3>1, <3>2
  <2> QED
    BY <2>2, <2>3, <2>4
<1> QED
  BY <1>2, <1>3, <1>5 DEF Shows

\* A service is handed to the stack with all that it exposes, in order.
LEMMA DefinitionIs ==
  ASSUME Contained, NEW s \in Services
  PROVE  Definition(s) \in Seq(Attrs) /\ Shows(Definition(s), {a \in Subtree(s) : Exposed(a)})
<1> DEFINE E == {a \in Subtree(s) : Exposed(a)}
           R == {p \in E \X E : Before(p[1], p[2])}
<1>1. E \subseteq Attrs /\ \A a \in E : Live(a)
  BY SubtreeIs DEF Exposed, Attrs
<1>2. IsFiniteSet(E)
  BY <1>1, ServerAssumption, FS_Subset DEF ServerAssumption
<1>3. \A a, b \in E : <<a, b>> \in R <=> Before(a, b)
  OBVIOUS
<1>4. Definition(s) = InOrder(E, R)
  BY DEF Definition
<1>5. PICK T : T = R
  OBVIOUS
<1>6. PICK F : F = E
  OBVIOUS
<1> HIDE DEF E, R
<1>7. StrictOrder(T, F)
  BY <1>1, <1>3, <1>5, <1>6, OrderIs DEF StrictOrder, InTreeOrder
<1>8. LET q == InOrder(F, T)
      IN  q \in Seq(F) /\ ToSet(q) = F /\ \A i, j \in 1..Len(q) : i < j => <<q[i], q[j]>> \in T
  BY <1>2, <1>6, <1>7, InOrderIs
<1>9. PICK q \in Seq(F) : q = Definition(s)
  BY <1>4, <1>5, <1>6, <1>8
<1>10. ToSet(q) = F /\ \A i, j \in 1..Len(q) : i < j => <<q[i], q[j]>> \in T
  BY <1>4, <1>5, <1>6, <1>8, <1>9
<1>11. DOMAIN q = 1..Len(q) /\ q \in Seq(Attrs) /\ \A i \in 1..Len(q) : q[i] \in E
  BY <1>1, <1>6, <1>9
<1>12. \A i, j \in 1..Len(q) : i < j => Before(q[i], q[j])
  BY <1>3, <1>5, <1>10, <1>11
<1> QED
  BY <1>6, <1>9, <1>10, <1>11, <1>12 DEF Shows, E

\* The order does not change with what the containers do not show.
LEMMA OrderStays ==
  ASSUME vec' = vec
  PROVE  /\ \A a : Place(a)' = Place(a)
         /\ \A a, b : Before(a, b)' <=> Before(a, b)
<1>1. ASSUME NEW a PROVE Place(a)' = Place(a)
  BY DEF Place
<1>2. ASSUME NEW a, NEW b PROVE Before(a, b)' <=> Before(a, b)
  BY <1>1 DEF Before
<1> QED
  BY <1>1, <1>2

LEMMA ExposedIs ==
  /\ \A a \in Services : Exposed(a) <=> Live(a) /\ ~Removed(a)
  /\ Contained => \A a \in Children : Exposed(a) <=> Live(a) /\ ~Removed(a) /\ Exposed(Parent[a])
<1>1. ASSUME NEW a \in Services PROVE Exposed(a) <=> Live(a) /\ ~Removed(a)
  BY SubtreeIs DEF Exposed, Attrs
<1>2. ASSUME Contained, NEW a \in Children
      PROVE  Exposed(a) <=> Live(a) /\ ~Removed(a) /\ Exposed(Parent[a])
  <2>1. a \in Attrs /\ Parent[a] \in Attrs /\ (Live(a) => Live(Parent[a]))
    BY <1>2, TreeIs DEF Attrs, Contained
  <2>2. \A b \in Attrs : a \in Subtree(b) <=> a = b \/ Parent[a] \in Subtree(b)
    BY SubtreeIs
  <2> QED
    BY <2>1, <2>2 DEF Exposed
<1> QED
  BY <1>1, <1>2

-----------------------------------------------------------------------------
(* The invariant of start() and of the table.                              *)

\* A table lists each attribute once, and none that was never created; nobody
\* connects while start() gives the services to the stack.
TablesOK ==
  /\ run \in Run /\ stk \in Stack /\ hist \in History
  /\ IsInjective(stk.table)
  /\ \A a \in ToSet(stk.table) : att[a].state # "none"
  /\ run.pc = "reset" => run.i = 1
  /\ run.pc \in {"register", "callback"} => ~stk.adv

\* resetGATT() has been through the services before run.i: the stack has what they
\* expose, and no handle of theirs is left.
Handed(a) == \E s \in Services : a \in Subtree(s) /\ Place(s) < run.i
Registering ==
  run.pc = "register" =>
    /\ run.i \in 1..(Len(vec[Server]) + 1)
    /\ stk.links = {} =>
         /\ Shows(stk.defs, {a \in Wanted : Handed(a)})
         /\ \A a \in Attrs : Live(a) /\ Handed(a) => att[a].handle = 0

\* The callback has been through the entries before run.i: their objects have the
\* handles, and the entry that follows finds its parent.
Reporting ==
  run.pc = "callback" =>
    /\ run.i \in 1..(Len(stk.table) + 1)
    /\ Shows(stk.table, Wanted)
    /\ \A a \in Attrs :
         att[a].handle # 0 => att[a].handle < run.i /\ stk.table[att[a].handle] = a
    /\ \A k \in 1..(run.i - 1) : att[stk.table[k]].handle = k
    /\ \A m \in run.i..Len(stk.table), k \in 1..(run.i - 1) :
         Parent[stk.table[m]] = stk.table[k] => KnownParent(stk.table[m]) = stk.table[k]

\* While the server is started the handles are those of the table.
Served ==
  srv.started =>
    /\ \A a \in Attrs :
         att[a].handle # 0 => att[a].handle \in DOMAIN stk.table /\ stk.table[att[a].handle] = a
    /\ \A h \in DOMAIN stk.table : Live(stk.table[h]) => att[stk.table[h]].handle = h
    /\ ~srv.changed /\ ~hist.missed => Shows(stk.table, Wanted)

TablesInv == Contained /\ TablesOK /\ Registering /\ Reporting /\ Served

\* What the objects expose depends on nothing but their removal.
LEMMA WantedStays ==
  ASSUME \A a \in Attrs : (Live(a)' <=> Live(a)) /\ (Removed(a)' <=> Removed(a))
  PROVE  Wanted' = Wanted /\ \A a \in Attrs : Exposed(a)' <=> Exposed(a)
<1>1. ASSUME NEW a \in Attrs PROVE Exposed(a)' <=> Exposed(a)
  BY DEF Exposed
<1> QED
  BY <1>1 DEF Wanted

LEMMA ShowsStays ==
  ASSUME vec' = vec, NEW q, NEW A
  PROVE  Shows(q, A)' <=> Shows(q, A)
BY OrderStays DEF Shows

\* The steps that leave objects, containers and table alone.
LEMMA TablesStay ==
  ASSUME TablesInv, UNCHANGED <<att, vec, run, hist, stk.table, stk.defs>>, stk' \in Stack,
         run.pc = "register" => stk'.links = stk.links,
         run.pc \in {"register", "callback"} => ~stk'.adv,
         srv'.started => srv.started /\ srv'.changed = srv.changed
  PROVE  TablesInv'
<1>1. \A a : (Live(a)' <=> Live(a)) /\ (Removed(a)' <=> Removed(a))
  BY DEF Live, Removed
<1>2. Wanted' = Wanted
  BY <1>1, WantedStays
<1>3. \A q, A : Shows(q, A)' <=> Shows(q, A)
  BY ShowsStays
<1>4. \A a : Handed(a)' <=> Handed(a)
  BY OrderStays DEF Handed
<1>5. \A a : KnownParent(a)' = KnownParent(a)
  BY DEF KnownParent
<1>6. Contained'
  BY <1>1 DEF TablesInv, Contained
<1>7. TablesOK'
  BY DEF TablesInv, TablesOK
<1>8. Registering'
  <2>1. CASE run.pc # "register"
    BY <2>1 DEF Registering
  <2>2. CASE run.pc = "register"
    <3>1. {a \in Wanted : Handed(a)}' = {a \in Wanted : Handed(a)}
      BY <1>2, <1>4
    <3>2. Shows(stk.defs, {a \in Wanted : Handed(a)})' <=> Shows(stk.defs, {a \in Wanted : Handed(a)})
      BY <1>3, <3>1 DEF Shows
    <3> QED
      BY <1>1, <1>4, <2>2, <3>2 DEF TablesInv, Registering
  <2> QED
    BY <2>1, <2>2
<1>9. Shows(stk.table, Wanted)' <=> Shows(stk.table, Wanted)
  BY <1>2, <1>3 DEF Shows
<1>10. Reporting'
  BY <1>5, <1>9 DEF TablesInv, Reporting
<1>11. Served'
  BY <1>1, <1>9 DEF TablesInv, Served
<1> QED
  BY <1>6, <1>7, <1>8, <1>10, <1>11 DEF TablesInv

\* The events of peers and links.
LEMMA PeersKeepTables == ServerInv /\ TablesInv /\ (LinkStep \/ (HostStep /\ ~HostAdvertise)) => TablesInv'
<1> SUFFICES ASSUME ServerInv, TablesInv, LinkStep \/ (HostStep /\ ~HostAdvertise) PROVE TablesInv'
  OBVIOUS
<1>1. stk \in Stack /\ (run.pc \in {"register", "callback"} => ~stk.adv)
  BY DEF TablesInv, TablesOK
<1>2. CASE HandleConnect \/ HandleDisconnect \/ HandleConnectFailed
  <2>1. UNCHANGED <<att, vec, run, stk, hist>>
    BY <1>2 DEF HandleConnect, HandleDisconnect, HandleConnectFailed
  <2>2. srv'.started = srv.started /\ srv'.changed = srv.changed
    BY <1>2, LinksIs DEF HandleConnect, HandleDisconnect, HandleConnectFailed, ServerState
  <2> QED
    BY <1>1, <2>1, <2>2, TablesStay
<1>3. CASE LinkFails
  BY <1>1, <1>3, TablesStay DEF LinkFails, Stack
<1>4. ASSUME NEW p \in Peers, LinkUp(p) PROVE TablesInv'
  <2>1. UNCHANGED <<att, vec, srv, run, hist>> /\ stk.adv /\ stk' = [stk EXCEPT !.links = @ \cup {p}, !.adv = FALSE]
    BY <1>4 DEF LinkUp
  <2>2. stk' \in Stack /\ stk'.table = stk.table /\ stk'.defs = stk.defs
    BY <1>1, <2>1 DEF Stack
  <2>3. run.pc \notin {"register", "callback"}
    BY <1>1, <2>1
  <2> QED
    BY <2>1, <2>2, <2>3, TablesStay
<1>5. ASSUME NEW p \in Peers, LinkDown(p) PROVE TablesInv'
  <2>1. UNCHANGED <<att, vec, srv, run, hist>> /\ run.pc # "register" /\ stk' = [stk EXCEPT !.links = @ \ {p}]
    BY <1>5 DEF LinkDown
  <2>2. stk' \in Stack /\ stk'.table = stk.table /\ stk'.defs = stk.defs /\ stk'.adv = stk.adv
    BY <1>1, <2>1 DEF Stack
  <2> QED
    BY <1>1, <2>1, <2>2, TablesStay
<1> QED
  BY <1>2, <1>3, <1>4, <1>5 DEF LinkStep, HostStep

LEMMA StartKeepsTables ==
  ASSUME ServerInv, TablesInv, NEW thread \in {"app", "host"}, NEW advertise \in BOOLEAN,
         run.pc = "idle", Start(thread, advertise)
  PROVE  TablesInv'
<1>1. /\ UNCHANGED <<att, vec, hist>> /\ srv' = Begin /\ stk \in Stack
      /\ srv \in ServerState /\ (srv'.started => srv.started /\ srv'.changed = srv.changed)
  <2>1. srv \in ServerState
    BY LinksIs
  <2>2. Begin.started => srv.started /\ Begin.changed = srv.changed
    BY <2>1 DEF Begin, ServerState
  <2> QED
    BY <2>1, <2>2 DEF Start, TablesInv, TablesOK
<1>2. CASE srv'.started
  <2>1. stk' = [stk EXCEPT !.adv = @ \/ advertise] /\ run' = run
    BY <1>2 DEF Start
  <2>2. stk' \in Stack /\ stk'.table = stk.table /\ stk'.defs = stk.defs
    BY <1>1, <2>1 DEF Stack
  <2> QED
    BY <1>1, <2>1, <2>2, TablesStay
<1>3. CASE ~srv'.started
  <2>1. stk' = stk /\ run' = [IdleRun EXCEPT !.pc = "reset", !.by = thread, !.adv = advertise]
    BY <1>3 DEF Start
  <2>2. run'.pc = "reset" /\ run'.i = 1 /\ run' \in Run
    <3>1. Cardinality(Attrs) \in Nat
      BY ServerAssumption, FS_CardinalityType DEF ServerAssumption
    <3>2. run' = [pc |-> "reset", by |-> thread, adv |-> advertise, i |-> 1, svc |-> Server, chr |-> Server]
      BY <2>1 DEF IdleRun
    <3>3. 1 \in 1..(Cardinality(Attrs) + 1)
      BY <3>1
    <3> QED
      BY <3>2, <3>3 DEF Run
  <2>3. Contained'
    BY <1>1 DEF TablesInv, Contained, Live
  <2>4. TablesOK'
    BY <1>1, <2>1, <2>2 DEF TablesInv, TablesOK
  <2> QED
    BY <1>3, <2>2, <2>3, <2>4 DEF TablesInv, Registering, Reporting, Served
<1> QED
  BY <1>2, <1>3

\* A new object is the last in its container; it has no handle yet.
LEMMA NewKeeps ==
  ASSUME TablesInv, NEW a \in Attrs, run.pc = "idle", att[a].state = "none",
         Parent[a] \in Attrs => Live(Parent[a]),
         att' = [att EXCEPT ![a].state = "live"], vec' = Appended(a),
         UNCHANGED <<run, stk>>, hist' \in History,
         srv'.started => srv.started /\ (srv'.changed \/ hist'.missed)
  PROVE  TablesInv'
<1>1. Contained /\ TablesOK /\ Served
  BY DEF TablesInv
<1>2. /\ att \in [Attrs -> Attribute] /\ att' \in [Attrs -> Attribute]
      /\ att'[a].state = "live" /\ att'[a].handle = att[a].handle
      /\ \A b \in Attrs : b # a => att'[b] = att[b]
  <2>1. att \in [Attrs -> Attribute]
    BY <1>1 DEF Contained
  <2> QED
    BY <2>1 DEF Attribute
<1>3. \A b \in Attrs : Live(b)' <=> Live(b) \/ b = a
  BY <1>2 DEF Live
<1>4. Parent[a] \in Attrs \cup {Server} /\ vec \in [Attrs \cup {Server} -> Seq(Attrs)]
  BY <1>1, TreeIs DEF Contained, Attrs
<1>5. /\ vec[Parent[a]] \in Seq(Attrs) /\ IsInjective(vec[Parent[a]])
      /\ a \notin ToSet(vec[Parent[a]])
  BY <1>1, <1>4 DEF Contained
<1>6. /\ vec'[Parent[a]] = Append(vec[Parent[a]], a)
      /\ \A p \in Attrs \cup {Server} : p # Parent[a] => vec'[p] = vec[p]
      /\ vec' \in [Attrs \cup {Server} -> Seq(Attrs)]
  BY <1>4 DEF Appended
<1>7. /\ IsInjective(vec'[Parent[a]])
      /\ ToSet(vec'[Parent[a]]) = ToSet(vec[Parent[a]]) \cup {a}
  BY <1>5, <1>6, AppendLemma
<1>8. Contained'
  <2>1. ASSUME NEW p \in Attrs \cup {Server}
        PROVE  /\ IsInjective(vec'[p])
               /\ \A b \in ToSet(vec'[p]) : Parent[b] = p /\ att'[b].state = "live"
    <3>0. ToSet(vec[p]) \subseteq Attrs
      BY <1>4, Members
    <3>1. IsInjective(vec[p]) /\ \A b \in ToSet(vec[p]) : Parent[b] = p /\ att[b].state = "live"
      BY <1>1 DEF Contained
    <3>2. \A b \in ToSet(vec[p]) : att'[b].state = "live"
      BY <1>2, <3>0, <3>1
    <3>3. CASE p # Parent[a]
      BY <1>6, <3>1, <3>2, <3>3
    <3>4. CASE p = Parent[a]
      BY <1>2, <1>7, <3>1, <3>2, <3>4
    <3> QED
      BY <3>3, <3>4
  <2>2. ASSUME NEW b \in Attrs, Live(b)'
        PROVE  b \in ToSet(vec'[Parent[b]]) /\ (Parent[b] \in Attrs => Live(Parent[b])')
    <3>1. CASE b = a
      BY <1>3, <1>7, <3>1
    <3>2. CASE b # a
      <4>1. Live(b) /\ Parent[b] \in Attrs \cup {Server}
        BY <1>3, <2>2, <3>2, TreeIs DEF Attrs
      <4>2. b \in ToSet(vec[Parent[b]]) /\ (Parent[b] \in Attrs => Live(Parent[b]))
        BY <1>1, <4>1 DEF Contained
      <4> QED
        BY <1>3, <1>6, <1>7, <4>1, <4>2
    <3> QED
      BY <3>1, <3>2
  <2>3. ASSUME NEW b \in Attrs, ~Live(b)' PROVE att'[b].handle = 0
    <3>1. ~Live(b) /\ b # a
      BY <1>3, <2>3
    <3> QED
      BY <1>1, <1>2, <3>1 DEF Contained
  <2> QED
    BY <1>2, <1>6, <2>1, <2>2, <2>3 DEF Contained
<1>9. ToSet(stk.table) \subseteq Attrs /\ a \notin ToSet(stk.table) /\ \A h \in DOMAIN stk.table : stk.table[h] \in ToSet(stk.table)
  <2>1. stk.table \in Seq(Attrs)
    BY <1>1 DEF TablesOK, Stack
  <2>2. DOMAIN stk.table = 1..Len(stk.table)
    BY <2>1
  <2> QED
    BY <1>1, <2>1, <2>2, Members DEF TablesOK
<1>10. TablesOK'
  BY <1>1, <1>2, <1>9 DEF TablesOK
<1>11. Served'
  <2>1. ASSUME NEW b \in Attrs PROVE att'[b].handle = att[b].handle
    BY <1>2
  <2>2. \A h \in DOMAIN stk.table : stk.table[h] \in Attrs /\ stk.table[h] # a
    BY <1>9
  <2>3. \A h \in DOMAIN stk.table : Live(stk.table[h])' <=> Live(stk.table[h])
    BY <1>3, <2>2
  <2> QED
    BY <1>1, <2>1, <2>2, <2>3 DEF Served
<1> QED
  BY <1>8, <1>10, <1>11 DEF TablesInv, Registering, Reporting

\* What is removed or put back stays in its container, with its handle.
LEMMA MarkKeeps ==
  ASSUME TablesInv, NEW a \in Attrs, NEW r \in {"no", "hide", "delete"}, run.pc = "idle",
         att' = [att EXCEPT ![a].removed = r],
         UNCHANGED <<vec, run, stk.table>>, stk' \in Stack, hist' \in History,
         srv'.started => srv.started /\ (srv'.changed \/ hist'.missed)
  PROVE  TablesInv'
<1>1. Contained /\ TablesOK /\ Served
  BY DEF TablesInv
<1>2. /\ att' \in [Attrs -> Attribute]
      /\ \A b \in Attrs : att'[b].state = att[b].state /\ att'[b].handle = att[b].handle
  <2>1. att \in [Attrs -> Attribute]
    BY <1>1 DEF Contained
  <2> QED
    BY <2>1 DEF Attribute
<1>3. \A b \in Attrs : Live(b)' <=> Live(b)
  BY <1>2 DEF Live
<1>4. \A h \in DOMAIN stk.table : stk.table[h] \in Attrs /\ stk.table[h] \in ToSet(stk.table)
  <2>1. stk.table \in Seq(Attrs)
    BY <1>1 DEF TablesOK, Stack
  <2> QED
    BY <2>1, Members
<1>5. ToSet(stk.table) \subseteq Attrs
  <2>1. stk.table \in Seq(Attrs)
    BY <1>1 DEF TablesOK, Stack
  <2> QED
    BY <2>1, Members
<1>6. Contained'
  <2>1. \A p \in Attrs \cup {Server} : \A b \in ToSet(vec[p]) : b \in Attrs
    BY <1>1, Members DEF Contained
  <2> QED
    BY <1>1, <1>2, <1>3, <2>1 DEF Contained
<1>7. TablesOK'
  BY <1>1, <1>2, <1>5 DEF TablesOK
<1>8. Served'
  BY <1>1, <1>2, <1>3, <1>4 DEF Served
<1> QED
  BY <1>6, <1>7, <1>8 DEF TablesInv, Registering, Reporting

-----------------------------------------------------------------------------
(* The calls that change the services.                                     *)

\* What a deletion removes with an object.
LEMMA OwnedIs ==
  /\ \A a \in Attrs : Subtree(a) \in SUBSET Attrs /\ \A c \in Children : Parent[c] \in Subtree(a) => c \in Subtree(a)
  /\ \A s \in Attrs : /\ ToDelete(s) \in SUBSET Attrs
                      /\ ToDelete(s) \subseteq Subtree(s) /\ s \notin ToDelete(s)
                      /\ \A c \in Children : Parent[c] \in ToDelete(s) => c \in ToDelete(s)
                      /\ \A a \in ToDelete(s) : ~Exposed(a)
<1>1. ASSUME NEW a \in Attrs
      PROVE  Subtree(a) \in SUBSET Attrs /\ \A c \in Children : Parent[c] \in Subtree(a) => c \in Subtree(a)
  BY SubtreeIs
<1>2. ASSUME NEW s \in Attrs
      PROVE  /\ ToDelete(s) \in SUBSET Attrs
             /\ ToDelete(s) \subseteq Subtree(s) /\ s \notin ToDelete(s)
             /\ \A c \in Children : Parent[c] \in ToDelete(s) => c \in ToDelete(s)
             /\ \A a \in ToDelete(s) : ~Exposed(a)
  <2>1. \A a : a \in ToDelete(s) <=>
          \E b \in Subtree(s) \ {s} : Live(b) /\ att[b].removed = "delete" /\ a \in Subtree(b)
    BY DEF ToDelete
  <2>2. ASSUME NEW a \in ToDelete(s)
        PROVE  a \in Attrs /\ a \in Subtree(s) /\ a # s /\ ~Exposed(a)
    <3>1. PICK b \in Subtree(s) \ {s} : Live(b) /\ att[b].removed = "delete" /\ a \in Subtree(b)
      BY <2>1
    <3>2. b \in Attrs /\ a \in Attrs
      BY <3>1, SubtreeIs
    <3>3. a \in Subtree(s)
      BY <3>1, <3>2, SubtreesNest
    <3>4. a # s
      BY <3>1, <3>2, SubtreesNest
    <3> QED
      BY <3>1, <3>2, <3>3, <3>4 DEF Exposed, Removed
  <2>3. ASSUME NEW c \in Children, Parent[c] \in ToDelete(s) PROVE c \in ToDelete(s)
    <3>1. PICK b \in Subtree(s) \ {s} : Live(b) /\ att[b].removed = "delete" /\ Parent[c] \in Subtree(b)
      BY <2>1, <2>3
    <3>2. b \in Attrs
      BY SubtreeIs
    <3> QED
      BY <2>1, <1>1, <3>1, <3>2
  <2> QED
    BY <2>2, <2>3
<1> QED
  BY <1>1, <1>2

\* A list shows the same after a deletion that spares its members.
LEMMA ShowsKept ==
  ASSUME NEW q \in Seq(Attrs), NEW A, Shows(q, A), \A a \in A : Live(a)',
         \A a, b \in Attrs : Live(a)' /\ Live(b)' => (Before(a, b)' <=> Before(a, b))
  PROVE  ToSet(q) = A /\ \A i, j \in DOMAIN q : i < j => Before(q[i], q[j])'
<1>1. ToSet(q) = A /\ \A i, j \in DOMAIN q : i < j => Before(q[i], q[j])
  BY DEF Shows
<1>2. \A i \in DOMAIN q : q[i] \in Attrs /\ q[i] \in A
  BY <1>1, Members
<1> QED
  BY <1>1, <1>2

\* The second removal of an object: nothing is deleted that the peers see.
LEMMA DeleteKeeps ==
  ASSUME TablesInv, NEW a \in Attrs, run.pc = "idle", Removed(a), DeleteAll(Subtree(a)),
         UNCHANGED <<srv, run, stk, hist>>
  PROVE  TablesInv'
<1>1. Contained /\ TablesOK /\ Served
  BY DEF TablesInv
<1>2. PICK D \in SUBSET Attrs : D = Subtree(a) /\ \A c \in Children : Parent[c] \in D => c \in D
  BY OwnedIs
<1>3. /\ vec' = Without(D)
      /\ att' = [b \in Attrs |-> IF b \in D /\ Live(b) THEN Gone ELSE att[b]]
  BY <1>2 DEF DeleteAll
<1>4. /\ att' \in [Attrs -> Attribute]
      /\ \A b \in Attrs : att'[b] = IF b \in D /\ Live(b) THEN Gone ELSE att[b]
  <2>1. Cardinality(Attrs) \in Nat
    BY ServerAssumption, FS_CardinalityType DEF ServerAssumption
  <2>2. Gone \in Attribute
    BY <2>1 DEF Gone, Attribute
  <2> QED
    BY <1>1, <1>3, <2>2 DEF Contained
<1>5. \A b \in Attrs :
        IF b \in D /\ Live(b) THEN att'[b] = Gone
        ELSE /\ att'[b].state = att[b].state /\ att'[b].removed = att[b].removed
             /\ att'[b].handle \in {0, att[b].handle}
  BY <1>4
<1>6. /\ Contained'
      /\ \A b \in Attrs : Live(b)' <=> Live(b) /\ b \notin D
      /\ \A b, c \in Attrs : Live(b)' /\ Live(c)' => (Before(b, c)' <=> Before(b, c))
      /\ \A b \in Attrs : Exposed(b)' <=> Exposed(b) /\ b \notin D
  BY <1>1, <1>2, <1>3, <1>4, <1>5, DeletionKeeps
<1>7. Wanted' = Wanted /\ \A b \in Wanted : Live(b)'
  <2>1. \A b \in D : ~Exposed(b)
    BY <1>2 DEF Exposed
  <2>2. Wanted' = Wanted
    BY <1>6, <2>1 DEF Wanted
  <2> QED
    BY <1>6, <2>1, <2>2 DEF Wanted, Exposed
<1>8. PICK q \in Seq(Attrs) : q = stk.table
  BY <1>1 DEF TablesOK, Stack
<1>9. \A h \in DOMAIN q : q[h] \in Attrs /\ q[h] \in ToSet(q)
  BY Members
<1>10. TablesOK'
  <2>1. \A b \in Attrs : att[b].state # "none" => att'[b].state # "none"
    BY <1>4 DEF Gone
  <2>2. ToSet(q) \subseteq Attrs
    BY Members
  <2> QED
    BY <1>1, <1>8, <2>1, <2>2 DEF TablesOK
<1>11. Served'
  <2>1. SUFFICES ASSUME srv.started PROVE Served'
    BY DEF Served
  <2>2. /\ \A b \in Attrs : att[b].handle # 0 => att[b].handle \in DOMAIN q /\ q[att[b].handle] = b
        /\ \A h \in DOMAIN q : Live(q[h]) => att[q[h]].handle = h
        /\ ~srv.changed /\ ~hist.missed => Shows(q, Wanted)
    BY <1>1, <1>8, <2>1 DEF Served
  <2>3. \A b \in Attrs : att'[b].handle # 0 => att'[b].handle = att[b].handle
    BY <1>4 DEF Gone
  <2>4. \A h \in DOMAIN q : Live(q[h])' => att'[q[h]].handle = h
    BY <1>4, <1>6, <1>9, <2>2
  <2>5. ASSUME ~srv.changed, ~hist.missed
        PROVE  ToSet(q) = Wanted /\ \A i, j \in DOMAIN q : i < j => Before(q[i], q[j])'
    <3>1. PICK A : A = Wanted
      OBVIOUS
    <3>2. Shows(q, A) /\ \A b \in A : Live(b)'
      BY <1>7, <2>2, <2>5, <3>1
    <3>3. ToSet(q) = A /\ \A i, j \in DOMAIN q : i < j => Before(q[i], q[j])'
      BY <1>6, <3>2, ShowsKept
    <3> QED
      BY <3>1, <3>3
  <2>6. ~srv.changed /\ ~hist.missed => Shows(stk.table, Wanted)'
    BY <1>7, <1>8, <2>5 DEF Shows
  <2> QED
    BY <1>8, <2>2, <2>3, <2>4, <2>6 DEF Served
<1> QED
  BY <1>6, <1>10, <1>11 DEF TablesInv, Registering, Reporting

\* The calls that change the services.
LEMMA ChangeKeepsTables == ServerInv /\ TablesInv /\ Change => TablesInv'
<1> SUFFICES ASSUME ServerInv, TablesInv, Change PROVE TablesInv'
  OBVIOUS
<1>1. srv \in ServerState /\ hist \in History /\ stk \in Stack
  BY LinksIs DEF TablesInv, TablesOK
<1>2. ASSUME SetServiceChanged PROVE srv'.started = srv.started /\ (srv.started => srv'.changed)
  BY <1>1, <1>2 DEF SetServiceChanged, ServerState
<1>3. ASSUME hist' = [hist EXCEPT !.missed = @ \/ srv.started]
      PROVE  hist' \in History /\ (srv.started => hist'.missed)
  BY <1>1, <1>3 DEF History, ServerState
<1>4. ASSUME NEW a \in Attrs, Create(a) PROVE TablesInv'
  <2>1. Parent[a] \in Attrs => Live(Parent[a])
    BY <1>4, TreeIs DEF Create
  <2> QED
    BY <1>1, <1>2, <1>4, <2>1, NewKeeps DEF Create, MayCall
<1>5. ASSUME NEW s \in Services, AddNewService(s) PROVE TablesInv'
  <2>1. s \in Attrs /\ Parent[s] \notin Attrs
    BY TreeIs DEF Attrs
  <2> QED
    BY <1>3, <1>5, <2>1, NewKeeps DEF AddNewService, MayCall
<1>6. ASSUME NEW a \in Attrs, DeleteRemoved(a) PROVE TablesInv'
  BY <1>6, DeleteKeeps DEF DeleteRemoved, MayCall
<1>7. ASSUME NEW a \in Attrs, NEW del \in BOOLEAN, Mark(a, del)
      PROVE  \E r \in {"no", "hide", "delete"} : att' = [att EXCEPT ![a].removed = r]
  BY <1>7 DEF Mark
<1>8. ASSUME NEW s \in Services, NEW del \in BOOLEAN, RemoveService(s, del) PROVE TablesInv'
  <2>1. s \in Attrs
    BY DEF Attrs
  <2>2. PICK r \in {"no", "hide", "delete"} : att' = [att EXCEPT ![s].removed = r]
    BY <1>7, <1>8, <2>1 DEF RemoveService
  <2>3. stk' \in Stack /\ stk'.table = stk.table
    BY <1>1, <1>8 DEF RemoveService, Stack
  <2> QED
    BY <1>1, <1>2, <1>8, <2>1, <2>2, <2>3, MarkKeeps DEF RemoveService, MayCall
<1>9. ASSUME NEW c \in Children, NEW del \in BOOLEAN, RemoveChild(c, del) PROVE TablesInv'
  <2>1. c \in Attrs
    BY DEF Attrs
  <2>2. PICK r \in {"no", "hide", "delete"} : att' = [att EXCEPT ![c].removed = r]
    BY <1>7, <1>9, <2>1 DEF RemoveChild
  <2> QED
    BY <1>1, <1>2, <1>9, <2>1, <2>2, MarkKeeps DEF RemoveChild, MayCall
<1>10. ASSUME NEW s \in Services, AddServiceBack(s) PROVE TablesInv'
  <2>1. s \in Attrs /\ "no" \in {"no", "hide", "delete"}
    BY DEF Attrs
  <2> QED
    BY <1>1, <1>2, <1>10, <2>1, MarkKeeps DEF AddServiceBack, MayCall
<1>11. ASSUME NEW c \in Children, AddChildBack(c) PROVE TablesInv'
  <2>1. c \in Attrs /\ "no" \in {"no", "hide", "delete"}
    BY DEF Attrs
  <2> QED
    BY <1>1, <1>3, <1>11, <2>1, MarkKeeps DEF AddChildBack, MayCall
<1> QED
  BY <1>4, <1>5, <1>6, <1>8, <1>9, <1>10, <1>11 DEF Change

-----------------------------------------------------------------------------
(* The loop over the services.                                             *)

\* A list of different elements is no longer than their set is large.
LEMMA ShortIs ==
  ASSUME NEW S, IsFiniteSet(S), NEW q \in Seq(S), IsInjective(q)
  PROVE  Len(q) <= Cardinality(S)
<1>1. q \in Injection(1..Len(q), S)
  BY DEF Injection
<1>2. PICK n \in Nat : n = Len(q) /\ Cardinality(1..n) = n
  BY FS_Interval, LenProperties
<1>3. Cardinality(1..n) <= Cardinality(S)
  BY <1>1, <1>2, FS_Injection
<1> QED
  BY <1>2, <1>3

\* The places of the services that a deletion leaves where they are.
LEMMA PlacesKept ==
  ASSUME Contained, Contained', NEW m \in 0..Len(vec[Server]), m <= Len(vec'[Server]),
         \A k \in 1..m : vec'[Server][k] = vec[Server][k]
  PROVE  \A s \in Services : Live(s) /\ Live(s)' => (Place(s)' <= m <=> Place(s) <= m)
<1>1. Placed /\ Placed'
  <2>1. Contained' => Placed'
    BY PlaceIs, PTL
  <2> QED
    BY <2>1, PlaceIs
<1> SUFFICES ASSUME NEW s \in Services, Live(s), Live(s)' PROVE Place(s)' <= m <=> Place(s) <= m
  OBVIOUS
<1>2. s \in Attrs /\ Parent[s] = Server
  BY TreeIs DEF Attrs
<1>3. /\ Place(s) \in 1..Len(vec[Server]) /\ vec[Server][Place(s)] = s
      /\ Place(s)' \in 1..Len(vec'[Server]) /\ vec'[Server][Place(s)'] = s
  BY <1>1, <1>2 DEF Placed
<1>4. \A k \in 1..Len(vec[Server]) : vec[Server][k] = s => Place(s) = k
  BY <1>1 DEF Placed
<1>5. \A k \in 1..Len(vec'[Server]) : vec'[Server][k] = s => Place(s)' = k
  BY <1>1 DEF Placed
<1> QED
  BY <1>3, <1>4, <1>5

\* A service of the loop.
LEMMA AtServiceIs ==
  ASSUME TablesInv, NEW s \in Services, AtService(s)
  PROVE  /\ Contained /\ s \in Attrs /\ Live(s) /\ Place(s) = run.i /\ run.pc = "register"
         /\ run.i \in 1..Len(vec[Server]) /\ vec[Server][run.i] = s
         /\ vec[Server] \in Seq(Attrs)
         /\ \A k \in 1..Len(vec[Server]) : /\ vec[Server][k] \in Services
                                           /\ vec[Server][k] = s => k = run.i
<1>1. Contained /\ Placed /\ Server \in Attrs \cup {Server}
  BY PlaceIs DEF TablesInv
<1>2. run.pc = "register" /\ run.i \in DOMAIN vec[Server] /\ vec[Server][run.i] = s
  BY DEF AtService
<1>3. /\ vec[Server] \in Seq(Attrs)
      /\ \A k \in 1..Len(vec[Server]) :
           /\ vec[Server][k] \in Attrs /\ Live(vec[Server][k]) /\ Parent[vec[Server][k]] = Server
           /\ Place(vec[Server][k]) = k
  BY <1>1 DEF Placed
<1>4. run.i \in 1..Len(vec[Server])
  BY <1>2, <1>3
<1> QED
  BY <1>1, <1>2, <1>3, <1>4, TreeIs

\* What the erasing of services and of what they own leaves.
LEMMA ErasedIs ==
  ASSUME TablesInv, NEW s \in Services, AtService(s), NEW D \in SUBSET Attrs,
         \A c \in Children : Parent[c] \in D => c \in D,
         \A a \in D : ~Exposed(a) /\ a \in Subtree(s),
         NEW A, A \subseteq Subtree(s), vec' = Without(D),
         att' = [a \in Attrs |->
                   IF a \in D /\ Live(a) THEN Gone
                   ELSE IF a \in A /\ Live(a) THEN [att[a] EXCEPT !.handle = 0]
                   ELSE att[a]]
  PROVE  /\ Contained' /\ Wanted' = Wanted
         /\ \A a \in Attrs : Live(a)' => Live(a)
         /\ \A a \in Wanted : Live(a)'
         /\ \A a, b \in Attrs : Live(a)' /\ Live(b)' => (Before(a, b)' <=> Before(a, b))
         /\ \A a \in Attrs : att[a].state # "none" => att'[a].state # "none"
         /\ \A a \in Attrs : att'[a].handle \in {0, att[a].handle}
         /\ \A a \in A : Live(a)' => att'[a].handle = 0
         /\ \A t \in Services : Live(t)' => (Place(t)' < run.i <=> Place(t) < run.i)
         /\ run.i - 1 <= Len(vec'[Server])
         /\ s \notin D => /\ run.i <= Len(vec'[Server])
                          /\ \A t \in Services : Live(t)' => (Place(t)' <= run.i <=> Place(t) <= run.i)
<1>1. /\ Contained /\ s \in Attrs
      /\ run.i \in 1..Len(vec[Server]) /\ vec[Server][run.i] = s
      /\ vec[Server] \in Seq(Attrs)
      /\ \A k \in 1..Len(vec[Server]) : /\ vec[Server][k] \in Services
                                        /\ vec[Server][k] = s => k = run.i
  BY AtServiceIs
<1>2. Cardinality(Attrs) \in Nat
  BY ServerAssumption, FS_CardinalityType DEF ServerAssumption
<1>3. att \in [Attrs -> Attribute]
  BY <1>1 DEF Contained
<1>4. att' \in [Attrs -> Attribute]
  <2>1. Gone \in Attribute
    BY <1>2 DEF Gone, Attribute
  <2>2. \A a \in Attrs : [att[a] EXCEPT !.handle = 0] \in Attribute
    BY <1>2, <1>3 DEF Attribute
  <2> QED
    BY <1>3, <2>1, <2>2
<1>5. ASSUME NEW a \in Attrs
      PROVE  /\ IF a \in D /\ Live(a) THEN att'[a] = Gone
                ELSE /\ att'[a].state = att[a].state /\ att'[a].removed = att[a].removed
                     /\ att'[a].handle \in {0, att[a].handle}
             /\ a \in A /\ Live(a) => att'[a].handle = 0
  <2>1. att[a] \in Attribute /\ att'[a] = IF a \in D /\ Live(a) THEN Gone
                   ELSE IF a \in A /\ Live(a) THEN [att[a] EXCEPT !.handle = 0]
                   ELSE att[a]
    BY <1>3
  <2>2. [att[a] EXCEPT !.handle = 0].state = att[a].state
        /\ [att[a] EXCEPT !.handle = 0].removed = att[a].removed
        /\ [att[a] EXCEPT !.handle = 0].handle = 0
    BY <2>1 DEF Attribute
  <2> QED
    BY <2>1, <2>2 DEF Gone
<1>6. /\ Contained'
      /\ \A a \in Attrs : Live(a)' <=> Live(a) /\ a \notin D
      /\ \A a, b \in Attrs : Live(a)' /\ Live(b)' => (Before(a, b)' <=> Before(a, b))
      /\ \A a \in Attrs : Exposed(a)' <=> Exposed(a) /\ a \notin D
      /\ Len(vec'[Server]) \in 0..Len(vec[Server])
      /\ \A m \in 0..Len(vec[Server]) :
           (\A i \in 1..m : vec[Server][i] \notin D) =>
             m <= Len(vec'[Server]) /\ \A i \in 1..m : vec'[Server][i] = vec[Server][i]
  BY <1>1, <1>4, <1>5, DeletionKeeps
<1>7. Wanted' = Wanted /\ \A a \in Wanted : Live(a)'
  <2>1. Wanted' = Wanted
    BY <1>6 DEF Wanted
  <2> QED
    BY <1>6, <2>1 DEF Wanted, Exposed
<1>8. \A a \in Attrs : att[a].state # "none" => att'[a].state # "none"
  BY <1>5 DEF Gone
<1>9. \A a \in Attrs : att'[a].handle \in {0, att[a].handle}
  BY <1>5 DEF Gone
<1>10. \A a \in A : Live(a)' => att'[a].handle = 0
  BY <1>1, <1>5, <1>6, SubtreeIs
<1>11. \A k \in 1..Len(vec[Server]) : k # run.i => vec[Server][k] \notin D
  <2>1. \A t \in Services : t \in Subtree(s) => t = s
    BY <1>1, SubtreeIs
  <2> QED
    BY <1>1, <2>1
<1>12. ASSUME NEW m \in 0..Len(vec[Server]), \A k \in 1..m : vec[Server][k] \notin D
       PROVE  /\ m <= Len(vec'[Server])
              /\ \A t \in Services : Live(t)' => (Place(t)' <= m <=> Place(t) <= m)
  <2>1. m <= Len(vec'[Server]) /\ \A k \in 1..m : vec'[Server][k] = vec[Server][k]
    BY <1>6, <1>12
  <2>2. \A t \in Services : Live(t)' => Live(t)
    BY <1>6 DEF Attrs
  <2> QED
    BY <1>1, <1>6, <2>1, <2>2, PlacesKept
<1>13. /\ run.i - 1 <= Len(vec'[Server])
       /\ \A t \in Services : Live(t)' => (Place(t)' < run.i <=> Place(t) < run.i)
  <2>1. run.i - 1 \in 0..Len(vec[Server]) /\ \A k \in 1..(run.i - 1) : vec[Server][k] \notin D
    BY <1>1, <1>11
  <2>2. /\ run.i - 1 <= Len(vec'[Server])
        /\ \A t \in Services : Live(t)' => (Place(t)' <= run.i - 1 <=> Place(t) <= run.i - 1)
    BY <1>12, <2>1
  <2>3. Placed /\ Placed'
    <3>1. Contained' => Placed'
      BY PlaceIs, PTL
    <3> QED
      BY <1>1, <1>6, <3>1, PlaceIs
  <2>4. \A t \in Services : Live(t)' => Place(t)' \in Nat /\ Place(t) \in Nat
    BY <1>6, <2>3 DEF Placed, Attrs
  <2> QED
    BY <1>1, <2>2, <2>4
<1>14. s \notin D => /\ run.i <= Len(vec'[Server])
                     /\ \A t \in Services : Live(t)' => (Place(t)' <= run.i <=> Place(t) <= run.i)
  BY <1>1, <1>11, <1>12
<1> QED
  BY <1>6, <1>7, <1>8, <1>9, <1>10, <1>13, <1>14

\* The services that were marked to be deleted go.
LEMMA EraseKeeps ==
  ASSUME TablesInv, ~srv.started, NEW s \in Services, EraseService(s)
  PROVE  TablesInv'
<1>1. /\ AtService(s) /\ att[s].removed = "delete" /\ UNCHANGED <<srv, run, stk, hst, hist>>
      /\ vec' = Without(Subtree(s))
      /\ att' = [a \in Attrs |-> IF a \in Subtree(s) /\ Live(a) THEN Gone ELSE att[a]]
  BY DEF EraseService, DeleteAll
<1>2. /\ Contained /\ s \in Attrs /\ Live(s) /\ run.pc = "register"
      /\ run.i \in 1..Len(vec[Server]) /\ TablesOK /\ Registering
  BY <1>1, AtServiceIs DEF TablesInv
<1>3. PICK D \in SUBSET Attrs : D = Subtree(s) /\ \A c \in Children : Parent[c] \in D => c \in D
  BY <1>2, OwnedIs
<1>4. \A a \in D : ~Exposed(a) /\ a \in Subtree(s)
  BY <1>1, <1>2, <1>3 DEF Exposed, Removed
<1>5. att' = [a \in Attrs |->
                   IF a \in D /\ Live(a) THEN Gone
                   ELSE IF a \in {} /\ Live(a) THEN [att[a] EXCEPT !.handle = 0]
                   ELSE att[a]]
  BY <1>1, <1>3
<1>6. /\ Contained' /\ Wanted' = Wanted
      /\ \A a \in Attrs : Live(a)' => Live(a)
      /\ \A a \in Wanted : Live(a)'
      /\ \A a, b \in Attrs : Live(a)' /\ Live(b)' => (Before(a, b)' <=> Before(a, b))
      /\ \A a \in Attrs : att[a].state # "none" => att'[a].state # "none"
      /\ \A a \in Attrs : att'[a].handle \in {0, att[a].handle}
      /\ \A t \in Services : Live(t)' => (Place(t)' < run.i <=> Place(t) < run.i)
      /\ run.i - 1 <= Len(vec'[Server])
  <2>1. {} \subseteq Subtree(s) /\ vec' = Without(D)
    BY <1>1, <1>3
  <2> HIDE DEF TablesInv
  <2> QED
    BY <1>1, <1>3, <1>4, <1>5, <2>1, ErasedIs
<1>7. ASSUME NEW a \in Attrs, Live(a)' PROVE Handed(a)' <=> Handed(a)
  <2>1. Placed'
    <3>1. Contained' => Placed'
      BY PlaceIs, PTL
    <3> QED
      BY <1>6, <3>1
  <2>2. \A t \in Services : a \in Subtree(t) => Live(t)'
    BY <1>7, <2>1 DEF Placed, Attrs
  <2> QED
    BY <1>1, <1>6, <2>2 DEF Handed
<1>8. TablesOK'
  <2>1. ToSet(stk.table) \subseteq Attrs
    BY <1>2, Members DEF TablesOK, Stack
  <2> QED
    BY <1>1, <1>2, <1>6, <2>1 DEF TablesOK
<1>9. Registering'
  <2>1. run.i \in 1..(Len(vec'[Server]) + 1)
    <3>1. vec'[Server] \in Seq(Attrs)
      BY <1>6 DEF Contained
    <3> QED
      BY <1>2, <1>6, <3>1
  <2>2. ASSUME stk.links = {}
        PROVE  /\ Shows(stk.defs, {a \in Wanted : Handed(a)})'
               /\ \A a \in Attrs : Live(a)' /\ Handed(a)' => att'[a].handle = 0
    <3>1. /\ Shows(stk.defs, {a \in Wanted : Handed(a)})
          /\ \A a \in Attrs : Live(a) /\ Handed(a) => att[a].handle = 0
      BY <1>2, <2>2 DEF Registering
    <3>2. PICK q \in Seq(Attrs) : q = stk.defs
      BY <1>2 DEF TablesOK, Stack
    <3>3. PICK A : A = {a \in Wanted : Handed(a)}
      OBVIOUS
    <3>4. {a \in Wanted : Handed(a)}' = A
      BY <1>6, <1>7, <3>3 DEF Wanted
    <3>5. ToSet(q) = A /\ \A i, j \in DOMAIN q : i < j => Before(q[i], q[j])'
      BY <1>6, <3>1, <3>2, <3>3, ShowsKept
    <3>6. Shows(stk.defs, {a \in Wanted : Handed(a)})'
      BY <1>1, <3>2, <3>4, <3>5 DEF Shows
    <3> QED
      BY <1>6, <1>7, <3>1, <3>6
  <2> QED
    BY <1>1, <2>1, <2>2 DEF Registering
<1> QED
  BY <1>1, <1>2, <1>6, <1>8, <1>9 DEF TablesInv, Reporting, Served

LEMMA SizeIs == Cardinality(Attrs) \in Nat /\ IsFiniteSet(Attrs)
BY ServerAssumption, FS_CardinalityType DEF ServerAssumption

\* m_svcVec and the table have no more entries than there are attributes.
LEMMA TableSizes ==
  ASSUME TablesInv
  PROVE  /\ vec[Server] \in Seq(Attrs) /\ Len(vec[Server]) \in 0..Cardinality(Attrs)
         /\ stk.table \in Seq(Attrs) /\ Len(stk.table) \in 0..Cardinality(Attrs)
<1>1. vec[Server] \in Seq(Attrs) /\ IsInjective(vec[Server])
  BY DEF TablesInv, Contained
<1>2. stk.table \in Seq(Attrs) /\ IsInjective(stk.table)
  BY DEF TablesInv, TablesOK, Stack
<1>3. \A q \in Seq(Attrs) : IsInjective(q) => Len(q) \in 0..Cardinality(Attrs)
  BY SizeIs, ShortIs, LenProperties
<1> QED
  BY <1>1, <1>2, <1>3

\* A service is before all that belong to the services behind it.
LEMMA ServicesInOrder ==
  ASSUME NEW s \in Services, NEW t \in Services, Place(t) < Place(s),
         NEW a \in Subtree(t), NEW b \in Subtree(s)
  PROVE  Before(a, b)
BY TreeIs DEF Before, Attrs

\* A turn of the loop: the services up to this one have been handed to the stack.
LEMMA RegisterKeeps ==
  ASSUME TablesInv, ~srv.started, NEW s \in Services, RegisterService(s)
  PROVE  TablesInv'
<1>1. /\ AtService(s) /\ att[s].removed # "delete" /\ ResetAttributes(s, Subtree(s))
      /\ IF Removed(s) THEN UNCHANGED stk
         ELSE stk.links = {} /\ stk' = [stk EXCEPT !.defs = @ \o Definition(s)]
      /\ run' = [run EXCEPT !.i = @ + 1] /\ UNCHANGED <<srv, hst, hist>>
  BY DEF RegisterService
<1>2. /\ Contained /\ s \in Attrs /\ Live(s) /\ Place(s) = run.i /\ run.pc = "register"
      /\ run.i \in 1..Len(vec[Server]) /\ vec[Server][run.i] = s
      /\ TablesOK /\ Registering /\ Placed
  BY <1>1, AtServiceIs, PlaceIs DEF TablesInv
<1>3. PICK D \in SUBSET Attrs : /\ D = ToDelete(s) /\ \A c \in Children : Parent[c] \in D => c \in D
                                /\ s \notin D /\ \A a \in D : ~Exposed(a) /\ a \in Subtree(s)
  BY <1>2, OwnedIs
<1>4. /\ vec' = Without(D)
      /\ att' = [a \in Attrs |->
                   IF a \in D /\ Live(a) THEN Gone
                   ELSE IF a \in Subtree(s) /\ Live(a) THEN [att[a] EXCEPT !.handle = 0]
                   ELSE att[a]]
  BY <1>1, <1>3 DEF ResetAttributes
<1>5. /\ Contained' /\ Wanted' = Wanted
      /\ \A a \in Attrs : Live(a)' => Live(a)
      /\ \A a \in Wanted : Live(a)'
      /\ \A a, b \in Attrs : Live(a)' /\ Live(b)' => (Before(a, b)' <=> Before(a, b))
      /\ \A a \in Attrs : att[a].state # "none" => att'[a].state # "none"
      /\ \A a \in Attrs : att'[a].handle \in {0, att[a].handle}
      /\ \A a \in Subtree(s) : Live(a)' => att'[a].handle = 0
      /\ run.i <= Len(vec'[Server])
      /\ \A t \in Services : Live(t)' => (Place(t)' <= run.i <=> Place(t) <= run.i)
  <2>1. PICK A : A = Subtree(s)
    OBVIOUS
  <2>2. A \subseteq Subtree(s)
        /\ att' = [a \in Attrs |->
                   IF a \in D /\ Live(a) THEN Gone
                   ELSE IF a \in A /\ Live(a) THEN [att[a] EXCEPT !.handle = 0]
                   ELSE att[a]]
    BY <1>4, <2>1
  <2>3. AtService(s) /\ vec' = Without(D) /\ s \notin D
        /\ (\A c \in Children : Parent[c] \in D => c \in D)
        /\ (\A a \in D : ~Exposed(a) /\ a \in Subtree(s))
    BY <1>1, <1>3, <1>4
  <2>4. /\ Contained' /\ Wanted' = Wanted
        /\ \A a \in Attrs : Live(a)' => Live(a)
        /\ \A a \in Wanted : Live(a)'
        /\ \A a, b \in Attrs : Live(a)' /\ Live(b)' => (Before(a, b)' <=> Before(a, b))
        /\ \A a \in Attrs : att[a].state # "none" => att'[a].state # "none"
        /\ \A a \in Attrs : att'[a].handle \in {0, att[a].handle}
        /\ \A a \in A : Live(a)' => att'[a].handle = 0
        /\ run.i <= Len(vec'[Server])
        /\ \A t \in Services : Live(t)' => (Place(t)' <= run.i <=> Place(t) <= run.i)
    BY <2>2, <2>3, ErasedIs
  <2> QED
    BY <2>1, <2>4
<1>6. run \in Run /\ stk \in Stack
  BY <1>2 DEF TablesOK
<1>7. /\ run' \in Run /\ run'.pc = "register" /\ run'.i = run.i + 1
  <2>1. Len(vec[Server]) \in 0..Cardinality(Attrs) /\ Cardinality(Attrs) \in Nat
    BY TableSizes, SizeIs
  <2>2. run.i + 1 \in 1..(Cardinality(Attrs) + 1)
    BY <1>2, <2>1
  <2> QED
    BY <1>1, <1>2, <1>6, <2>2 DEF Run
<1>8. /\ stk' \in Stack /\ stk'.links = stk.links /\ stk'.adv = stk.adv /\ stk'.table = stk.table
      /\ stk'.defs = IF Removed(s) THEN stk.defs ELSE stk.defs \o Definition(s)
  <2>1. CASE Removed(s)
    BY <1>1, <1>6, <2>1
  <2>2. CASE ~Removed(s)
    <3>1. Definition(s) \in Seq(Attrs) /\ stk.defs \in Seq(Attrs)
      BY <1>2, <1>6, DefinitionIs DEF Stack
    <3>2. PICK q \in Seq(Attrs) : q = stk.defs \o Definition(s)
      BY <3>1, ConcatProperties
    <3>3. stk' = [stk EXCEPT !.defs = q]
      BY <1>1, <2>2, <3>2
    <3> QED
      BY <1>6, <2>2, <3>2, <3>3 DEF Stack
  <2> QED
    BY <2>1, <2>2
<1>9. ASSUME NEW a \in Attrs, Live(a)' PROVE Handed(a)' <=> Handed(a) \/ a \in Subtree(s)
  <2>1. Placed'
    <3>1. Contained' => Placed'
      BY PlaceIs, PTL
    <3> QED
      BY <1>5, <3>1
  <2>2. \A t \in Services : a \in Subtree(t) => /\ Live(t)' /\ Live(t) /\ t \in Attrs /\ Parent[t] = Server
                                                /\ Place(t) \in Nat /\ Place(t)' \in Nat
    BY <1>2, <1>5, <1>9, <2>1, TreeIs DEF Placed, Attrs
  <2>3. \A t \in Services : a \in Subtree(t) => (Place(t)' < run.i + 1 <=> Place(t) < run.i \/ Place(t) = run.i)
    BY <1>2, <1>5, <2>2
  <2>4. \A t \in Services : a \in Subtree(t) /\ Place(t) = run.i => t = s
    BY <1>2, <2>2 DEF Placed
  <2>5. \A t \in Services : a \in Subtree(t) => (Place(t)' < run.i + 1 <=> Place(t) < run.i \/ t = s)
    BY <1>2, <2>3, <2>4
  <2> QED
    BY <1>7, <2>5 DEF Handed
<1>10. TablesOK'
  <2>1. ToSet(stk.table) \subseteq Attrs
    BY <1>6, Members DEF Stack
  <2> QED
    BY <1>1, <1>2, <1>5, <1>7, <1>8, <2>1 DEF TablesOK
<1>11. Registering'
  <2>1. run'.i \in 1..(Len(vec'[Server]) + 1)
    <3>1. vec'[Server] \in Seq(Attrs)
      BY <1>5 DEF Contained
    <3> QED
      BY <1>2, <1>5, <1>7, <3>1
  <2>2. ASSUME stk.links = {}
        PROVE  /\ Shows(stk.defs, {a \in Wanted : Handed(a)})'
               /\ \A a \in Attrs : Live(a)' /\ Handed(a)' => att'[a].handle = 0
    <3>1. /\ Shows(stk.defs, {a \in Wanted : Handed(a)})
          /\ \A a \in Attrs : Live(a) /\ Handed(a) => att[a].handle = 0
      BY <1>2, <2>2 DEF Registering
    <3>2. PICK A : A = {a \in Wanted : Handed(a)}
      OBVIOUS
    <3>3. PICK B : B = {a \in Subtree(s) : Exposed(a)}
      OBVIOUS
    <3>4. {a \in Wanted : Handed(a)}' = A \cup B
      <4>1. B \subseteq Wanted
        BY <1>2, <3>3, SubtreeIs DEF Wanted
      <4>2. \A a \in Wanted : a \in Attrs /\ Exposed(a) /\ (Handed(a)' <=> Handed(a) \/ a \in Subtree(s))
        BY <1>5, <1>9 DEF Wanted
      <4> QED
        BY <1>5, <3>2, <3>3, <4>1, <4>2
    <3>5. PICK q \in Seq(Attrs) : q = stk'.defs
      BY <1>8 DEF Stack
    <3>6. Shows(q, A \cup B)
      <4>1. CASE Removed(s)
        <5>1. B = {}
          BY <1>2, <3>3, <4>1 DEF Exposed
        <5>2. A \cup B = A /\ q = stk.defs
          BY <1>8, <3>5, <4>1, <5>1
        <5> QED
          BY <3>1, <3>2, <5>2
      <4>2. CASE ~Removed(s)
        <5>1. PICK u \in Seq(Attrs) : u = stk.defs
          BY <1>6 DEF Stack
        <5>2. PICK v \in Seq(Attrs) : v = Definition(s)
          BY <1>2, DefinitionIs
        <5>3. Shows(u, A) /\ Shows(v, B) /\ q = u \o v
          BY <1>2, <1>8, <3>1, <3>2, <3>3, <3>5, <4>2, <5>1, <5>2, DefinitionIs
        <5>4. ASSUME NEW a \in A, NEW b \in B PROVE Before(a, b)
          <6>1. PICK t \in Services : a \in Subtree(t) /\ Place(t) < run.i
            BY <3>2 DEF Handed
          <6> QED
            BY <1>2, <3>3, <6>1, ServicesInOrder
        <5> QED
          BY <5>3, <5>4, ShowsBoth
      <4> QED
        BY <4>1, <4>2
    <3>7. PICK C : C = A \cup B
      OBVIOUS
    <3>8. Shows(q, C) /\ \A a \in C : Live(a)'
      BY <1>2, <1>5, <3>2, <3>3, <3>6, <3>7, SubtreeIs DEF Wanted
    <3>9. ToSet(q) = C /\ \A i, j \in DOMAIN q : i < j => Before(q[i], q[j])'
      BY <1>5, <3>8, ShowsKept
    <3>10. Shows(stk.defs, {a \in Wanted : Handed(a)})'
      BY <3>4, <3>5, <3>7, <3>9 DEF Shows
    <3>11. ASSUME NEW a \in Attrs, Live(a)', Handed(a)' PROVE att'[a].handle = 0
      <4>1. Live(a) /\ (Handed(a) \/ a \in Subtree(s))
        BY <1>5, <1>9, <3>11
      <4> QED
        BY <1>5, <3>1, <3>11, <4>1
    <3> QED
      BY <3>10, <3>11
  <2> QED
    BY <1>8, <2>1, <2>2 DEF Registering
<1> QED
  BY <1>1, <1>5, <1>7, <1>10, <1>11 DEF TablesInv, Reporting, Served

\* start() returns early.
LEMMA LeavesTables ==
  ASSUME Contained', TablesOK, Leave, stk'= stk, hist' = hist, ~srv'.started,
         \A a \in Attrs : att[a].state # "none" => att'[a].state # "none"
  PROVE  TablesInv'
<1>1. run' \in Run /\ run'.pc = "idle"
  BY SizeIs DEF Leave, IdleRun, Run
<1>2. ToSet(stk.table) \subseteq Attrs
  BY Members DEF TablesOK, Stack
<1>3. TablesOK'
  BY <1>1, <1>2 DEF TablesOK
<1> QED
  BY <1>1, <1>3 DEF TablesInv, Registering, Reporting, Served

LEMMA RegisterFailsKeeps ==
  ASSUME TablesInv, ~srv.started, NEW s \in Services, RegisterFails(s)
  PROVE  TablesInv'
<1>1. /\ AtService(s) /\ ResetAttributes(s, Subtree(s) \ {s}) /\ Leave
      /\ UNCHANGED <<srv, stk, hist>>
  BY DEF RegisterFails
<1>2. s \in Attrs
  BY DEF Attrs
<1>3. PICK D \in SUBSET Attrs : /\ D = ToDelete(s) /\ \A c \in Children : Parent[c] \in D => c \in D
                                /\ \A a \in D : ~Exposed(a) /\ a \in Subtree(s)
  BY <1>2, OwnedIs
<1>4. PICK A : A = Subtree(s) \ {s}
  OBVIOUS
<1>5. /\ vec' = Without(D)
      /\ att' = [a \in Attrs |->
                   IF a \in D /\ Live(a) THEN Gone
                   ELSE IF a \in A /\ Live(a) THEN [att[a] EXCEPT !.handle = 0]
                   ELSE att[a]]
  BY <1>1, <1>3, <1>4 DEF ResetAttributes
<1>6. Contained' /\ \A a \in Attrs : att[a].state # "none" => att'[a].state # "none"
  <2>1. A \subseteq Subtree(s)
    BY <1>4
  <2> HIDE DEF TablesInv
  <2> QED
    BY <1>1, <1>3, <1>5, <2>1, ErasedIs
<1> QED
  BY <1>1, <1>6, LeavesTables DEF TablesInv

LEMMA ResetKeeps ==
  ASSUME TablesInv, ~srv.started, ResetStack
  PROVE  TablesInv'
<1>1. /\ run.pc = "reset" /\ run' = [run EXCEPT !.pc = "register"]
      /\ stk' = IF stk.links = {} THEN [stk EXCEPT !.adv = FALSE, !.defs = << >>, !.table = << >>, !.hidden = {}]
                ELSE [stk EXCEPT !.adv = FALSE]
      /\ UNCHANGED <<att, vec, srv, hist>>
  BY DEF ResetStack
<1>2. Contained /\ TablesOK /\ run \in Run /\ stk \in Stack /\ Placed
  BY PlaceIs DEF TablesInv, TablesOK
<1>3. run' \in Run /\ run'.pc = "register" /\ run'.i = 1
  BY <1>1, <1>2 DEF Run, TablesOK
<1>4. /\ stk' \in Stack /\ ~stk'.adv /\ stk'.links = stk.links
      /\ \/ stk.links # {} /\ stk'.table = stk.table
         \/ stk'.table = << >> /\ stk'.defs = << >>
  <2>1. << >> \in Seq(Attrs)
    OBVIOUS
  <2> QED
    BY <1>1, <1>2, <2>1 DEF Stack
<1>5. IsInjective(<< >>) /\ ToSet(<< >>) = {}
  BY DEF IsInjective, ToSet
<1>6. Contained'
  BY <1>1, <1>2 DEF Contained, Live
<1>7. TablesOK'
  BY <1>1, <1>2, <1>3, <1>4, <1>5 DEF TablesOK
<1>8. \A a : Live(a)' <=> Live(a)
  BY <1>1 DEF Live
<1>9. ASSUME NEW a \in Attrs, Live(a) PROVE ~Handed(a)'
  <2>1. \A t \in Services : a \in Subtree(t) => Place(t) \in 1..Len(vec[Server])
    BY <1>2, <1>9, TreeIs DEF Placed, Attrs
  <2>2. \A t \in Services : a \in Subtree(t) => ~(Place(t) < 1)
    BY <1>2, <2>1 DEF Contained
  <2>3. \A t : Place(t)' = Place(t)
    BY <1>1, OrderStays
  <2> QED
    BY <1>3, <2>2, <2>3 DEF Handed
<1>10. Registering'
  <2>1. {a \in Wanted : Handed(a)}' = {}
    BY <1>8, <1>9 DEF Wanted, Exposed
  <2>2. vec[Server] \in Seq(Attrs)
    BY <1>2 DEF Contained
  <2>3. 1 \in 1..(Len(vec'[Server]) + 1)
    BY <1>1, <2>2
  <2>4. DOMAIN << >> = {}
    OBVIOUS
  <2> QED
    BY <1>3, <1>4, <1>5, <1>8, <1>9, <2>1, <2>3, <2>4 DEF Registering, Shows
<1> QED
  BY <1>1, <1>3, <1>6, <1>7, <1>10 DEF TablesInv, Reporting, Served

\* All services have been handed: the table is built from what the stack was given.
LEMMA GattsStartKeeps ==
  ASSUME TablesInv, ~srv.started, GattsStart
  PROVE  TablesInv'
<1>1. /\ run.pc = "register" /\ run.i > Len(vec[Server]) /\ stk.links = {}
      /\ stk' = [stk EXCEPT !.table = stk.defs, !.hidden = {}]
      /\ run' = [run EXCEPT !.pc = "callback", !.i = 1]
      /\ UNCHANGED <<att, vec, srv, hist>>
  BY DEF GattsStart, Registered
<1>2. Contained /\ TablesOK /\ run \in Run /\ stk \in Stack /\ Placed /\ Registering
  BY PlaceIs DEF TablesInv, TablesOK
<1>3. run' \in Run /\ run'.pc = "callback" /\ run'.i = 1
  <2>1. 1 \in 1..(Cardinality(Attrs) + 1)
    BY SizeIs
  <2> QED
    BY <1>1, <1>2, <2>1 DEF Run
<1>4. stk' \in Stack /\ stk'.table = stk.defs /\ stk'.adv = stk.adv
  BY <1>1, <1>2 DEF Stack
<1>5. ASSUME NEW a \in Attrs, Live(a) PROVE Handed(a)
  <2>1. PICK s \in Services : a \in Subtree(s)
    BY SubtreeIs
  <2>2. Live(s) /\ s \in Attrs /\ Parent[s] = Server
    BY <1>2, <1>5, <2>1, TreeIs DEF Placed, Attrs
  <2>3. Place(s) \in 1..Len(vec[Server]) /\ vec[Server] \in Seq(Attrs) /\ run.i \in Nat
    BY <1>2, <2>2 DEF Placed, Contained, Run
  <2>4. Place(s) < run.i
    BY <1>1, <2>3
  <2> QED
    BY <2>1, <2>4 DEF Handed
<1>6. {a \in Wanted : Handed(a)} = Wanted /\ \A a \in Wanted : Live(a)
  BY <1>5 DEF Wanted, Exposed
<1>7. Shows(stk.defs, Wanted) /\ \A a \in Attrs : Live(a) => att[a].handle = 0
  BY <1>1, <1>2, <1>5, <1>6 DEF Registering
<1>8. \A a \in Attrs : att[a].handle = 0
  BY <1>2, <1>7 DEF Contained
<1>9. PICK q \in Seq(Attrs) : q = stk.defs
  BY <1>2 DEF Stack
<1>10. PICK A : A = Wanted
  OBVIOUS
<1>11. IsInjective(q) /\ ToSet(q) = A
  BY <1>2, <1>6, <1>7, <1>9, <1>10, ShowsIs DEF Shows
<1>12. \A a : (Live(a)' <=> Live(a)) /\ (Removed(a)' <=> Removed(a))
  BY <1>1 DEF Live, Removed
<1>13. Wanted' = Wanted
  BY <1>12, WantedStays
<1>14. Shows(stk.table, Wanted)'
  <2>1. \A a, b : Before(a, b)' <=> Before(a, b)
    BY <1>1, OrderStays
  <2> QED
    BY <1>4, <1>7, <1>13, <2>1 DEF Shows
<1>15. Contained'
  BY <1>1, <1>2 DEF Contained, Live
<1>16. TablesOK'
  BY <1>1, <1>2, <1>3, <1>4, <1>6, <1>9, <1>10, <1>11 DEF TablesOK, Live
<1>17. Reporting'
  <2>1. 1 \in 1..(Len(q) + 1) /\ \A k \in 1..(1 - 1) : FALSE
    OBVIOUS
  <2> QED
    BY <1>1, <1>3, <1>4, <1>8, <1>9, <1>14, <2>1 DEF Reporting
<1> QED
  BY <1>1, <1>3, <1>15, <1>16, <1>17 DEF TablesInv, Registering, Served

LEMMA GattsStartFailsKeeps ==
  ASSUME TablesInv, ~srv.started, GattsStartFails
  PROVE  TablesInv'
<1>1. Leave /\ UNCHANGED <<att, vec, srv, stk, hist>>
  BY DEF GattsStartFails
<1>2. Contained'
  BY <1>1 DEF TablesInv, Contained, Live
<1> QED
  BY <1>1, <1>2, LeavesTables DEF TablesInv

-----------------------------------------------------------------------------
(* The callback of the table's entries.                                    *)

\* What follows an object of a subtree follows them all.
LEMMA Contiguous ==
  ASSUME Contained, NEW p \in Attrs, NEW b \in Subtree(p), NEW a \in Attrs,
         Live(a), Live(b), Live(p), Before(p, a), Before(a, b)
  PROVE  a \in Subtree(p)
<1>1. b \in Attrs /\ InTreeOrder
  BY OrderIs, SubtreeIs
<1>2. ~Before(b, a)
  BY <1>1 DEF InTreeOrder
<1>3. ASSUME NEW x \in Attrs, NEW y \in Attrs, p \in Subtree(x), a \in Subtree(y),
             Parent[x] = Parent[y], Place(x) < Place(y)
      PROVE  FALSE
  <2>1. b \in Subtree(x)
    BY <1>1, <1>3, SubtreesNest
  <2> QED
    BY <1>2, <1>3, <2>1 DEF Before
<1> QED
  BY <1>3 DEF Before

\* The callback of an entry whose parent's object is known finds its own object.
LEMMA CallbackFinds ==
  ASSUME TablesInv, run.pc = "callback", run.i \in DOMAIN stk.table
  PROVE  LET a == stk.table[run.i]
         IN  /\ a \in Wanted /\ Live(a) /\ KnownParent(a) = Parent[a]
             /\ FirstIn(Parent[a], Unhandled(UUID[a])) = a
<1> DEFINE a == stk.table[run.i]
           p == Parent[a]
           U == Unhandled(UUID[a])
<1>1. Contained /\ TablesOK /\ Reporting /\ Placed /\ InTreeOrder
  BY PlaceIs, OrderIs DEF TablesInv
<1>2. /\ stk.table \in Seq(Attrs) /\ IsInjective(stk.table)
      /\ run.i \in 1..Len(stk.table)
  BY <1>1 DEF TablesOK, Stack
<1>3. /\ Shows(stk.table, Wanted)
      /\ \A b \in Attrs : att[b].handle # 0 => att[b].handle < run.i /\ stk.table[att[b].handle] = b
      /\ \A k \in 1..(run.i - 1) : att[stk.table[k]].handle = k
      /\ \A m \in run.i..Len(stk.table), k \in 1..(run.i - 1) :
           Parent[stk.table[m]] = stk.table[k] => KnownParent(stk.table[m]) = stk.table[k]
  BY <1>1 DEF Reporting
<1>4. /\ \A i \in 1..Len(stk.table) : stk.table[i] \in Wanted
      /\ \A b \in Wanted : \E i \in 1..Len(stk.table) : stk.table[i] = b
      /\ \A i, j \in 1..Len(stk.table) : i < j <=> Before(stk.table[i], stk.table[j])
  <2>1. PICK q \in Seq(Attrs) : q = stk.table
    BY <1>2
  <2>2. PICK A : A = Wanted
    OBVIOUS
  <2>3. Shows(q, A) /\ \A b \in A : Live(b)
    BY <1>3, <2>1, <2>2 DEF Wanted, Exposed
  <2>4. /\ \A i \in 1..Len(q) : q[i] \in A
        /\ \A b \in A : \E i \in 1..Len(q) : q[i] = b
        /\ \A i, j \in 1..Len(q) : i < j <=> Before(q[i], q[j])
    BY <1>1, <2>3, ShowsIs
  <2> QED
    BY <2>1, <2>2, <2>4
<1>5. a \in Wanted /\ a \in Attrs /\ Exposed(a) /\ Live(a) /\ ~Removed(a)
  BY <1>2, <1>4, SubtreeIs DEF Wanted, Exposed
<1>6. a \in Children => /\ p \in Attrs /\ Exposed(p) /\ Before(p, a)
  <2>1. ASSUME a \in Children PROVE p \in Attrs /\ Exposed(p) /\ a \in Subtree(p) /\ a # p
    <3>1. p \in Attrs /\ a \in Subtree(p)
      BY <1>5, <2>1, SubtreeIs, TreeIs
    <3>2. a # p
      BY <1>5, <2>1, TreeIs
    <3> QED
      BY <1>1, <1>5, <2>1, <3>1, <3>2, ExposedIs
  <2> QED
    BY <2>1 DEF Before
<1>7. KnownParent(a) = p
  <2>1. CASE a \in Services
    BY <1>5, <2>1, TreeIs DEF KnownParent
  <2>2. CASE a \in Children
    <3>1. p \in Wanted
      BY <1>6, <2>2 DEF Wanted
    <3>2. PICK k \in 1..Len(stk.table) : stk.table[k] = p
      BY <1>4, <3>1
    <3>3. k < run.i
      BY <1>2, <1>4, <1>6, <2>2, <3>2
    <3>4. k \in 1..(run.i - 1) /\ run.i \in run.i..Len(stk.table)
      BY <1>2, <3>3
    <3> QED
      BY <1>3, <3>2, <3>4
  <2> QED
    BY <1>5, <2>1, <2>2 DEF Attrs
<1>8. a \in U
  <2>1. att[a].handle = 0
    <3>1. ASSUME att[a].handle # 0 PROVE FALSE
      <4>1. att[a].handle < run.i /\ stk.table[att[a].handle] = a /\ att[a].handle \in Nat
        BY <1>1, <1>3, <1>5, <3>1, SizeIs DEF Contained, Attribute
      <4>2. att[a].handle \in 1..Len(stk.table)
        BY <1>2, <3>1, <4>1
      <4> QED
        BY <1>2, <4>1, <4>2 DEF IsInjective
    <3> QED
      BY <3>1
  <2> QED
    BY <1>5, <2>1 DEF Unhandled
<1>9. p \in Attrs \cup {Server} /\ vec[p] \in Seq(Attrs) /\ Place(a) \in 1..Len(vec[p]) /\ vec[p][Place(a)] = a
  BY <1>1, <1>5, TreeIs DEF Placed, Attrs
<1>10. ASSUME NEW i \in 1..Len(vec[p]), vec[p][i] \in U PROVE ~(i < Place(a))
  <2> DEFINE x == vec[p][i]
  <2>1. x \in Attrs /\ Live(x) /\ Parent[x] = p /\ Place(x) = i /\ ~Removed(x) /\ att[x].handle = 0
    BY <1>1, <1>9, <1>10 DEF Placed, Unhandled
  <2> SUFFICES ASSUME i < Place(a) PROVE FALSE
    OBVIOUS
  <2>2. x \in Services <=> a \in Services
    BY <1>5, <2>1, TreeIs
  <2>3. Exposed(x)
    BY <1>1, <1>5, <1>6, <2>1, <2>2, ExposedIs, TreeIs DEF Attrs
  <2>4. x \in Subtree(x) /\ a \in Subtree(a)
    BY <1>5, <2>1, SubtreeIs
  <2>5. Before(x, a)
    BY <1>5, <2>1, <2>4 DEF Before
  <2>6. PICK m \in 1..Len(stk.table) : stk.table[m] = x
    BY <1>4, <2>1, <2>3 DEF Wanted
  <2>7. m < run.i
    BY <1>2, <1>4, <2>5, <2>6
  <2>8. m \in 1..(run.i - 1)
    BY <1>2, <2>7
  <2>9. att[stk.table[m]].handle = m
    BY <1>3, <2>8
  <2> HIDE DEF x
  <2> QED
    BY <2>1, <2>6, <2>9
<1>11. FirstIn(p, U) = a
  <2>1. PICK q \in Seq(Attrs) : q = vec[p]
    BY <1>9
  <2>2. PICK V : V = U
    OBVIOUS
  <2>3. PICK i : i = SelectInSeq(q, LAMBDA b : b \in V)
    OBVIOUS
  <2>4. \/ i = 0 /\ ToSet(q) \cap V = {}
        \/ i \in 1..Len(q) /\ q[i] \in V /\ \A j \in 1..(i - 1) : q[j] \notin V
    <3>1. LET j == SelectInSeq(q, LAMBDA b : b \in V)
          IN  \/ j = 0 /\ ToSet(q) \cap V = {}
              \/ j \in 1..Len(q) /\ q[j] \in V /\ \A l \in 1..(j - 1) : q[l] \notin V
      BY FirstIs
    <3> QED
      BY <2>3, <3>1
  <2>5. Place(a) \in 1..Len(q) /\ q[Place(a)] = a /\ a \in V /\ a \in ToSet(q)
    BY <1>8, <1>9, <2>1, <2>2, Members
  <2>6. i \in 1..Len(q) /\ q[i] \in V /\ \A j \in 1..(i - 1) : q[j] \notin V
    BY <2>4, <2>5
  <2>7. ~(i < Place(a))
    BY <1>10, <2>1, <2>2, <2>6
  <2>8. i = Place(a)
    BY <2>5, <2>6, <2>7
  <2>9. FirstIn(p, U) = IF i = 0 THEN Server ELSE q[i]
    BY <2>1, <2>2, <2>3 DEF FirstIn
  <2> QED
    BY <2>5, <2>6, <2>8, <2>9
<1> QED
  BY <1>5, <1>7, <1>11

\* The next of the following entries finds its parent.
LEMMA CallbackKeepsParents ==
  ASSUME TablesInv, run.pc = "callback", run.i \in DOMAIN stk.table, RegisterCallback,
         NEW m \in (run.i + 1)..Len(stk.table), NEW k \in 1..run.i,
         Parent[stk.table[m]] = stk.table[k]
  PROVE  KnownParent(stk.table[m])' = stk.table[k]
<1> DEFINE a == stk.table[run.i]
           b == stk.table[m]
           p == stk.table[k]
<1>1. Contained /\ TablesOK /\ Reporting /\ Placed /\ InTreeOrder
  BY PlaceIs, OrderIs DEF TablesInv
<1>2. /\ stk.table \in Seq(Attrs) /\ run \in Run
      /\ run.i \in 1..Len(stk.table) /\ m \in 1..Len(stk.table) /\ k \in 1..Len(stk.table)
      /\ run.i < m /\ (k = run.i \/ k < run.i)
  BY <1>1 DEF TablesOK, Stack
<1>3. /\ \A i \in 1..Len(stk.table) : stk.table[i] \in Attrs /\ Live(stk.table[i])
      /\ \A i, j \in 1..Len(stk.table) : i < j <=> Before(stk.table[i], stk.table[j])
  <2>1. PICK q \in Seq(Attrs) : q = stk.table
    BY <1>2
  <2>2. PICK A : A = Wanted
    OBVIOUS
  <2>3. Shows(q, A) /\ A \subseteq Attrs /\ \A c \in A : Live(c)
    BY <1>1, <2>1, <2>2 DEF Wanted, Exposed, Reporting
  <2>4. /\ \A i \in 1..Len(q) : q[i] \in A
        /\ \A i, j \in 1..Len(q) : i < j <=> Before(q[i], q[j])
    BY <1>1, <2>3, ShowsIs
  <2> QED
    BY <2>1, <2>3, <2>4
<1>4. /\ a \in Attrs /\ b \in Attrs /\ p \in Attrs /\ Live(a) /\ Live(b) /\ Live(p)
      /\ Before(a, b) /\ (k < run.i => Before(p, a)) /\ (k = run.i => p = a)
      /\ Parent[b] = p
  BY <1>2, <1>3
<1>5. k < run.i => KnownParent(b) = p
  <2>1. ASSUME k < run.i PROVE m \in run.i..Len(stk.table) /\ k \in 1..(run.i - 1)
    BY <1>2, <2>1
  <2> QED
    BY <1>1, <1>4, <2>1 DEF Reporting
<1>6. /\ a \in Services => run'.svc = a /\ run'.chr = run.chr
      /\ a \in Children /\ Parent[a] \in Services => run'.chr = a /\ run'.svc = run.svc
      /\ a \in Children /\ Parent[a] \notin Services => run'.chr = run.chr /\ run'.svc = run.svc
  <2>1. a \in Attrs /\ KnownParent(a) = Parent[a] /\ FirstIn(Parent[a], Unhandled(UUID[a])) = a
    BY <1>4, CallbackFinds
  <2>2. a \in Children => Parent[a] # Server
    BY <2>1, TreeIs
  <2> DEFINE known == KnownParent(a)
             obj == IF a \in Children /\ known = Server THEN Server ELSE FirstIn(known, Unhandled(UUID[a]))
  <2>3. run' = IF a \in Services THEN [run EXCEPT !.i = @ + 1, !.svc = obj]
               ELSE IF Parent[a] \in Services THEN [run EXCEPT !.i = @ + 1, !.chr = obj]
               ELSE [run EXCEPT !.i = @ + 1]
    BY DEF RegisterCallback
  <2>4. obj = a
    BY <2>1, <2>2
  <2> HIDE DEF obj, known, a
  <2> QED
    BY <1>2, <1>4, <2>3, <2>4, TreeIs DEF Run
<1>7. b \in Subtree(p) /\ b \in Children /\ (k < run.i => a \in Subtree(p) /\ a # p)
  <2>1. b \in Children /\ b \in Subtree(p)
    BY <1>4, TreeIs, SubtreeIs
  <2>2. ASSUME k < run.i PROVE a \in Subtree(p)
    BY <1>1, <1>4, <2>1, <2>2, Contiguous
  <2>3. k < run.i => a # p
    BY <1>1, <1>4 DEF InTreeOrder
  <2> QED
    BY <2>1, <2>2, <2>3
<1>8. stk' = stk
  BY DEF RegisterCallback
<1>9. KnownParent(stk.table[m])' = IF Parent[b] \in Services THEN run'.svc ELSE run'.chr
  BY <1>4, <1>7, <1>8, TreeIs DEF KnownParent
<1>10. k < run.i => KnownParent(b) = IF Parent[b] \in Services THEN run.svc ELSE run.chr
  BY <1>4, <1>7, TreeIs DEF KnownParent
<1> HIDE DEF a, b, p
<1>11. CASE p \in Services
  <2>1. CASE k = run.i
    BY <1>4, <1>6, <1>9, <1>11, <2>1 DEF p
  <2>2. CASE k < run.i
    <3>1. a \in Children
      BY <1>4, <1>7, <1>11, <2>2, SubtreeIs
    <3> QED
      BY <1>4, <1>5, <1>6, <1>9, <1>10, <1>11, <2>2, <3>1, TreeIs DEF p
  <2> QED
    BY <1>2, <2>1, <2>2
<1>12. CASE p \notin Services
  <2>1. p \in Children /\ Parent[p] \in Services
    <3>1. p \in Children
      BY <1>4, <1>12, TreeIs
    <3> QED
      BY <1>4, <1>7, <3>1, TreeIs
  <2>2. CASE k = run.i
    BY <1>4, <1>6, <1>9, <1>12, <2>1, <2>2 DEF p
  <2>3. CASE k < run.i
    <3>1. Parent[a] = p /\ a \in Children
      BY <1>4, <1>7, <2>1, <2>3, WayDown
    <3> QED
      BY <1>4, <1>5, <1>6, <1>9, <1>10, <1>12, <2>3, <3>1 DEF p
  <2> QED
    BY <1>2, <2>2, <2>3
<1> QED
  BY <1>11, <1>12

\* The callback: the entry's object gets its handle.
LEMMA CallbackKeeps ==
  ASSUME TablesInv, ~srv.started, RegisterCallback
  PROVE  TablesInv'
<1> DEFINE a == stk.table[run.i]
<1>1. /\ run.pc = "callback" /\ run.i \in DOMAIN stk.table
      /\ UNCHANGED <<vec, srv, stk, hst, hist>>
  BY DEF RegisterCallback
<1>2. Contained /\ TablesOK /\ Reporting
  BY DEF TablesInv
<1>3. /\ stk.table \in Seq(Attrs) /\ run \in Run /\ IsInjective(stk.table)
      /\ run.i \in 1..Len(stk.table) /\ Len(stk.table) \in 0..Cardinality(Attrs)
  BY <1>1, <1>2, TableSizes DEF TablesOK, Stack
<1>4. /\ a \in Attrs /\ Live(a) /\ KnownParent(a) = Parent[a]
      /\ FirstIn(Parent[a], Unhandled(UUID[a])) = a
  BY <1>1, CallbackFinds DEF Wanted
<1>5. /\ att' = [att EXCEPT ![a].handle = run.i]
      /\ run' = IF a \in Services THEN [run EXCEPT !.i = @ + 1, !.svc = a]
                ELSE IF Parent[a] \in Services THEN [run EXCEPT !.i = @ + 1, !.chr = a]
                ELSE [run EXCEPT !.i = @ + 1]
  <2> DEFINE known == KnownParent(a)
             obj == IF a \in Children /\ known = Server THEN Server ELSE FirstIn(known, Unhandled(UUID[a]))
  <2>1. /\ att' = IF obj = Server THEN att ELSE [att EXCEPT ![obj].handle = run.i]
        /\ run' = IF a \in Services THEN [run EXCEPT !.i = @ + 1, !.svc = obj]
                  ELSE IF Parent[a] \in Services THEN [run EXCEPT !.i = @ + 1, !.chr = obj]
                  ELSE [run EXCEPT !.i = @ + 1]
    BY DEF RegisterCallback
  <2>2. a \in Children => Parent[a] # Server
    BY <1>4, TreeIs
  <2>3. obj = a /\ a # Server
    BY <1>4, <2>2, TreeIs
  <2> HIDE DEF obj, a
  <2> QED
    BY <2>1, <2>3
<1>6. run' \in Run /\ run'.pc = "callback" /\ run'.i = run.i + 1
  <2>1. run.i + 1 \in 1..(Cardinality(Attrs) + 1)
    BY <1>3, SizeIs
  <2>2. a \in Services \/ a \in Children
    BY <1>4 DEF Attrs
  <2> HIDE DEF a
  <2> QED
    BY <1>1, <1>3, <1>5, <2>1, <2>2, TreeIs DEF Run
<1>7. /\ att' \in [Attrs -> Attribute] /\ att'[a].handle = run.i
      /\ \A b \in Attrs : att'[b].state = att[b].state /\ att'[b].removed = att[b].removed
      /\ \A b \in Attrs : b # a => att'[b].handle = att[b].handle
  <2>1. att \in [Attrs -> Attribute]
    BY <1>2 DEF Contained
  <2>2. run.i \in 0..Cardinality(Attrs)
    BY <1>3, SizeIs
  <2> HIDE DEF a
  <2> QED
    BY <1>4, <1>5, <2>1, <2>2 DEF Attribute
<1>8. \A b \in Attrs : (Live(b)' <=> Live(b)) /\ (Removed(b)' <=> Removed(b))
  BY <1>7 DEF Live, Removed
<1>9. Contained'
  <2>1. \A p \in Attrs \cup {Server} : \A b \in ToSet(vec[p]) : b \in Attrs
    BY <1>2, Members DEF Contained
  <2>2. \A b \in Attrs : ~Live(b)' => att'[b].handle = 0
    BY <1>2, <1>4, <1>7, <1>8 DEF Contained
  <2>3. \A p \in Attrs \cup {Server} :
          /\ IsInjective(vec[p])
          /\ \A b \in ToSet(vec[p]) : Parent[b] = p /\ att'[b].state = "live"
    BY <1>2, <1>7, <2>1 DEF Contained
  <2>4. \A b \in Attrs : Live(b)' => b \in ToSet(vec[Parent[b]]) /\ (Parent[b] \in Attrs => Live(Parent[b])')
    BY <1>2, <1>8 DEF Contained
  <2>5. vec \in [Attrs \cup {Server} -> Seq(Attrs)] /\ vec' = vec
    BY <1>1, <1>2 DEF Contained
  <2> QED
    BY <1>7, <2>2, <2>3, <2>4, <2>5 DEF Contained
<1>10. TablesOK'
  <2>1. ToSet(stk.table) \subseteq Attrs
    BY <1>3, Members
  <2> QED
    BY <1>1, <1>2, <1>6, <1>7, <2>1 DEF TablesOK
<1>11. Reporting'
  <2>1. run.i + 1 \in 1..(Len(stk.table) + 1)
    BY <1>3
  <2>2. Shows(stk.table, Wanted)'
    <3>1. Wanted' = Wanted
      BY <1>8, WantedStays
    <3>2. \A b, c : Before(b, c)' <=> Before(b, c)
      BY <1>1, OrderStays
    <3> QED
      BY <1>1, <1>2, <3>1, <3>2 DEF Reporting, Shows
  <2>3. /\ \A b \in Attrs : att[b].handle # 0 => att[b].handle < run.i /\ stk.table[att[b].handle] = b
        /\ \A k \in 1..(run.i - 1) : att[stk.table[k]].handle = k
    BY <1>1, <1>2 DEF Reporting
  <2>4. ASSUME NEW b \in Attrs, att'[b].handle # 0
        PROVE  att'[b].handle < run.i + 1 /\ stk.table[att'[b].handle] = b
    <3>1. CASE b = a
      BY <1>3, <1>7, <3>1
    <3>2. CASE b # a
      <4>1. att'[b].handle = att[b].handle /\ att[b].handle < run.i /\ stk.table[att[b].handle] = b
        BY <1>7, <2>3, <2>4, <3>2
      <4>2. att[b].handle \in Nat
        BY <1>2, SizeIs DEF Contained, Attribute
      <4> QED
        BY <1>3, <4>1, <4>2
    <3> QED
      BY <3>1, <3>2
  <2>5. ASSUME NEW k \in 1..run.i PROVE att'[stk.table[k]].handle = k
    <3>1. CASE k = run.i
      BY <1>7, <3>1
    <3>2. CASE k # run.i
      <4>1. k \in 1..(run.i - 1) /\ k \in 1..Len(stk.table)
        BY <1>3, <3>2
      <4>2. stk.table[k] # a /\ stk.table[k] \in Attrs
        BY <1>3, <3>2, <4>1 DEF IsInjective
      <4> QED
        BY <1>7, <2>3, <4>1, <4>2
    <3> QED
      BY <3>1, <3>2
  <2>6. \A m \in (run.i + 1)..Len(stk.table), k \in 1..run.i :
          Parent[stk.table[m]] = stk.table[k] => KnownParent(stk.table[m])' = stk.table[k]
    BY <1>1, CallbackKeepsParents
  <2>7. (run.i + 1) - 1 = run.i
    BY <1>3
  <2> HIDE DEF a
  <2> QED
    BY <1>1, <1>6, <2>1, <2>2, <2>4, <2>5, <2>6, <2>7 DEF Reporting
<1> QED
  BY <1>1, <1>6, <1>9, <1>10, <1>11 DEF TablesInv, Registering, Served

\* The last entry has been reported: each of the objects that are served has its handle.
LEMMA StartedKeeps ==
  ASSUME ServerInv, TablesInv, Started
  PROVE  TablesInv'
<1>1. /\ run.pc = "callback" /\ run.i > Len(stk.table)
      /\ hist' = [told |-> IF srv.changed \/ hist.told = <<Server>> THEN stk.table ELSE hist.told,
                  missed |-> FALSE]
      /\ stk' = [stk EXCEPT !.adv = run.adv] /\ run' = IdleRun
      /\ UNCHANGED <<att, vec>>
  BY DEF Started, Leave
<1>2. Contained /\ TablesOK /\ Reporting
  BY DEF TablesInv
<1>3. /\ stk' \in Stack /\ stk'.table = stk.table /\ stk.table \in Seq(Attrs)
      /\ run.i \in 1..(Len(stk.table) + 1)
  BY <1>1, <1>2 DEF TablesOK, Stack, Run, Reporting
<1>4. run' \in Run /\ run'.pc = "idle"
  BY <1>1, SizeIs DEF IdleRun, Run
<1>5. hist' \in History
  <2>1. PICK t \in Seq(Attrs) \cup {<<Server>>} : t = IF srv.changed \/ hist.told = <<Server>> THEN stk.table ELSE hist.told
    BY <1>2, <1>3 DEF TablesOK, History
  <2> QED
    BY <1>1, <2>1 DEF History
<1>6. \A b : (Live(b)' <=> Live(b)) /\ (Removed(b)' <=> Removed(b))
  BY <1>1 DEF Live, Removed
<1>7. Contained'
  BY <1>1, <1>2 DEF Contained, Live
<1>8. TablesOK'
  BY <1>1, <1>2, <1>3, <1>4, <1>5 DEF TablesOK
<1>9. Served'
  <2>1. Shows(stk.table, Wanted)'
    <3>1. Wanted' = Wanted
      BY <1>6, WantedStays
    <3>2. \A b, c : Before(b, c)' <=> Before(b, c)
      BY <1>1, OrderStays
    <3> QED
      BY <1>1, <1>2, <1>3, <3>1, <3>2 DEF Reporting, Shows
  <2>2. /\ \A b \in Attrs : att[b].handle # 0 => att[b].handle < run.i /\ stk.table[att[b].handle] = b
        /\ \A k \in 1..(run.i - 1) : att[stk.table[k]].handle = k
    BY <1>1, <1>2 DEF Reporting
  <2>3. DOMAIN stk.table = 1..Len(stk.table) /\ run.i = Len(stk.table) + 1
    BY <1>1, <1>3
  <2>4. \A b \in Attrs : att[b].handle # 0 => att[b].handle \in DOMAIN stk.table
    <3>1. \A b \in Attrs : att[b].handle \in Nat
      BY <1>2, SizeIs DEF Contained, Attribute
    <3> QED
      BY <1>3, <2>2, <2>3, <3>1
  <2>5. \A h \in DOMAIN stk.table : att[stk.table[h]].handle = h
    BY <1>3, <2>2, <2>3
  <2> QED
    BY <1>1, <1>3, <2>1, <2>2, <2>4, <2>5 DEF Served
<1> QED
  BY <1>4, <1>7, <1>8, <1>9 DEF TablesInv, Registering, Reporting

-----------------------------------------------------------------------------
LEMMA InitTables == Init => TablesInv
<1> SUFFICES ASSUME Init PROVE TablesInv
  OBVIOUS
<1>1. /\ att = [a \in Attrs |-> [state |-> "none", removed |-> "no", handle |-> 0]]
      /\ vec = [p \in Attrs \cup {Server} |-> << >>]
      /\ ~srv.started /\ run = IdleRun
      /\ stk = [links |-> {}, adv |-> FALSE, defs |-> << >>, table |-> << >>, hidden |-> {}]
      /\ hist = [told |-> <<Server>>, missed |-> FALSE]
  BY DEF Init
<1>2. << >> \in Seq(Attrs) /\ IsInjective(<< >>) /\ ToSet(<< >>) = {}
  BY DEF IsInjective, ToSet
<1>3. Contained
  BY <1>1, <1>2, SizeIs DEF Contained, Attribute, Live
<1>4. TablesOK /\ run.pc = "idle"
  BY <1>1, <1>2, SizeIs DEF TablesOK, IdleRun, Run, Stack, History
<1> QED
  BY <1>1, <1>3, <1>4 DEF TablesInv, Registering, Reporting, Served

LEMMA NextTables == ServerInv /\ TablesInv /\ [Next]_vars => TablesInv'
<1> SUFFICES ASSUME ServerInv, TablesInv, [Next]_vars PROVE TablesInv'
  OBVIOUS
<1>1. CASE UNCHANGED <<att, vec, srv, run, stk, hist>>
  <2>1. stk' \in Stack /\ (run.pc \in {"register", "callback"} => ~stk'.adv)
    BY <1>1 DEF TablesInv, TablesOK
  <2> QED
    BY <1>1, <2>1, TablesStay
<1>2. CASE CallStart \/ CallAdvertise
  <2>1. run.pc = "idle" /\ \E advertise \in BOOLEAN : Start("app", advertise)
    BY <1>2 DEF CallStart, CallAdvertise, MayCall
  <2> QED
    BY <2>1, StartKeepsTables
<1>3. CASE HostAdvertise /\ ~stk.adv
  <2>1. run.pc = "idle" /\ Start("host", TRUE)
    BY <1>3 DEF HostAdvertise
  <2> QED
    BY <2>1, StartKeepsTables
<1>4. CASE HostAdvertise /\ stk.adv
  BY <1>1, <1>4 DEF HostAdvertise
<1>5. CASE LinkStep \/ (HostStep /\ ~HostAdvertise)
  BY <1>5, PeersKeepTables
<1>6. CASE StartStep
  <2>1. ~srv.started
    BY <1>6 DEF ServerInv, Telling, StartStep, ResetStack, EraseService, RegisterService, RegisterFails,
                AtService, GattsStart, GattsStartFails, Registered, RegisterCallback, Started
  <2> QED
    BY <1>6, <2>1, ResetKeeps, EraseKeeps, RegisterKeeps, RegisterFailsKeeps, GattsStartKeeps,
       GattsStartFailsKeeps, CallbackKeeps, StartedKeeps DEF StartStep
<1>7. CASE Change
  BY <1>7, ChangeKeepsTables
<1> QED
  BY <1>1, <1>2, <1>3, <1>4, <1>5, <1>6, <1>7 DEF Next, vars

\* The containers, the handles and the table in every state of the server: what
\* the calls, each step of start() and the events preserve of them.
THEOREM TablesInvariance == Spec => [](ServerInv /\ TablesInv)
<1>1. Init => ServerInv /\ TablesInv
  BY InitServerInv, InitTables
<1>2. ServerInv /\ TablesInv /\ [Next]_vars => (ServerInv /\ TablesInv)'
  BY NextServerInv, NextTables
<1> QED
  BY <1>1, <1>2, PTL DEF Spec

-----------------------------------------------------------------------------
(* The lookups, and the properties.                                        *)

\* A search of a container.
LEMMA SearchIs ==
  ASSUME Contained, NEW p \in Attrs \cup {Server}, NEW S
  PROVE  \/ FirstIn(p, S) = Server /\ \A a \in Attrs : Live(a) /\ Parent[a] = p => a \notin S
         \/ /\ FirstIn(p, S) \in Attrs /\ FirstIn(p, S) \in S
            /\ Live(FirstIn(p, S)) /\ Parent[FirstIn(p, S)] = p
<1>1. PICK q \in Seq(Attrs) : q = vec[p]
  BY DEF Contained
<1>2. /\ ToSet(q) \subseteq Attrs /\ \A a \in ToSet(q) : Parent[a] = p /\ Live(a)
      /\ \A a \in Attrs : Live(a) /\ Parent[a] = p => a \in ToSet(q)
  BY <1>1, Members DEF Contained, Live
<1>3. PICK i : i = SelectInSeq(q, LAMBDA b : b \in S)
  OBVIOUS
<1>4. \/ i = 0 /\ ToSet(q) \cap S = {}
      \/ i \in 1..Len(q) /\ q[i] \in S /\ \A j \in 1..(i - 1) : q[j] \notin S
  <2>1. LET j == SelectInSeq(q, LAMBDA b : b \in S)
        IN  \/ j = 0 /\ ToSet(q) \cap S = {}
            \/ j \in 1..Len(q) /\ q[j] \in S /\ \A l \in 1..(j - 1) : q[l] \notin S
    BY FirstIs
  <2> QED
    BY <1>3, <2>1
<1>5. FirstIn(p, S) = IF i = 0 THEN Server ELSE q[i]
  BY <1>1, <1>3 DEF FirstIn
<1>6. CASE i = 0
  BY <1>2, <1>4, <1>5, <1>6
<1>7. CASE i \in 1..Len(q) /\ q[i] \in S
  <2>1. i # 0 /\ q[i] \in ToSet(q)
    BY <1>7, Members
  <2> QED
    BY <1>2, <1>5, <1>7, <2>1
<1> QED
  BY <1>4, <1>6, <1>7

\* By its handle an entry's object is found, and nothing else.
LEMMA HandlesLead ==
  ASSUME TablesInv, srv.started, NEW h \in DOMAIN stk.table
  PROVE  ByHandle(h) = IF Live(stk.table[h]) THEN stk.table[h] ELSE Server
<1> DEFINE a == stk.table[h]
           W == WithHandle(h)
<1>1. Contained /\ Served /\ Placed
  BY PlaceIs DEF TablesInv
<1>2. stk.table \in Seq(Attrs) /\ h \in 1..Len(stk.table) /\ a \in Attrs
  BY TableSizes
<1>3. \A b \in Attrs : b \in W <=> Live(b) /\ b = a
  <2>1. \A b \in Attrs : att[b].handle # 0 => stk.table[att[b].handle] = b
    BY <1>1 DEF Served
  <2>2. Live(a) => att[a].handle = h
    BY <1>1 DEF Served
  <2>3. ~Live(a) => att[a].handle = 0
    BY <1>1, <1>2 DEF Contained
  <2> QED
    BY <1>2, <2>1, <2>2, <2>3 DEF WithHandle
<1>4. Server \notin Attrs /\ Parent[a] \in Attrs \cup {Server}
  BY <1>2, TreeIs DEF Attrs
<1>5. ASSUME NEW p \in Attrs \cup {Server}
      PROVE  FirstIn(p, W) = IF Live(a) /\ Parent[a] = p THEN a ELSE Server
  <2>1. \/ FirstIn(p, W) = Server /\ \A b \in Attrs : Live(b) /\ Parent[b] = p => b \notin W
        \/ /\ FirstIn(p, W) \in Attrs /\ FirstIn(p, W) \in W
           /\ Live(FirstIn(p, W)) /\ Parent[FirstIn(p, W)] = p
    BY <1>1, SearchIs
  <2> QED
    BY <1>2, <1>3, <2>1
<1> HIDE DEF a, W
<1>6. ByHandle(h) = IF a \in Services THEN FirstIn(Server, W)
                    ELSE IF Parent[a] \in Services THEN CharacteristicByHandle(h)
                    ELSE FirstIn(Parent[a], W)
  BY DEF ByHandle, ServiceByHandle, DescriptorByHandle, a, W
<1>7. ASSUME a \notin Services, Parent[a] \in Services
      PROVE  CharacteristicByHandle(h) = IF Live(a) THEN a ELSE Server
  <2>1. PICK S : S = {s \in Services : CharacteristicIn(s, h) # Server}
    OBVIOUS
  <2>2. \A s \in Services : CharacteristicIn(s, h) = IF Live(a) /\ Parent[a] = s THEN a ELSE Server
    BY <1>5 DEF CharacteristicIn, W, Attrs
  <2>3. \A s : s \in S <=> s \in Services /\ Live(a) /\ Parent[a] = s
    BY <1>2, <1>4, <2>1, <2>2 DEF a
  <2>4. PICK t : t = FirstIn(Server, S)
    OBVIOUS
  <2>5. CharacteristicByHandle(h) = IF t = Server THEN Server ELSE CharacteristicIn(t, h)
    BY <2>1, <2>4 DEF CharacteristicByHandle
  <2>6. \/ t = Server /\ \A b \in Attrs : Live(b) /\ Parent[b] = Server => b \notin S
        \/ t \in Attrs /\ t \in S
    BY <1>1, <2>4, SearchIs
  <2>7. Live(a) => Live(Parent[a]) /\ Parent[a] \in Attrs /\ Parent[Parent[a]] = Server
    BY <1>1, <1>2, <1>7, TreeIs DEF Contained, Attrs, a
  <2>8. t # Server <=> Live(a)
    BY <1>4, <1>7, <2>3, <2>6, <2>7
  <2>9. t # Server => t \in Services /\ t = Parent[a]
    BY <2>3, <2>6
  <2> QED
    BY <2>2, <2>5, <2>8, <2>9
<1>8. a \in Services => Parent[a] = Server
  BY <1>2, TreeIs DEF a
<1> QED
  BY <1>4, <1>5, <1>6, <1>7, <1>8 DEF a

\* By its UUID and its index among those of the UUID each object is found once.
LEMMA IndexesLead ==
  ASSUME Contained, NEW a \in Attrs
  PROVE  Cardinality({i \in 0..Cardinality(Attrs) : ByUUID(Parent[a], UUID[a], i) = a})
           = (IF Live(a) THEN 1 ELSE 0)
<1>1. PICK p \in Attrs \cup {Server} : p = Parent[a]
  BY TreeIs DEF Attrs
<1>2. PICK q \in Seq(Attrs) : q = vec[p] /\ IsInjective(q)
  BY DEF Contained
<1>3. PICK K : K = WithUUID(p, UUID[a])
  OBVIOUS
<1>4. K = {k \in 1..Len(q) : UUID[q[k]] = UUID[a]}
  BY <1>2, <1>3 DEF WithUUID
<1>5. Len(q) \in Nat /\ K \in SUBSET (1..Len(q)) /\ Len(q) <= Cardinality(Attrs)
  BY <1>2, <1>4, SizeIs, ShortIs
<1>6. /\ Cardinality(K) \in 0..Len(q)
      /\ \A i \in 0..(Cardinality(K) - 1) : \E k \in K : Nth(K, i) = {k}
      /\ \A i \in Nat : i >= Cardinality(K) => Nth(K, i) = {}
      /\ \A k \in K : \E i \in 0..(Cardinality(K) - 1) : Nth(K, i) = {k}
      /\ \A i, j \in Nat : \A k, l : k \in Nth(K, i) /\ l \in Nth(K, j) /\ i < j => k < l
  BY <1>5, NthIs
<1>7. ASSUME NEW i PROVE ByUUID(p, UUID[a], i) = IF Nth(K, i) = {} THEN Server
                                                 ELSE q[CHOOSE k \in K : k \in Nth(K, i)]
  <2>1. ByUUID(p, UUID[a], i) = AtIndex(p, K, i)
    BY <1>3 DEF ByUUID, ServiceByUUID, CharacteristicByUUID, DescriptorByUUID
  <2> QED
    BY <1>2, <2>1 DEF AtIndex
<1>8. ASSUME NEW i \in Nat
      PROVE  ByUUID(p, UUID[a], i) = a <=> \E k \in K : Nth(K, i) = {k} /\ q[k] = a
  <2>1. a # Server
    BY TreeIs
  <2>2. CASE Nth(K, i) = {}
    BY <1>7, <2>1, <2>2
  <2>3. ASSUME NEW k \in K, Nth(K, i) = {k} PROVE ByUUID(p, UUID[a], i) = a <=> q[k] = a
    <3>1. (CHOOSE l \in K : l \in Nth(K, i)) = k
      BY <2>3
    <3> QED
      BY <1>7, <2>3, <3>1
  <2>4. Nth(K, i) = {} \/ \E k \in K : Nth(K, i) = {k}
    BY <1>6
  <2> QED
    BY <2>2, <2>3, <2>4
<1> DEFINE I == {i \in 0..Cardinality(Attrs) : ByUUID(Parent[a], UUID[a], i) = a}
<1>9. \A i \in I : i \in Nat /\ \E k \in K : Nth(K, i) = {k} /\ q[k] = a
  BY <1>1, <1>8
<1>10. CASE ~Live(a)
  <2>1. \A k \in K : q[k] # a
    <3>1. \A b \in ToSet(q) : Live(b)
      BY <1>2 DEF Contained, Live
    <3> QED
      BY <1>4, <1>10, <3>1, Members
  <2>2. I = {}
    BY <1>9, <2>1
  <2> QED
    BY <1>10, <2>2, FS_EmptySet
<1>11. CASE Live(a)
  <2>1. PICK k \in 1..Len(q) : q[k] = a
    <3>1. a \in ToSet(q)
      BY <1>1, <1>2, <1>11 DEF Contained
    <3> QED
      BY <3>1, Members
  <2>2. k \in K /\ \A l \in K : q[l] = a => l = k
    BY <1>2, <1>4, <2>1 DEF IsInjective
  <2>3. PICK i \in 0..(Cardinality(K) - 1) : Nth(K, i) = {k}
    BY <1>6, <2>2
  <2>4. i \in 0..Cardinality(Attrs) /\ i \in Nat
    BY <1>5, <1>6, SizeIs
  <2>5. i \in I
    BY <1>1, <1>8, <2>1, <2>2, <2>3, <2>4
  <2>6. ASSUME NEW j \in I PROVE j = i
    <3>1. j \in Nat /\ Nth(K, j) = {k}
      BY <1>9, <2>2
    <3>2. k \in Nth(K, i) /\ k \in Nth(K, j) /\ ~(k < k)
      BY <2>1, <2>3, <3>1
    <3>3. ~(i < j) /\ ~(j < i)
      BY <1>6, <2>4, <3>1, <3>2
    <3> QED
      BY <2>4, <3>1, <3>3
  <2>7. I = {i}
    BY <2>5, <2>6
  <2> QED
    BY <1>11, <2>7, FS_Singleton
<1> QED
  BY <1>10, <1>11

LEMMA InvImpliesOwn == ServerInv /\ TablesInv => HandleIsOwn
<1> SUFFICES ASSUME ServerInv, TablesInv PROVE HandleIsOwn
  OBVIOUS
<1>1. ASSUME srv.started, NEW a \in Attrs, att[a].handle # 0 PROVE att[a].handle \in DOMAIN stk.table
  BY <1>1 DEF TablesInv, Served
<1>2. ASSUME srv.started, NEW h \in DOMAIN stk.table
      PROVE  ByHandle(h) = IF Live(stk.table[h]) THEN stk.table[h] ELSE Server
  BY <1>2, HandlesLead
<1>3. \A a \in Attrs :
        Cardinality({i \in 0..Cardinality(Attrs) : ByUUID(Parent[a], UUID[a], i) = a})
          = (IF Live(a) THEN 1 ELSE 0)
  BY IndexesLead DEF TablesInv
<1> QED
  BY <1>1, <1>2, <1>3 DEF HandleIsOwn, Serving

\* Duplicate UUIDs, hidden, deleted and returned objects, starts that fail or are
\* refused: while the server serves, a handle leads to the object of its entry or,
\* once that is deleted, to none; and the index among those of its UUID leads the
\* application to each object there is.
THEOREM HandlesAreOwn == Spec => []HandleIsOwn
BY TablesInvariance, InvImpliesOwn, PTL

\* A server with no change pending serves exactly what the application wants the
\* peers to see, in the order of the containers, but for what two of the calls
\* change without setServiceChanged().
THEOREM StartsApply == Spec => []StartApplies
<1>1. ServerInv /\ TablesInv => StartApplies
  BY DEF ServerInv, Telling, TablesInv, Served, StartApplies, Serving
<1> QED
  BY <1>1, ServerInvariance, TablesInvariance, PTL

LEMMA InvImpliesTypes == ServerInv /\ TablesInv => TypeOK
<1> SUFFICES ASSUME ServerInv, TablesInv PROVE TypeOK
  OBVIOUS
<1> QED
  BY DEF TypeOK, ServerInv, ShapesOK, TablesInv, TablesOK, Contained

\* The containers hold what exists, each object once, and m_connectedPeers the
\* peers, whom getPeerInfo() and getPeerDevices() list in the same order.
THEOREM PeersCounted == Spec => []PeersAreCounted
<1>1. ASSUME ServerInv, hst.ev \in {"none", "advertise"}, NEW i \in 0..Slots
      PROVE  PeerInfo(i) = IF i < Cardinality(stk.links) THEN PeerDevices[i + 1] ELSE NoPeer
  <2>1. Cardinality(stk.links) \in 0..Slots /\ Slots \in Nat
    BY <1>1, PeerInfoIs, LinksIs
  <2>2. CASE i < Cardinality(stk.links)
    <3>1. i \in 0..(Cardinality(stk.links) - 1)
      BY <2>1, <2>2
    <3> QED
      BY <1>1, <2>2, <3>1, PeerInfoIs
  <2>3. CASE ~(i < Cardinality(stk.links))
    BY <1>1, <2>1, <2>3, PeerInfoIs
  <2> QED
    BY <2>2, <2>3
<1>2. ServerInv /\ TablesInv => PeersAreCounted
  BY <1>1, InvImpliesTypes, InvImpliesHeld DEF PeersAreCounted
<1> QED
  BY <1>2, TablesInvariance, PTL
=============================================================================
