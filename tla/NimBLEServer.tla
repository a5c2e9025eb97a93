---------------------------- MODULE NimBLEServer ----------------------------
(***************************************************************************)
(* The GATT server: services, characteristics and descriptors that the     *)
(* application creates, hides, deletes and puts back, start() with         *)
(* resetGATT(), by which the changes reach the stack's attribute table,    *)
(* and the peers that connect and disconnect meanwhile.                    *)
(*                                                                         *)
(* Characteristics of a service and descriptors of a characteristic are    *)
(* kept by the same code one level apart: both are Children here.  The     *)
(* containers have no lock, so the calls of the application do not overlap *)
(* a start(), which the disconnect handler may run too; the host task's    *)
(* events do.                                                              *)
(***************************************************************************)
EXTENDS SequencesExt, Lists

CONSTANTS
  Services,   \* the NimBLEService objects the application creates
  Children,   \* its characteristics and descriptors
  Parent,     \* the service of a characteristic, the characteristic of a descriptor
  UUID,       \* of a service, characteristic or descriptor; not unique
  Server,     \* the parent of the services: m_svcVec
  Peers,      \* connection handles
  NoPeer,     \* BLE_HS_CONN_HANDLE_NONE
  Slots       \* BLE_MAX_CONNECTIONS

Attrs == Services \cup Children

ASSUME ServerAssumption ==
  /\ IsFiniteSet(Attrs)
  /\ Services \cap Children = {}
  /\ Server \notin Attrs
  /\ Parent \in [Attrs -> Attrs \cup {Server}]
  /\ \A s \in Services : Parent[s] = Server
  /\ \A c \in Children :
       \/ Parent[c] \in Services
       \/ Parent[c] \in Children /\ Parent[Parent[c]] \in Services
  /\ DOMAIN UUID = Attrs
  /\ NoPeer \notin Peers
  /\ Slots \in Nat \ {0}

VARIABLES
  att,   \* the objects: existence, m_removed, m_handle
  vec,   \* m_svcVec, the m_vChars and the m_vDescriptors
  srv,   \* the server's flags and m_connectedPeers
  run,   \* where start() is
  stk,   \* the stack: connections, advertising, service definitions, attribute table
  hst,   \* the event that the host task handles
  hist   \* history: what the peers were told, what the flag missed

vars == <<att, vec, srv, run, stk, hst, hist>>

Attribute == [state : {"none", "live", "deleted"},
              removed : {"no", "hide", "delete"}, handle : 0..Cardinality(Attrs)]

\* advOnDisc: m_advertiseOnDisconnect.
ServerState == [started : BOOLEAN, changed : BOOLEAN,
                peers : [1..Slots -> Peers \cup {NoPeer}], advOnDisc : BOOLEAN]

\* by: the thread that runs start(); i: the position in m_svcVec, or in the
\* table; svc, chr: gattRegisterCallbackArgs, Server when null.
Run == [pc : {"idle", "reset", "register", "callback"}, by : {"app", "host"},
        adv : BOOLEAN, i : 1..(Cardinality(Attrs) + 1),
        svc : Services \cup {Server}, chr : Children \cup {Server}]

\* hidden: the services of the table whose attributes no peer sees any more.
Stack == [links : SUBSET Peers, adv : BOOLEAN, defs : Seq(Attrs), table : Seq(Attrs),
          hidden : SUBSET Services]

\* told: the table that the peers were last told of, <<Server>> before the
\* first; missed: an object was added to the started server
\* without setServiceChanged().
History == [told : Seq(Attrs) \cup {<<Server>>}, missed : BOOLEAN]

HostTask == [ev : {"none", "connect", "failed", "disconnect", "advertise", "starting"},
             peer : Peers \cup {NoPeer}]

\* The types; a container holds objects that exist, each of them once.
TypeOK ==
  /\ att \in [Attrs -> Attribute]
  /\ vec \in [Attrs \cup {Server} -> Seq(Attrs)]
  /\ srv \in ServerState
  /\ run \in Run
  /\ stk \in Stack
  /\ hst \in HostTask
  /\ hist \in History
  /\ \A p \in Attrs \cup {Server} :
       /\ IsInjective(vec[p])
       /\ \A a \in ToSet(vec[p]) : Parent[a] = p /\ att[a].state = "live"

IdleRun == [pc |-> "idle", by |-> "app", adv |-> FALSE, i |-> 1,
            svc |-> Server, chr |-> Server]
NoEvent == [ev |-> "none", peer |-> NoPeer]

Init ==
  /\ att = [a \in Attrs |-> [state |-> "none", removed |-> "no", handle |-> 0]]
  /\ vec = [p \in Attrs \cup {Server} |-> << >>]
  /\ \E on \in BOOLEAN :
       srv = [started |-> FALSE, changed |-> FALSE,
              peers |-> [i \in 1..Slots |-> NoPeer], advOnDisc |-> on]
  /\ run = IdleRun
  /\ stk = [links |-> {}, adv |-> FALSE, defs |-> << >>, table |-> << >>, hidden |-> {}]
  /\ hst = NoEvent
  /\ hist = [told |-> <<Server>>, missed |-> FALSE]

-----------------------------------------------------------------------------
(* The calls that change the services.                                     *)

MayCall == run.pc = "idle"

Live(a) == att[a].state = "live"
Removed(a) == att[a].removed # "no"

\* A service's destructor deletes its characteristics, theirs the descriptors.
Subtree(a) == {a} \cup {c \in Children : Parent[c] = a \/ Parent[Parent[c]] = a}
Gone == [state |-> "deleted", removed |-> "no", handle |-> 0]
Without(D) ==
  [p \in Attrs \cup {Server} |-> IF p \in D THEN << >> ELSE Kept(vec[p], D)]
DeleteAll(D) ==
  /\ att' = [a \in Attrs |-> IF a \in D /\ Live(a) THEN Gone ELSE att[a]]
  /\ vec' = Without(D)

\* setServiceChanged(): without effect before the first start().
SetServiceChanged == srv' = [srv EXCEPT !.changed = @ \/ srv.started]

\* A new object at the end of its parent's container.
Appended(a) == [vec EXCEPT ![Parent[a]] = Append(@, a)]

\* createService(), createCharacteristic(), createDescriptor()
Create(a) ==
  /\ MayCall
  /\ att[a].state = "none"
  /\ a \in Children => Live(Parent[a])
  /\ att' = [att EXCEPT ![a].state = "live"]
  /\ vec' = Appended(a)
  /\ SetServiceChanged
  /\ UNCHANGED <<run, stk, hst, hist>>

\* addService() of a service the application constructed itself.
AddNewService(s) ==
  /\ MayCall
  /\ att[s].state = "none"
  /\ att' = [att EXCEPT ![s].state = "live"]
  /\ vec' = Appended(s)
  /\ hist' = [hist EXCEPT !.missed = @ \/ srv.started]
  /\ UNCHANGED <<srv, run, stk, hst>>

Mark(a, del) ==
  att' = [att EXCEPT ![a].removed = IF del THEN "delete" ELSE "hide"]

\* Mutant: the change is not recorded.
MarkOnly(c, del) ==
  /\ MayCall
  /\ Live(c) /\ ~Removed(c)
  /\ Mark(c, del)
  /\ UNCHANGED <<vec, srv, run, stk, hst, hist>>

\* removeCharacteristic(), removeDescriptor()
RemoveChild(c, del) ==
  /\ MayCall
  /\ Live(c) /\ ~Removed(c)
  /\ Mark(c, del)
  /\ SetServiceChanged
  /\ UNCHANGED <<vec, run, stk, hst, hist>>

\* removeService(): only a service that the stack can hide, and hides at once from
\* the peers that are connected.
RemoveService(s, del) ==
  /\ MayCall
  /\ Live(s) /\ ~Removed(s)
  /\ att[s].handle \in DOMAIN stk.table
  /\ stk.table[att[s].handle] \in Services
  /\ stk' = [stk EXCEPT !.hidden = @ \cup {stk.table[att[s].handle]}]
  /\ Mark(s, del)
  /\ SetServiceChanged
  /\ UNCHANGED <<vec, run, hst, hist>>

\* A second removal, with delete: the object goes at once.
DeleteRemoved(a) ==
  /\ MayCall
  /\ Live(a) /\ Removed(a)
  /\ DeleteAll(Subtree(a))
  /\ UNCHANGED <<srv, run, stk, hst, hist>>

\* addService() of a removed service: the stack hides it still.
AddServiceBack(s) ==
  /\ MayCall
  /\ Live(s) /\ Removed(s)
  /\ att' = [att EXCEPT ![s].removed = "no"]
  /\ SetServiceChanged
  /\ UNCHANGED <<vec, run, stk, hst, hist>>

\* addCharacteristic(), addDescriptor() of a removed one: it is found in the
\* container, and the call returns before setServiceChanged().
AddChildBack(c) ==
  /\ MayCall
  /\ Live(c) /\ Removed(c)
  /\ att' = [att EXCEPT ![c].removed = "no"]
  /\ hist' = [hist EXCEPT !.missed = @ \/ srv.started]
  /\ UNCHANGED <<vec, srv, run, stk, hst>>

-----------------------------------------------------------------------------
(* start(), in the application's task or in the disconnect handler.        *)

Connected == {i \in 1..Slots : srv.peers[i] # NoPeer}

\* Mutant: the flag is reset before the change has taken effect.
BeginClears ==
  IF srv.changed /\ Connected = {}
  THEN [srv EXCEPT !.started = FALSE, !.changed = FALSE]
  ELSE srv
Begin ==
  IF srv.changed /\ Connected = {} THEN [srv EXCEPT !.started = FALSE] ELSE srv

\* start() returns at once if there is nothing to do or peers are connected.
Start(thread, advertise) ==
  /\ srv' = Begin
  /\ IF srv'.started
     THEN /\ stk' = [stk EXCEPT !.adv = @ \/ advertise]
          /\ hst' = IF thread = "host" THEN NoEvent ELSE hst
          /\ UNCHANGED run
     ELSE /\ run' = [IdleRun EXCEPT !.pc = "reset", !.by = thread, !.adv = advertise]
          /\ hst' = IF thread = "host" THEN [hst EXCEPT !.ev = "starting"] ELSE hst
          /\ UNCHANGED stk
  /\ UNCHANGED <<att, vec, hist>>

CallStart == MayCall /\ Start("app", FALSE)

\* startAdvertising() starts the server first, unless it advertises already.
CallAdvertise == MayCall /\ ~stk.adv /\ Start("app", TRUE)

Leave ==
  /\ run' = IdleRun
  /\ hst' = IF run.by = "host" THEN NoEvent ELSE hst

\* resetGATT(): the stack refuses, unnoticed, while there is a connection.
ResetStack ==
  /\ run.pc = "reset"
  /\ stk' = IF stk.links = {}
            THEN [stk EXCEPT !.adv = FALSE, !.defs = << >>, !.table = << >>, !.hidden = {}]
            ELSE [stk EXCEPT !.adv = FALSE]
  /\ run' = [run EXCEPT !.pc = "register"]
  /\ UNCHANGED <<att, vec, srv, hst, hist>>

AtService(s) == run.pc = "register" /\ run.i \in DOMAIN vec[Server] /\ vec[Server][run.i] = s

EraseService(s) ==
  /\ AtService(s)
  /\ att[s].removed = "delete"
  /\ DeleteAll(Subtree(s))
  /\ UNCHANGED <<srv, run, stk, hst, hist>>

\* The descendants of s that its reset deletes.
ToDelete(s) ==
  UNION {Subtree(c) : c \in {c \in Subtree(s) \ {s} : Live(c) /\ att[c].removed = "delete"}}

\* The order in which the loops over a service and its containers reach the
\* objects: each before its own, and those by their places in a container.
Place(a) == CHOOSE i \in DOMAIN vec[Parent[a]] : vec[Parent[a]][i] = a
Before(a, b) ==
  \/ b \in Subtree(a) \ {a}
  \/ \E x, y \in Attrs :
       /\ a \in Subtree(x) /\ b \in Subtree(y)
       /\ Parent[x] = Parent[y] /\ Place(x) < Place(y)

\* An object is exposed if neither it nor what it belongs to is removed.
Exposed(a) == Live(a) /\ \A b \in Attrs : a \in Subtree(b) => ~Removed(b)
Definition(s) ==
  LET E == {a \in Subtree(s) : Exposed(a)}
  IN  InOrder(E, {p \in E \X E : Before(p[1], p[2])})

\* One turn of the loop over the services: what is marked is deleted, handles
\* are cleared, and a service that is not removed is handed to the stack.
ResetAttributes(s, A) ==
  LET D == ToDelete(s)
  IN  /\ att' = [a \in Attrs |->
                   IF a \in D /\ Live(a) THEN Gone
                   ELSE IF a \in A /\ Live(a) THEN [att[a] EXCEPT !.handle = 0]
                   ELSE att[a]]
      /\ vec' = Without(D)

RegisterService(s) ==
  /\ AtService(s)
  /\ att[s].removed # "delete"
  /\ ResetAttributes(s, Subtree(s))
  /\ IF Removed(s) THEN UNCHANGED stk
     ELSE stk.links = {} /\ stk' = [stk EXCEPT !.defs = @ \o Definition(s)]
  /\ run' = [run EXCEPT !.i = @ + 1]
  /\ UNCHANGED <<srv, hst, hist>>

\* start_internal() failed.
RegisterFails(s) ==
  /\ AtService(s)
  /\ ~Removed(s)
  /\ ResetAttributes(s, Subtree(s) \ {s})
  /\ Leave
  /\ UNCHANGED <<srv, stk, hist>>

Registered == run.pc = "register" /\ run.i > Len(vec[Server])

\* ble_gatts_start() builds the table, all of it visible, and reports each entry.
GattsStart ==
  /\ Registered
  /\ stk.links = {}
  /\ stk' = [stk EXCEPT !.table = stk.defs, !.hidden = {}]
  /\ run' = [run EXCEPT !.pc = "callback", !.i = 1]
  /\ UNCHANGED <<att, vec, srv, hst, hist>>

GattsStartFails ==
  /\ Registered
  /\ Leave
  /\ UNCHANGED <<att, vec, srv, stk, hist>>

\* What a loop over the container of p finds first; Server stands for null.
FirstIn(p, S) ==
  LET i == SelectInSeq(vec[p], LAMBDA a : a \in S)
  IN  IF i = 0 THEN Server ELSE vec[p][i]

\* Mutant: an attribute that has its handle is found again.
SameUUID(u) == {a \in Attrs : ~Removed(a) /\ UUID[a] = u}
\* The object of an entry: the first of its parent with the UUID and no handle.
Unhandled(u) == {a \in Attrs : ~Removed(a) /\ att[a].handle = 0 /\ UUID[a] = u}

\* The parent of an entry as the callback knows it from the entries before.
KnownParent(a) ==
  IF a \in Services THEN Server
  ELSE IF Parent[a] \in Services THEN run.svc ELSE run.chr

RegisterCallback ==
  /\ run.pc = "callback" /\ run.i \in DOMAIN stk.table
  /\ LET a     == stk.table[run.i]
         known == KnownParent(a)
         obj   == IF a \in Children /\ known = Server THEN Server
                  ELSE FirstIn(known, Unhandled(UUID[a]))
     IN  /\ att' = IF obj = Server THEN att ELSE [att EXCEPT ![obj].handle = run.i]
         /\ run' = IF a \in Services THEN [run EXCEPT !.i = @ + 1, !.svc = obj]
                   ELSE IF Parent[a] \in Services THEN [run EXCEPT !.i = @ + 1, !.chr = obj]
                   ELSE [run EXCEPT !.i = @ + 1]
  /\ UNCHANGED <<vec, srv, stk, hst, hist>>

\* A change is indicated once the new table is in place.
Started ==
  /\ run.pc = "callback" /\ run.i > Len(stk.table)
  /\ srv' = [srv EXCEPT !.started = TRUE, !.changed = FALSE]
  /\ hist' = [told |-> IF srv.changed \/ hist.told = <<Server>> THEN stk.table ELSE hist.told,
              missed |-> FALSE]
  /\ stk' = [stk EXCEPT !.adv = run.adv]
  /\ Leave
  /\ UNCHANGED <<att, vec>>

-----------------------------------------------------------------------------
(* Peers, and the server's GAP event handler.                              *)

\* A connection ends the advertising it came from.
LinkUp(p) ==
  /\ hst.ev = "none" /\ stk.adv
  /\ p \notin stk.links /\ Cardinality(stk.links) < Slots
  /\ stk' = [stk EXCEPT !.links = @ \cup {p}, !.adv = FALSE]
  /\ hst' = [ev |-> "connect", peer |-> p]
  /\ UNCHANGED <<att, vec, srv, run, hist>>

LinkFails ==
  /\ hst.ev = "none" /\ stk.adv
  /\ stk' = [stk EXCEPT !.adv = FALSE]
  /\ hst' = [NoEvent EXCEPT !.ev = "failed"]
  /\ UNCHANGED <<att, vec, srv, run, hist>>

\* A link for which the reset was refused outlives the start().
LinkDown(p) ==
  /\ hst.ev = "none" /\ p \in stk.links
  /\ run.pc # "register"
  /\ stk' = [stk EXCEPT !.links = @ \ {p}]
  /\ hst' = [ev |-> "disconnect", peer |-> p]
  /\ UNCHANGED <<att, vec, srv, run, hist>>

\* Mutant: every free slot is taken, not the first.
FreeSlots == {i \in 1..Slots : srv.peers[i] = NoPeer}
FirstFree == {i \in FreeSlots : \A j \in FreeSlots : i <= j}

HandleConnect ==
  /\ hst.ev = "connect"
  /\ srv' = [srv EXCEPT !.peers =
               [i \in 1..Slots |-> IF i \in FirstFree THEN hst.peer ELSE @[i]]]
  /\ hst' = NoEvent
  /\ UNCHANGED <<att, vec, run, stk, hist>>

HandleConnectFailed ==
  /\ hst.ev = "failed"
  /\ hst' = [hst EXCEPT !.ev = "advertise"]
  /\ UNCHANGED <<att, vec, srv, run, stk, hist>>

HandleDisconnect ==
  /\ hst.ev = "disconnect"
  /\ srv' = [srv EXCEPT !.peers =
               [i \in 1..Slots |-> IF @[i] = hst.peer THEN NoPeer ELSE @[i]]]
  /\ hst' = IF srv.advOnDisc THEN [NoEvent EXCEPT !.ev = "advertise"] ELSE NoEvent
  /\ UNCHANGED <<att, vec, run, stk, hist>>

HostAdvertise ==
  /\ hst.ev = "advertise"
  /\ run.pc = "idle"
  /\ IF stk.adv
     THEN hst' = NoEvent /\ UNCHANGED <<att, vec, srv, run, stk, hist>>
     ELSE Start("host", TRUE)

-----------------------------------------------------------------------------
(* The lookups; Server stands for null, NoPeer for an empty connection.    *)

WithHandle(h) == {a \in Attrs : att[a].handle = h}

\* getServiceByHandle()
ServiceByHandle(h) == FirstIn(Server, WithHandle(h))

\* NimBLEServer::getCharacteristicByHandle(): the first that a service finds.
CharacteristicIn(s, h) == FirstIn(s, WithHandle(h))
CharacteristicByHandle(h) ==
  LET s == FirstIn(Server, {s \in Services : CharacteristicIn(s, h) # Server})
  IN  IF s = Server THEN Server ELSE CharacteristicIn(s, h)

\* getDescriptorByHandle()
DescriptorByHandle(c, h) == FirstIn(c, WithHandle(h))

\* What the events and accesses of the entry at h reach.
ByHandle(h) ==
  LET a == stk.table[h]
  IN  IF a \in Services THEN ServiceByHandle(h)
      ELSE IF Parent[a] \in Services THEN CharacteristicByHandle(h)
      ELSE DescriptorByHandle(Parent[a], h)

WithUUID(p, u) == {k \in DOMAIN vec[p] : UUID[vec[p][k]] = u}
AtIndex(p, K, i) ==
  IF Nth(K, i) = {} THEN Server ELSE vec[p][CHOOSE k \in K : k \in Nth(K, i)]

\* getServiceByUUID(), getCharacteristic() and getDescriptorByUUID(), with the
\* index among those of the UUID, removed ones included
ServiceByUUID(u, i) == AtIndex(Server, WithUUID(Server, u), i)
CharacteristicByUUID(s, u, i) == AtIndex(s, WithUUID(s, u), i)
DescriptorByUUID(c, u, i) == AtIndex(c, WithUUID(c, u), i)

ByUUID(p, u, i) ==
  IF p = Server THEN ServiceByUUID(u, i)
  ELSE IF p \in Services THEN CharacteristicByUUID(p, u, i)
  ELSE DescriptorByUUID(p, u, i)

\* getPeerDevices()
PeerDevices == Kept(srv.peers, {NoPeer})

\* getPeerInfo(): the index counts the peers that are connected.
PeerInfo(i) ==
  IF i >= Slots \/ Nth(Connected, i) = {} THEN NoPeer
  ELSE srv.peers[CHOOSE k \in Connected : k \in Nth(Connected, i)]

-----------------------------------------------------------------------------
Change ==
  \/ \E a \in Attrs : Create(a) \/ DeleteRemoved(a)
  \/ \E s \in Services : AddNewService(s) \/ AddServiceBack(s)
  \/ \E s \in Services, del \in BOOLEAN : RemoveService(s, del)
  \/ \E c \in Children : AddChildBack(c)
  \/ \E c \in Children, del \in BOOLEAN : RemoveChild(c, del)

StartStep ==
  \/ ResetStack
  \/ \E s \in Services : EraseService(s) \/ RegisterService(s) \/ RegisterFails(s)
  \/ GattsStart \/ GattsStartFails \/ RegisterCallback \/ Started

HostStep ==
  \/ HandleConnect \/ HandleConnectFailed \/ HandleDisconnect \/ HostAdvertise

LinkStep ==
  \/ LinkFails
  \/ \E p \in Peers : LinkUp(p) \/ LinkDown(p)

Next == Change \/ CallStart \/ CallAdvertise \/ StartStep \/ HostStep \/ LinkStep

Spec == Init /\ [][Next]_vars

-----------------------------------------------------------------------------
(* Properties.                                                             *)

Serving == srv.started /\ run.pc = "idle"

\* What the application wants the peers to see, and that a table shows it in order.
Wanted == {a \in Attrs : Exposed(a)}
Shows(seq, S) ==
  ToSet(seq) = S /\ \A i, j \in DOMAIN seq : i < j => Before(seq[i], seq[j])

\* While the server is started a handle of the table leads, by the lookup that the
\* event handlers use, to the object of that entry or, once that is deleted, to
\* none, duplicate UUIDs included: a subscription or a notification never goes to
\* another object.  And each object, removed or not, has its own index among those
\* of its UUID, by which the application finds it again.
HandleIsOwn ==
  /\ Serving =>
       /\ \A a \in Attrs : att[a].handle # 0 => att[a].handle \in DOMAIN stk.table
       /\ \A h \in DOMAIN stk.table :
            ByHandle(h) = IF Live(stk.table[h]) THEN stk.table[h] ELSE Server
  /\ \A a \in Attrs :
       Cardinality({i \in 0..Cardinality(Attrs) : ByUUID(Parent[a], UUID[a], i) = a})
         = (IF Live(a) THEN 1 ELSE 0)

\* A started server with no change pending serves exactly the attributes that
\* were created and not removed, in their order, and none of them is hidden;
\* nothing that is pending is forgotten by a start() that fails or comes too early.
\* The changes that two calls make without setServiceChanged() are excepted
\* (hist.missed).
StartApplies ==
  Serving /\ ~srv.changed /\ ~hist.missed => stk.hidden = {} /\ Shows(stk.table, Wanted)

\* The peers were told of the table that is served, also when the start() that put
\* it in place is the second, but for one change: removeService() hides a service at
\* once and indicates nothing, against its description ("sends a service changed
\* indication").  Peers that are connected miss the service untold; then a change is
\* pending, and the indication follows with the start() that applies it.
ChangeIsIndicated ==
  Serving => hist.told = stk.table /\ (stk.hidden # {} => srv.changed)

\* Between two events m_connectedPeers holds each connected peer once, so that
\* start() waits for all of them to leave and for no other.
EachPeerIsHeld ==
  hst.ev \in {"none", "advertise"} =>
    \A p \in Peers : Cardinality({i \in 1..Slots : srv.peers[i] = p})
                       = (IF p \in stk.links THEN 1 ELSE 0)

\* And getPeerInfo() reaches each of them, at its index in getPeerDevices().
PeersAreCounted ==
  /\ TypeOK
  /\ EachPeerIsHeld
  /\ hst.ev \in {"none", "advertise"} =>
       \A i \in 0..Slots :
         PeerInfo(i) = IF i < Cardinality(stk.links) THEN PeerDevices[i + 1] ELSE NoPeer
=============================================================================
