---------------------------- MODULE NimBLERemote ----------------------------
(***************************************************************************)
(* The attributes of a peer as its client sees them: discovery into the    *)
(* vectors of NimBLEClient, NimBLERemoteService and                        *)
(* NimBLERemoteCharacteristic, and the blocking reads and writes of a      *)
(* value, with the retry after securing the link.                          *)
(*                                                                         *)
(* One task makes the calls.  Each starts a GATT procedure in the stack    *)
(* and waits; the stack calls the module's callback once for each result   *)
(* and once for the end, on the host task, unless the link is lost.        *)
(***************************************************************************)
EXTENDS NimBLEUUID, Lists, SequencesExt

CONSTANTS
  Peer,      \* the attribute table of the peer: a sequence of [kind, uuid, chunks]
  Guarded,   \* handles of values that need an encrypted link
  MaxChunks, \* chunks of the longest value, BLE_ATT_ATTR_MAX_LEN
  Lookups,   \* UUIDs the application looks for, by level
  CCCD,      \* UUID 0x2902
  Declared,  \* UUID 0x2803, the type of a characteristic's declaration
  NoAttr     \* nullptr

Handle == DOMAIN Peer
Of(kind) == {h \in Handle : Peer[h].kind = kind}
Services == Of("svc")
Characteristics == Of("chr")

\* No UUID has 32 bits in ATT.
ASSUME PeerAssumption ==
  /\ Peer \in Seq([kind : {"svc", "chr", "val", "dsc"}, uuid : UUID, chunks : Nat])
  /\ \A h \in Handle : Peer[h].uuid.bits # 32
  /\ Of("val") = {h + 1 : h \in Characteristics}
  /\ Handle # {} => Peer[1].kind = "svc"
  /\ Guarded \subseteq Handle
  /\ MaxChunks \in Nat
  /\ Lookups \in [{"svc", "chr", "dsc"} -> SUBSET UUID]
  /\ CCCD \in UUID
  /\ Declared \in UUID /\ Declared.bits = 16
  /\ NoAttr \notin Handle

VARIABLES
  cache,  \* the attribute objects of the client
  app,    \* the call in progress, or the last one
  stk,    \* the stack: the link and its procedure
  blind   \* history: characteristics searched before the client knew all of the service

remoteVars == <<cache, app, stk, blind>>

Level == {"svc", "chr", "dsc", "read", "write"}
Vectors == [svcs : Seq(Handle), chrs : [Services -> Seq(Handle)],
            dscs : [Characteristics -> Seq(Handle)]]

\* at: the attribute whose parts are sought, or which is read or written; again:
\* the other form of the UUID is tried; found: m_pBuf or the back of the vector;
\* got: the chunks of the value that is read; late: a descriptor was found before
\* the vector was counted; goal, sub: what follows when the attribute is found, and
\* the characteristic sought then.
Call == [pc : {"idle", "call", "count", "wait", "woken", "secure", "answer"},
         op : {"get", "refresh", "discover", "subscribe", "value"},
         level : Level, at : Handle \cup {NoAttr}, uuid : UUID, any : BOOLEAN,
         again : BOOLEAN, found : Handle \cup {NoAttr}, retry : 0..2,
         long : BOOLEAN, got : Nat, late : BOOLEAN, goal : {"none", "read", "write"},
         sub : UUID, rc : {"ok", "error", "auth", "notLong"}]

\* todo: the results that the procedure has yet to report; stray: a read whose
\* caller has not waited for it.
Stack == [up : BOOLEAN, enc : BOOLEAN, busy : BOOLEAN, todo : Seq(Handle \cup Nat),
          stray : BOOLEAN]

RemoteTypeOK ==
  /\ cache \in Vectors
  /\ app \in Call
  /\ stk \in Stack
  /\ blind \subseteq Characteristics
  /\ app.got <= MaxChunks
  /\ app.pc = "wait" => stk.busy
  /\ stk.busy => stk.up /\ app.pc \in {"count", "wait"}

Empty == [svcs |-> << >>, chrs |-> [s \in Services |-> << >>],
          dscs |-> [c \in Characteristics |-> << >>]]

NoCall == [pc |-> "idle", op |-> "get", level |-> "svc", at |-> NoAttr, uuid |-> CCCD,
           any |-> FALSE, again |-> FALSE, found |-> NoAttr, retry |-> 0, long |-> FALSE,
           got |-> 0, late |-> FALSE, goal |-> "none", sub |-> CCCD, rc |-> "ok"]

RemoteInit ==
  /\ cache = Empty
  /\ app = NoCall
  /\ stk = [up |-> TRUE, enc |-> FALSE, busy |-> FALSE, todo |-> << >>, stray |-> FALSE]
  /\ blind = {}

-----------------------------------------------------------------------------
(* The peer's table, and the vectors.                                      *)

Top == Len(Peer) + 1
End == [s \in Services |-> Min({h \in Services : h > s} \cup {Top}) - 1]
ServiceOf == [h \in Handle |-> Max({s \in Services : s <= h})]
ValueHandle(c) == c + 1
CharacteristicsOf == [s \in Services |-> {c \in Characteristics : ServiceOf[c] = s}]
OwnDescriptors ==
  [c \in Characteristics |->
     {d \in Of("dsc") : d > c /\ \A h \in c + 1 .. d : Peer[h].kind \in {"val", "dsc"}}]

Vector(level, at) ==
  CASE level = "svc" -> cache.svcs
    [] level = "chr" -> cache.chrs[at]
    [] level = "dsc" -> cache.dscs[at]

\* The UUID of an object.  What a search for descriptors finds has the type of the
\* attribute, also if that is the declaration of a characteristic.
UUIDOf(level, h) == IF level = "dsc" /\ h \in Characteristics THEN Declared ELSE Peer[h].uuid

\* The search in the vector with which every lookup begins.
Cached(level, at, uuid) ==
  LET objects == Vector(level, at)
      i == SelectInSeq(objects, LAMBDA h : Equal(UUIDOf(level, h), uuid))
  IN  IF i = 0 THEN NoAttr ELSE objects[i]

\* Mutant: characteristics are kept in the order of their discovery.
PushChr(s, c) == Append(s, c)

\* characteristicDiscCB(): "insert in handle order"
InsertChr(s, c) ==
  LET later == {e \in Characteristics : ValueHandle(e) > c}
  IN  Kept(s, later) \o <<c>> \o Kept(s, Characteristics \ later)

\* The characteristic that a notification is for
GetCharacteristic(h) ==
  LET in == {s \in ToSet(cache.svcs) : s <= h /\ h <= End[s]}
      c  == {c \in UNION {ToSet(cache.chrs[s]) : s \in in} : ValueHandle(c) = h}
  IN  IF c = {} THEN NoAttr ELSE Min(c)

\* An object takes its parts with it: s keeps the characteristics of kept, and those of
\* gone lose their descriptors.
KeepOnly(s, kept, gone) ==
  [svcs |-> cache.svcs, chrs |-> [cache.chrs EXCEPT ![s] = kept],
   dscs |-> [c \in Characteristics |-> IF c \in ToSet(gone) THEN << >> ELSE cache.dscs[c]]]

\* deleteDescriptors(), deleteCharacteristics(), deleteServices()
DeleteDescriptors(c) == [cache EXCEPT !.dscs[c] = << >>]
DeleteCharacteristics(s) == KeepOnly(s, << >>, cache.chrs[s])
DeleteServices == Empty

FrontOf(s) == IF s = << >> THEN NoAttr ELSE Head(s)
After(s, h) == LET i == CHOOSE i \in DOMAIN s : s[i] = h
               IN  IF i = Len(s) THEN NoAttr ELSE s[i + 1]

\* retrieveDescriptors(): the search ends before the next characteristic, if the
\* client knows one, and else at the end of the service.
SearchEnd(c) ==
  LET next == After(cache.chrs[ServiceOf[c]], c)
  IN  IF next = NoAttr THEN End[ServiceOf[c]] ELSE ValueHandle(next) - 1

\* What the stack reports, in the order of the handles.  The procedure for
\* descriptors reports every attribute of its range.
Ascending(S) == Picked([h \in Handle |-> h], S)
Exactly(h) == app.any \/ UUIDOf(app.level, h) = app.uuid
RetrieveServices == Ascending({s \in Services : Exactly(s)})
RetrieveCharacteristics == Ascending({c \in CharacteristicsOf[app.at] : Exactly(c)})
Results ==
  CASE app.level = "svc" -> RetrieveServices
    [] app.level = "chr" -> RetrieveCharacteristics
    [] app.level = "dsc" -> Ascending(ValueHandle(app.at) + 1 .. SearchEnd(app.at))
    [] app.level = "read" -> [i \in 1..Peer[app.at].chunks |-> i]
    [] app.level = "write" -> << >>

-----------------------------------------------------------------------------
(* The application's calls.                                                *)

Known(level) ==
  CASE level = "svc" -> {NoAttr}
    [] level = "chr" -> ToSet(cache.svcs)
    [] level = "dsc" -> UNION {ToSet(cache.chrs[s]) : s \in ToSet(cache.svcs)}

CallNow(op, level, at, uuid, any) ==
  app' = [NoCall EXCEPT !.pc = "call", !.op = op, !.level = level, !.at = at,
                      !.uuid = uuid, !.any = any]

Free == app.pc = "idle"

\* The answer from the vector, or else a search.
Sought(level, at, uuid, goal, sub) ==
  LET c == Cached(level, at, uuid)
  IN  [NoCall EXCEPT !.pc = IF c = NoAttr THEN "call" ELSE "answer", !.level = level,
                   !.at = at, !.uuid = uuid, !.found = c, !.goal = goal, !.sub = sub]

\* getService(), getCharacteristic(), getDescriptor()
Get(level, at, uuid) ==
  /\ Free
  /\ app' = Sought(level, at, uuid, "none", CCCD)
  /\ UNCHANGED <<cache, stk, blind>>

\* NimBLEClient::getValue() and setValue(): the value of a characteristic of a service
ClientGetValue(svc, chr) ==
  /\ Free
  /\ app' = Sought("svc", NoAttr, svc, "read", chr)
  /\ UNCHANGED <<cache, stk, blind>>

ClientSetValue(svc, chr) ==
  /\ Free
  /\ app' = Sought("svc", NoAttr, svc, "write", chr)
  /\ UNCHANGED <<cache, stk, blind>>

\* NimBLERemoteService::getValue() and setValue()
ServiceGetValue(s, chr) ==
  /\ Free
  /\ app' = Sought("chr", s, chr, "read", CCCD)
  /\ UNCHANGED <<cache, stk, blind>>

ServiceSetValue(s, chr) ==
  /\ Free
  /\ app' = Sought("chr", s, chr, "write", CCCD)
  /\ UNCHANGED <<cache, stk, blind>>

\* getServices(true), getCharacteristics(true), getDescriptors(true)
Refresh(level, at) ==
  /\ Free
  /\ cache' = CASE level = "svc" -> DeleteServices
                [] level = "chr" -> DeleteCharacteristics(at)
                [] level = "dsc" -> DeleteDescriptors(at)
  /\ CallNow("refresh", level, at, CCCD, TRUE)
  /\ UNCHANGED <<stk, blind>>

DiscoverAttributes ==
  /\ Free
  /\ cache' = DeleteServices
  /\ CallNow("discover", "svc", NoAttr, CCCD, TRUE)
  /\ UNCHANGED <<stk, blind>>

DeleteService(uuid) ==
  /\ Free
  /\ LET s == Cached("svc", NoAttr, uuid)
     IN  /\ s # NoAttr
         /\ cache' = [DeleteCharacteristics(s) EXCEPT !.svcs = Kept(@, {s})]
  /\ app' = NoCall
  /\ UNCHANGED <<stk, blind>>

\* deleteCharacteristic()
DeleteCharacteristic(s, uuid) ==
  /\ Free
  /\ LET c == Cached("chr", s, uuid)
     IN  /\ c # NoAttr
         /\ cache' = KeepOnly(s, Kept(cache.chrs[s], {c}), <<c>>)
  /\ app' = NoCall
  /\ UNCHANGED <<stk, blind>>

\* deleteDescriptor()
DeleteDescriptor(c, uuid) ==
  /\ Free
  /\ LET d == Cached("dsc", c, uuid)
     IN  /\ d # NoAttr
         /\ cache' = [cache EXCEPT !.dscs[c] = Kept(@, {d})]
  /\ app' = NoCall
  /\ UNCHANGED <<stk, blind>>

\* readValue(), and writeValue() with a response: h is the handle of the value.
ReadOf(h) == [NoCall EXCEPT !.pc = "call", !.op = "value", !.level = "read", !.at = h, !.retry = 1]

ReadValue(h) ==
  /\ Free
  /\ app' = ReadOf(h)
  /\ UNCHANGED <<cache, stk, blind>>

WriteOf(h, long) ==
  [NoCall EXCEPT !.pc = "call", !.op = "value", !.level = "write", !.at = h, !.retry = 1, !.long = long]

WriteValue(h, long) ==
  /\ Free
  /\ app' = WriteOf(h, long)
  /\ UNCHANGED <<cache, stk, blind>>

\* setNotify(): getDescriptor() of the CCCD, and a write to it.
SetNotify(c) ==
  /\ Free
  /\ LET d == Cached("dsc", c, CCCD)
     IN  IF d # NoAttr THEN app' = WriteOf(d, FALSE)
         ELSE CallNow("subscribe", "dsc", c, CCCD, FALSE)
  /\ UNCHANGED <<cache, stk, blind>>

-----------------------------------------------------------------------------
(* A procedure.                                                            *)

Stay == UNCHANGED <<cache, blind>>
Return == app' = NoCall

\* No descriptors after the last handle of the service
NothingToSearch == app.level = "dsc" /\ SearchEnd(app.at) = ValueHandle(app.at)

\* The stack accepts the procedure and the task waits.
Blind ==
  IF app.level = "dsc" /\ ToSet(cache.chrs[ServiceOf[app.at]]) # CharacteristicsOf[ServiceOf[app.at]]
  THEN blind \cup {app.at} ELSE blind

Start ==
  /\ app.pc = "call" /\ stk.up /\ ~NothingToSearch
  /\ stk' = [stk EXCEPT !.busy = TRUE, !.todo = Results]
  /\ app' = [app EXCEPT !.pc = IF app.level = "dsc" THEN "count" ELSE "wait"]
  /\ blind' = Blind
  /\ UNCHANGED cache

\* There is no link, or the stack refuses the procedure.
StartFails ==
  /\ app.pc = "call" /\ ~NothingToSearch
  /\ app' = [app EXCEPT !.pc = "woken", !.rc = "error"]
  /\ UNCHANGED stk /\ Stay

StartIsDone ==
  /\ app.pc = "call" /\ NothingToSearch
  /\ app' = [app EXCEPT !.pc = "woken", !.rc = "ok"]
  /\ UNCHANGED stk /\ Stay

\* retrieveDescriptors() counts its vector when the search is already under way.
CountDescriptors ==
  /\ app.pc = "count"
  /\ app' = [app EXCEPT !.pc = IF stk.busy THEN "wait" ELSE "woken"]
  /\ UNCHANGED stk /\ Stay

\* taskRelease()
Released(a, rc) == [a EXCEPT !.pc = IF @ = "wait" THEN "woken" ELSE @, !.rc = rc]
Release(rc) ==
  /\ app' = Released(app, rc)
  /\ stk' = [stk EXCEPT !.busy = FALSE, !.todo = << >>]

Next1 == Head(stk.todo)
Reports(level) == stk.busy /\ app.level = level /\ stk.todo # << >>
Adds(c) ==
  /\ cache' = c
  /\ app' = [app EXCEPT !.found = Next1]
  /\ stk' = [stk EXCEPT !.todo = Tail(@)]
  /\ UNCHANGED blind

ServiceDiscovered ==
  /\ Reports("svc")
  /\ Adds([cache EXCEPT !.svcs = Append(@, Next1)])

CharacteristicDisc ==
  /\ Reports("chr")
  /\ Adds([cache EXCEPT !.chrs[app.at] = InsertChr(@, Next1)])

\* descriptorDiscCB(): with a filter only the UUID sought, and the search ends there.
DescriptorFound ==
  /\ Reports("dsc")
  /\ LET more == [cache EXCEPT !.dscs[app.at] = Append(@, Next1)]
     IN  IF app.any THEN Adds(more)
         ELSE /\ Exactly(Next1)
              /\ cache' = more
              /\ app' = LET late == app.pc = "count"
                        IN  Released([app EXCEPT !.found = IF late THEN @ ELSE Next1, !.late = late], "ok")
              /\ stk' = [stk EXCEPT !.busy = FALSE, !.todo = << >>]
              /\ UNCHANGED blind

DescriptorPassedOver ==
  /\ Reports("dsc") /\ ~app.any /\ ~Exactly(Next1)
  /\ stk' = [stk EXCEPT !.todo = Tail(@)]
  /\ UNCHANGED app /\ Stay

Denied == app.at \in Guarded /\ ~stk.enc

\* onReadCB(): a chunk is appended, unless the value becomes too long.
ReadChunk ==
  /\ Reports("read") /\ ~Denied
  /\ IF app.got = MaxChunks THEN Release("error")
     ELSE /\ app' = [app EXCEPT !.got = @ + 1]
          /\ stk' = [stk EXCEPT !.todo = Tail(@)]
  /\ Stay

ProcedureDone ==
  /\ stk.busy /\ stk.todo = << >>
  /\ app.level \in {"read", "write"} => ~Denied
  /\ Release("ok") /\ Stay

ProcedureFails ==
  /\ stk.busy
  /\ Release("error") /\ Stay

AccessDenied ==
  /\ stk.busy /\ app.level \in {"read", "write"} /\ Denied
  /\ Release("auth") /\ Stay

\* The answer to the second part of a long read or to a long write
AttrNotLong ==
  /\ stk.busy
  /\ \/ app.level = "read" /\ app.got = 1
     \/ app.level = "write" /\ app.long /\ ~Denied
  /\ Release("notLong") /\ Stay

\* BLE_HS_ENOTCONN to the callback
LinkLost ==
  /\ stk.up
  /\ stk' = [stk EXCEPT !.up = FALSE, !.enc = FALSE, !.busy = FALSE, !.todo = << >>, !.stray = FALSE]
  /\ app' = IF stk.busy THEN Released(app, "error") ELSE app
  /\ Stay

\* connect(), that deletes the attributes or not
Reconnect(delete) ==
  /\ Free /\ ~stk.up
  /\ stk' = [stk EXCEPT !.up = TRUE]
  /\ cache' = IF delete THEN DeleteServices ELSE cache
  /\ app' = NoCall
  /\ UNCHANGED blind

-----------------------------------------------------------------------------
(* The task that was released.                                             *)

Woken(op) == app.pc = "woken" /\ app.op = op

\* Mutant: a lookup of 128 bits is not repeated with 16.
LongerForm(u) == To128(u)

OtherForm(u) == IF u.bits = 128 THEN To16(u) ELSE To128(u)

\* A lookup: the attribute, or a search with the other form of the UUID.
GetAnswer ==
  /\ Woken("get")
  /\ app.rc # "ok" \/ app.found # NoAttr \/ app.again \/ OtherForm(app.uuid) = app.uuid
  /\ app' = [app EXCEPT !.pc = "answer"]
  /\ UNCHANGED stk /\ Stay

\* The attribute that a lookup returns: nullptr if a search failed.
Answer == IF app.rc = "ok" THEN app.found ELSE NoAttr

GetReturns ==
  /\ app.pc = "answer"
  /\ app.goal = "none" \/ Answer = NoAttr
  /\ Return /\ UNCHANGED stk /\ Stay

\* getValue(), setValue(): the characteristic in the service found, then its value
GoOn ==
  /\ app.pc = "answer"
  /\ app.goal # "none" /\ Answer # NoAttr
  /\ app' = CASE app.level = "svc" -> Sought("chr", Answer, app.sub, app.goal, CCCD)
              [] app.level = "chr" /\ app.goal = "read" -> ReadOf(ValueHandle(Answer))
              [] app.level = "chr" /\ app.goal = "write" -> WriteOf(ValueHandle(Answer), FALSE)
  /\ UNCHANGED stk /\ Stay

GetAgain ==
  /\ Woken("get") \/ Woken("subscribe")
  /\ app.rc = "ok" /\ app.found = NoAttr /\ ~app.again /\ OtherForm(app.uuid) # app.uuid
  /\ app' = [app EXCEPT !.pc = "call", !.uuid = OtherForm(@), !.again = TRUE]
  /\ UNCHANGED stk /\ Stay

RefreshReturns == Woken("refresh") /\ Return /\ UNCHANGED stk /\ Stay

\* setNotify(): with no CCCD it returns true.
SubscribeWrites ==
  /\ Woken("subscribe")
  /\ app.found # NoAttr \/ app.rc # "ok" \/ app.again
  /\ app' = IF app.found = NoAttr THEN NoCall ELSE WriteOf(app.found, FALSE)
  /\ UNCHANGED stk /\ Stay

\* discoverAttributes(): for every service its characteristics, for each of these
\* its descriptors.
NextService == IF app.level = "svc" THEN FrontOf(cache.svcs)
               ELSE After(cache.svcs, ServiceOf[app.at])
NextCharacteristic ==
  CASE app.level = "svc" -> NoAttr
    [] app.level = "chr" -> FrontOf(cache.chrs[app.at])
    [] app.level = "dsc" -> After(cache.chrs[ServiceOf[app.at]], app.at)

DiscoverOn ==
  /\ Woken("discover") /\ app.rc = "ok"
  /\ app' = IF NextCharacteristic # NoAttr
            THEN [app EXCEPT !.pc = "call", !.level = "dsc", !.at = NextCharacteristic]
            ELSE IF NextService # NoAttr
            THEN [app EXCEPT !.pc = "call", !.level = "chr", !.at = NextService]
            ELSE NoCall
  /\ UNCHANGED stk /\ Stay

DiscoverFails == Woken("discover") /\ app.rc # "ok" /\ Return /\ UNCHANGED stk /\ Stay

\* readValue() and writeValue()
ValueOk ==
  /\ Woken("value") /\ app.rc = "ok"
  /\ Return /\ UNCHANGED stk /\ Stay

ValueFails ==
  /\ Woken("value")
  /\ app.rc = "error" \/ (app.rc = "auth" /\ app.retry = 0)
  /\ Return /\ UNCHANGED stk /\ Stay

\* "return with what we have": a read is started and nobody waits for it.
ReadNotLong(accepted) ==
  /\ Woken("value") /\ app.rc = "notLong" /\ app.level = "read"
  /\ Return
  /\ stk' = [stk EXCEPT !.stray = accepted /\ stk.up]
  /\ Stay

\* The data is cut and the retry does not count.
WriteNotLong ==
  /\ Woken("value") /\ app.rc = "notLong" /\ app.level = "write"
  /\ app' = [app EXCEPT !.pc = "call", !.long = FALSE]
  /\ UNCHANGED stk /\ Stay

ValueSecure ==
  /\ Woken("value") /\ app.rc = "auth" /\ app.retry > 0
  /\ app' = [app EXCEPT !.pc = "secure"]
  /\ UNCHANGED stk /\ Stay

\* Mutant: the retry is not counted.
RetryForEver(ok) ==
  /\ app.pc = "secure"
  /\ app' = IF ok THEN [app EXCEPT !.pc = "call"] ELSE NoCall
  /\ UNCHANGED stk /\ Stay

\* secureConnection(), which may return true on a link that is not encrypted.
SecureReturns(ok) ==
  /\ app.pc = "secure"
  /\ app' = IF ok THEN [app EXCEPT !.pc = "call", !.retry = @ - 1] ELSE NoCall
  /\ UNCHANGED stk /\ Stay

Encrypted ==
  /\ stk.up /\ ~stk.enc /\ app.pc = "secure"
  /\ stk' = [stk EXCEPT !.enc = TRUE]
  /\ UNCHANGED app /\ Stay

StrayEnds ==
  /\ stk.stray
  /\ stk' = [stk EXCEPT !.stray = FALSE]
  /\ UNCHANGED app /\ Stay

-----------------------------------------------------------------------------
AppCall ==
  \/ \E level \in {"svc", "chr", "dsc"} : \E at \in Known(level) :
       Refresh(level, at) \/ \E uuid \in Lookups[level] : Get(level, at, uuid)
  \/ DiscoverAttributes
  \/ \E uuid \in Lookups["svc"] : DeleteService(uuid)
  \/ \E s \in Known("chr") : \E uuid \in Lookups["chr"] : DeleteCharacteristic(s, uuid)
  \/ \E svc \in Lookups["svc"], chr \in Lookups["chr"] : ClientGetValue(svc, chr) \/ ClientSetValue(svc, chr)
  \/ \E s \in Known("chr") : \E chr \in Lookups["chr"] : ServiceGetValue(s, chr) \/ ServiceSetValue(s, chr)
  \/ \E c \in Known("dsc") :
       \/ SetNotify(c)
       \/ \E uuid \in Lookups["dsc"] : DeleteDescriptor(c, uuid)
       \/ ReadValue(ValueHandle(c))
       \/ \E long \in BOOLEAN : WriteValue(ValueHandle(c), long)
  \/ \E delete \in BOOLEAN : Reconnect(delete)

TaskStep ==
  \/ Start \/ CountDescriptors \/ StartFails \/ StartIsDone
  \/ GetAnswer \/ GetReturns \/ GoOn \/ GetAgain \/ RefreshReturns \/ SubscribeWrites
  \/ DiscoverOn \/ DiscoverFails
  \/ ValueOk \/ ValueFails \/ WriteNotLong \/ ValueSecure
  \/ \E b \in BOOLEAN : ReadNotLong(b) \/ SecureReturns(b)

HostStep ==
  \/ ServiceDiscovered \/ CharacteristicDisc \/ DescriptorFound \/ DescriptorPassedOver
  \/ ReadChunk \/ ProcedureDone \/ AccessDenied

Fault == ProcedureFails \/ AttrNotLong \/ LinkLost \/ Encrypted \/ StrayEnds

RemoteNext == AppCall \/ TaskStep \/ HostStep \/ Fault

RemoteSpec == RemoteInit /\ [][RemoteNext]_remoteVars

\* The task and the host task run, and the stack ends every procedure.
FairRemoteSpec == RemoteSpec /\ WF_remoteVars(TaskStep) /\ WF_remoteVars(HostStep)

-----------------------------------------------------------------------------
(* Properties.                                                             *)

\* The attributes of the peer that a finished lookup may answer.
Matches ==
  {h \in CASE app.level = "svc" -> Services
           [] app.level = "chr" -> CharacteristicsOf[app.at]
           [] app.level = "dsc" -> OwnDescriptors[app.at] :
     Equal(UUIDOf(app.level, h), app.uuid)}

\* Other forms of a UUID say the same of a plain one: it has not 32 bits, and to16()
\* does not cut it.
Plain(u) == u.bits # 32 /\ (u.bits = 128 /\ u.base => u.val < Short)

\* What the theorems assume of the lookups: they are for plain UUIDs, and no descriptor
\* is sought by the type of the declarations of characteristics.
LookupsArePlain ==
  /\ Plain(CCCD)
  /\ \A level \in {"svc", "chr", "dsc"} : \A u \in Lookups[level] : Plain(u)
  /\ \A u \in Lookups["dsc"] \cup {CCCD} : ~Equal(Declared, u)

\* A lookup whose procedures all succeeded finds an attribute with the UUID
\* sought, whichever its form, exactly if the peer has one where it was sought; and
\* a notification of a value finds its characteristic exactly if that is known
\* (getService(), getCharacteristic(), getDescriptor(); all states are typed).
LookupFinds ==
  /\ RemoteTypeOK
  /\ app.pc = "answer" /\ app.rc = "ok" /\ (app.level = "dsc" => app.at \notin blind /\ ~app.late) =>
       IF app.found = NoAttr THEN Matches = {} ELSE app.found \in Matches
  /\ \A h \in Handle : GetCharacteristic(h) = IF h - 1 \in Known("dsc") THEN h - 1 ELSE NoAttr

\* The descriptors that a client keeps for a characteristic are its own, each
\* once, if it knew all characteristics of the service when it searched; beside
\* them it may keep the declaration of the next characteristic, as the search ends
\* before the value of that one.
NextDeclaration(c) == {h \in Characteristics : h > c /\ \A g \in Characteristics : g > c => h <= g}

DescriptorsAreOwn ==
  \A c \in Characteristics \ blind :
    /\ ToSet(cache.dscs[c]) \subseteq OwnDescriptors[c] \cup NextDeclaration(c)
    /\ IsInjective(cache.dscs[c])

\* Every call returns.
CallsReturn == app.pc # "idle" ~> app.pc = "idle"
=============================================================================
