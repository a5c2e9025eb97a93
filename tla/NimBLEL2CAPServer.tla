--------------------------- MODULE NimBLEL2CAPServer ---------------------------
(***************************************************************************)
(* The life of L2CAP channel objects: tasks that make them, for a service  *)
(* of NimBLEL2CAPServer or with connect(), the worker for deferred reads   *)
(* that the first of them starts, and the buffers of the memory pool that  *)
(* an object shares between its writers and the stack's receiver.          *)
(*                                                                         *)
(* A full SDU takes two blocks of the pool, as a block also holds a header. *)
(* NimBLEL2CAPChannel has what an open channel does.                       *)
(***************************************************************************)
EXTENDS Integers, FiniteSets

CONSTANTS
  Objects,   \* NimBLEL2CAPChannel objects
  Makers,    \* the tasks that create them
  Writers,   \* the tasks that write to them
  Links,     \* ble_l2cap_chan of the stack
  NoObject,
  NoLink,
  Blocks     \* L2CAP_SDU_BUFFER_COUNT

ASSUME PoolAssumption ==
  /\ NoObject \notin Objects /\ NoLink \notin Links
  /\ IsFiniteSet(Makers) /\ IsFiniteSet(Writers) /\ IsFiniteSet(Links)
  /\ Blocks \in Nat /\ Blocks > 2 * Cardinality(Writers)

VARIABLES
  worker,  \* the statics of ensureDeferredReadWorker()
  maker,   \* where each maker is
  coc,     \* the objects
  lnk,     \* the stack's channels
  held,    \* the blocks of each writer
  host,    \* the handler that the host task is in
  seen     \* history: what the application or the peer did that the code does not expect

cocVars == <<worker, maker, coc, lnk, held, host, seen>>

Mutex == 0..Cardinality(Makers)

\* lock: s_l2capDeferredInitLock, 0 when null; locks: those ever created; queues
\* and tasks likewise.
Worker == [lock : Mutex, locks : Mutex, held : SUBSET Mutex,
           queues : Mutex, tasks : Mutex]

Maker == [pc : {"idle", "ensure", "lock", "take", "queue", "newQueue", "task",
                "newTask", "give", "open"},
          obj : Objects \cup {NoObject}, role : {"server", "client"}]

\* lost: createService() failed and forgot the object.
Coc == [state : {"none", "made", "served", "client", "lost", "deleted"},
        free : 0..Blocks, chan : Links \cup {NoLink}]

\* n: the blocks in which it receives.
Link == [state : {"down", "asked", "open"}, obj : Objects \cup {NoObject}, n : 0..2]

Hold == [obj : Objects \cup {NoObject}, n : 0..2]

Host == [pc : {"idle", "accept", "receive", "aborted"}, link : Links \cup {NoLink},
         obj : Objects \cup {NoObject}]

Seen == [raced : BOOLEAN, shared : SUBSET Objects, refused : SUBSET Objects]

Idling == [pc |-> "idle", obj |-> NoObject, role |-> "server"]
Down == [state |-> "down", obj |-> NoObject, n |-> 0]
Nothing == [obj |-> NoObject, n |-> 0]
HostIdle == [pc |-> "idle", link |-> NoLink, obj |-> NoObject]

CocInit ==
  /\ worker = [lock |-> 0, locks |-> 0, held |-> {}, queues |-> 0, tasks |-> 0]
  /\ maker = [m \in Makers |-> Idling]
  /\ coc = [o \in Objects |-> [state |-> "none", free |-> 0, chan |-> NoLink]]
  /\ lnk = [l \in Links |-> Down]
  /\ held = [w \in Writers |-> Nothing]
  /\ host = HostIdle
  /\ seen = [raced |-> FALSE, shared |-> {}, refused |-> {}]

-----------------------------------------------------------------------------
(* The constructor.                                                        *)

MakerAt(m, pc) == maker[m].pc = pc
MakerGoes(m, pc) == maker' = [maker EXCEPT ![m].pc = pc]

\* setupMemPool()
NewChannel(m, o, role) ==
  /\ MakerAt(m, "idle") /\ coc[o].state = "none"
  /\ coc' = [coc EXCEPT ![o] = [state |-> "made", free |-> Blocks, chan |-> NoLink]]
  /\ maker' = [maker EXCEPT ![m] = [pc |-> "ensure", obj |-> o, role |-> role]]
  /\ UNCHANGED <<worker, lnk, held, host, seen>>

\* ensureDeferredReadWorker() begins without the lock.
Ensure(m) ==
  /\ MakerAt(m, "ensure")
  /\ MakerGoes(m, IF worker.queues # 0 /\ worker.tasks # 0 THEN "open"
                  ELSE IF worker.lock = 0 THEN "lock" ELSE "take")
  /\ UNCHANGED <<worker, coc, lnk, held, host, seen>>

\* Another task may have created the lock meanwhile.
CreateLock(m) ==
  /\ MakerAt(m, "lock")
  /\ worker' = [worker EXCEPT !.lock = worker.locks + 1, !.locks = @ + 1]
  /\ seen' = [seen EXCEPT !.raced = @ \/ worker.lock # 0]
  /\ MakerGoes(m, "take")
  /\ UNCHANGED <<coc, lnk, held, host>>

\* Mutant: the wait for the lock has a limit.
TakeAnyway(m) ==
  /\ MakerAt(m, "take")
  /\ worker' = [worker EXCEPT !.held = @ \cup {worker.lock}]
  /\ MakerGoes(m, "queue")
  /\ UNCHANGED <<coc, lnk, held, host, seen>>

TakeLock(m) ==
  /\ MakerAt(m, "take") /\ worker.lock \notin worker.held
  /\ worker' = [worker EXCEPT !.held = @ \cup {worker.lock}]
  /\ MakerGoes(m, "queue")
  /\ UNCHANGED <<coc, lnk, held, host, seen>>

LookAtQueue(m) ==
  /\ MakerAt(m, "queue")
  /\ MakerGoes(m, IF worker.queues = 0 THEN "newQueue" ELSE "task")
  /\ UNCHANGED <<worker, coc, lnk, held, host, seen>>

CreateQueue(m) ==
  /\ MakerAt(m, "newQueue")
  /\ worker' = [worker EXCEPT !.queues = @ + 1]
  /\ MakerGoes(m, "task")
  /\ UNCHANGED <<coc, lnk, held, host, seen>>

LookAtTask(m) ==
  /\ MakerAt(m, "task")
  /\ MakerGoes(m, IF worker.tasks = 0 THEN "newTask" ELSE "give")
  /\ UNCHANGED <<worker, coc, lnk, held, host, seen>>

CreateTask(m) ==
  /\ MakerAt(m, "newTask")
  /\ worker' = [worker EXCEPT !.tasks = @ + 1]
  /\ MakerGoes(m, "give")
  /\ UNCHANGED <<coc, lnk, held, host, seen>>

\* The lock that is given is the one that the static names by now.
GiveLock(m) ==
  /\ MakerAt(m, "give")
  /\ worker' = [worker EXCEPT !.held = @ \ {worker.lock}]
  /\ MakerGoes(m, "open")
  /\ UNCHANGED <<coc, lnk, held, host, seen>>

-----------------------------------------------------------------------------
(* createService() and connect(), and the end of an object.                *)

Made(m, role) == MakerAt(m, "open") /\ maker[m].role = role
MakerDone(m) == maker' = [maker EXCEPT ![m] = Idling]

\* ble_l2cap_create_server(): if it fails nobody has the object any more.
CreateService(m, ok) ==
  /\ Made(m, "server")
  /\ coc' = [coc EXCEPT ![maker[m].obj].state = IF ok THEN "served" ELSE "lost"]
  /\ MakerDone(m)
  /\ UNCHANGED <<worker, lnk, held, host, seen>>

\* connect() gives the stack the first buffer to receive in.
Connect(m, l) ==
  /\ Made(m, "client") /\ lnk[l] = Down
  /\ coc' = [coc EXCEPT ![maker[m].obj].state = "client", ![maker[m].obj].free = @ - 1]
  /\ lnk' = [lnk EXCEPT ![l] = [state |-> "asked", obj |-> maker[m].obj, n |-> 1]]
  /\ MakerDone(m)
  /\ UNCHANGED <<worker, held, host, seen>>

\* teardownMemPool()
Freed == [state |-> "deleted", free |-> 0, chan |-> NoLink]

ConnectFails(m) ==
  /\ Made(m, "client")
  /\ coc' = [coc EXCEPT ![maker[m].obj] = Freed]
  /\ MakerDone(m)
  /\ UNCHANGED <<worker, lnk, held, host, seen>>

Unused(o) ==
  /\ \A l \in Links : lnk[l].obj # o
  /\ \A w \in Writers : held[w].obj # o
  /\ host.pc = "idle"

\* The application deletes the object of a connection after onDisconnect().
DeleteChannel(o) ==
  /\ coc[o].state = "client" /\ Unused(o) /\ coc[o].chan = NoLink
  /\ coc' = [coc EXCEPT ![o] = Freed]
  /\ UNCHANGED <<worker, maker, lnk, held, host, seen>>

\* deinit(true), when the host has stopped: the server's destructor
DeleteServer ==
  /\ \A m \in Makers : MakerAt(m, "idle")
  /\ \A l \in Links : lnk[l] = Down
  /\ \A w \in Writers : held[w] = Nothing
  /\ host.pc = "idle"
  /\ \E o \in Objects : coc[o].state = "served"
  /\ coc' = [o \in Objects |-> IF coc[o].state = "served" THEN Freed ELSE coc[o]]
  /\ UNCHANGED <<worker, maker, lnk, held, host, seen>>

-----------------------------------------------------------------------------
(* The handlers of the host task.                                          *)

HostMayRun == host.pc = "idle"

\* handleAcceptEvent(): the delegate accepts and there is a buffer,
AcceptEvent(l, o) ==
  /\ HostMayRun /\ lnk[l] = Down
  /\ coc[o].state = "served" /\ coc[o].free > 0
  /\ coc' = [coc EXCEPT ![o].free = @ - 1]
  /\ lnk' = [lnk EXCEPT ![l] = [state |-> "asked", obj |-> o, n |-> 0]]
  /\ seen' = [seen EXCEPT !.shared = IF \E k \in Links : lnk[k].obj = o
                                     THEN @ \cup {o} ELSE @]
  /\ host' = [pc |-> "accept", link |-> l, obj |-> o]
  /\ UNCHANGED <<worker, maker, held>>

\* which the stack takes
Accepted ==
  /\ host.pc = "accept"
  /\ lnk' = [lnk EXCEPT ![host.link].n = 1]
  /\ host' = HostIdle
  /\ UNCHANGED <<worker, maker, coc, held, seen>>

\* Mutant: the buffer is not freed.
AcceptLeaks ==
  /\ host.pc = "accept"
  /\ lnk' = [lnk EXCEPT ![host.link] = Down]
  /\ host' = HostIdle
  /\ UNCHANGED <<worker, maker, coc, held, seen>>

\* or not.
AcceptFails ==
  /\ host.pc = "accept"
  /\ coc' = [coc EXCEPT ![host.obj].free = @ + 1]
  /\ lnk' = [lnk EXCEPT ![host.link] = Down]
  /\ host' = HostIdle
  /\ UNCHANGED <<worker, maker, held, seen>>

\* handleConnectionEvent()
CocConnected(l) ==
  /\ HostMayRun /\ lnk[l].state = "asked"
  /\ coc' = [coc EXCEPT ![lnk[l].obj].chan = l]
  /\ lnk' = [lnk EXCEPT ![l].state = "open"]
  /\ UNCHANGED <<worker, maker, held, host, seen>>

\* The peer refuses: the stack reports the same event with a status, at which the
\* handler does not look, and frees the channel.
CocRefused(l) ==
  /\ HostMayRun /\ lnk[l].state = "asked"
  /\ coc[lnk[l].obj].state = "client"
  /\ coc' = [coc EXCEPT ![lnk[l].obj].chan = l, ![lnk[l].obj].free = @ + lnk[l].n]
  /\ lnk' = [lnk EXCEPT ![l] = Down]
  /\ seen' = [seen EXCEPT !.refused = @ \cup {lnk[l].obj}]
  /\ UNCHANGED <<worker, maker, held, host>>

\* Mutant: the object keeps the channel that is gone.
KeepsChannel(l) ==
  /\ HostMayRun /\ lnk[l].state # "down"
  /\ coc' = [coc EXCEPT ![lnk[l].obj].free = @ + lnk[l].n]
  /\ lnk' = [lnk EXCEPT ![l] = Down]
  /\ UNCHANGED <<worker, maker, held, host, seen>>

\* handleDisconnectionEvent(); the stack frees what it received in.
CocDisconnected(l) ==
  /\ HostMayRun /\ lnk[l].state # "down"
  /\ coc' = [coc EXCEPT ![lnk[l].obj].chan = NoLink, ![lnk[l].obj].free = @ + lnk[l].n]
  /\ lnk' = [lnk EXCEPT ![l] = Down]
  /\ UNCHANGED <<worker, maker, held, host, seen>>

\* A long SDU goes on in a second block.
Extend(l) ==
  /\ HostMayRun /\ lnk[l].state = "open" /\ lnk[l].n = 1
  /\ coc[lnk[l].obj].free > 0
  /\ coc' = [coc EXCEPT ![lnk[l].obj].free = @ - 1]
  /\ lnk' = [lnk EXCEPT ![l].n = 2]
  /\ UNCHANGED <<worker, maker, held, host, seen>>

\* handleDataReceivedEvent() frees the SDU,
DataReceived(l) ==
  /\ HostMayRun /\ lnk[l].state = "open" /\ lnk[l].n > 0
  /\ coc' = [coc EXCEPT ![lnk[l].obj].free = @ + lnk[l].n]
  /\ lnk' = [lnk EXCEPT ![l].n = 0]
  /\ host' = [pc |-> "receive", link |-> l, obj |-> lnk[l].obj]
  /\ UNCHANGED <<worker, maker, held, seen>>

\* and then asserts that there is a buffer and that its channel takes it.
NextBuffer ==
  /\ host.pc = "receive"
  /\ IF coc[host.obj].free > 0 /\ coc[host.obj].chan = host.link
     THEN /\ coc' = [coc EXCEPT ![host.obj].free = @ - 1]
          /\ lnk' = [lnk EXCEPT ![host.link].n = 1]
          /\ host' = HostIdle
     ELSE /\ host' = [host EXCEPT !.pc = "aborted"]
          /\ UNCHANGED <<coc, lnk>>
  /\ UNCHANGED <<worker, maker, held, seen>>

-----------------------------------------------------------------------------
(* writeFragment(): a block, or two for a full fragment.                   *)

TakeBlock(w, o) ==
  /\ held[w] = Nothing \/ (held[w].obj = o /\ held[w].n = 1)
  /\ coc[o].chan # NoLink /\ coc[o].free > 0
  /\ coc' = [coc EXCEPT ![o].free = @ - 1]
  /\ held' = [held EXCEPT ![w] = [obj |-> o, n |-> @.n + 1]]
  /\ UNCHANGED <<worker, maker, lnk, host, seen>>

\* Sent, refused by the stack, or freed since a block is missing.
FreeBlocks(w) ==
  /\ held[w] # Nothing
  /\ coc' = [coc EXCEPT ![held[w].obj].free = @ + held[w].n]
  /\ held' = [held EXCEPT ![w] = Nothing]
  /\ UNCHANGED <<worker, maker, lnk, host, seen>>

-----------------------------------------------------------------------------
MakerStep(m) ==
  \/ Ensure(m) \/ CreateLock(m) \/ TakeLock(m) \/ LookAtQueue(m) \/ CreateQueue(m)
  \/ LookAtTask(m) \/ CreateTask(m) \/ GiveLock(m)
  \/ ConnectFails(m)
  \/ \E o \in Objects, role \in {"server", "client"} : NewChannel(m, o, role)
  \/ \E ok \in BOOLEAN : CreateService(m, ok)
  \/ \E l \in Links : Connect(m, l)

ChannelStep(l) ==
  \/ CocConnected(l) \/ CocRefused(l) \/ CocDisconnected(l)
  \/ Extend(l) \/ DataReceived(l)
  \/ \E o \in Objects : AcceptEvent(l, o)

CocNext ==
  /\ host.pc # "aborted"
  /\ \/ \E m \in Makers : MakerStep(m)
     \/ \E l \in Links : ChannelStep(l)
     \/ Accepted \/ AcceptFails \/ NextBuffer
     \/ \E o \in Objects : DeleteChannel(o)
     \/ DeleteServer
     \/ \E w \in Writers : FreeBlocks(w) \/ \E o \in Objects : TakeBlock(w, o)

CocSpec == CocInit /\ [][CocNext]_cocVars

-----------------------------------------------------------------------------
(* Properties.                                                             *)

CocTypeOK ==
  /\ worker \in Worker /\ maker \in [Makers -> Maker]
  /\ coc \in [Objects -> Coc] /\ lnk \in [Links -> Link]
  /\ held \in [Writers -> Hold] /\ host \in Host /\ seen \in Seen

\* There is one queue of deferred reads and one task that reads it, however many
\* objects are made at the same time; unless two tasks created the lock at once,
\* which the lock itself cannot prevent.
OneWorker == ~seen.raced => worker.queues <= 1 /\ worker.tasks <= 1

\* The blocks of o that channels receive in, or that writers have.
BlocksIn(h, o) == {b \in (DOMAIN h) \X (1..2) : h[b[1]].obj = o /\ b[2] <= h[b[1]].n}

\* The block of o that the handler of an accepted channel has.
AcceptTakes(h, o) == IF h.pc = "accept" /\ h.obj = o THEN 1 ELSE 0

\* No block of an object's pool is lost or given twice: accepting, connecting,
\* receiving and writing return what they took, on their error paths too.
BuffersConserved ==
  /\ CocTypeOK
  /\ \A o \in Objects : coc[o].state \notin {"none", "deleted"} =>
       coc[o].free + Cardinality(BlocksIn(lnk, o)) + Cardinality(BlocksIn(held, o))
         + AcceptTakes(host, o) = Blocks

\* Unless two peers share a service or a peer refused the connection, an object
\* keeps the channel that is open, and no other; and if none shares, the handler
\* of received data finds a buffer and that channel, as it asserts, whatever the
\* writers have taken from the pool meanwhile.
ChannelIsOpen ==
  /\ \A o \in Objects \ (seen.shared \cup seen.refused) :
       \A l \in Links : coc[o].chan = l <=> lnk[l].state = "open" /\ lnk[l].obj = o
  /\ host.pc = "aborted" => host.obj \in seen.shared
===============================================================================
