--------------------------- MODULE NimBLEL2CAPProofs ---------------------------
(***************************************************************************)
(* Proofs about L2CAP: the worker that the makers of channel objects       *)
(* start, the blocks of the objects' pools and the channels that they      *)
(* name, and an open channel with its writers and its deferred reads; for  *)
(* any number of objects, tasks and channels, and any length of the queue. *)
(***************************************************************************)
EXTENDS NimBLEL2CAPChannel, NimBLEL2CAPServer, ListLemmas, FiniteSetTheorems

-----------------------------------------------------------------------------
(* One worker.                                                             *)

\* Where a maker has the lock.
Critical == {"queue", "newQueue", "task", "newTask", "give"}

\* The number of the lock is that of the last one created.
WorkerTypeOK ==
  /\ worker \in [lock : Nat, locks : Nat, held : SUBSET Nat, queues : Nat, tasks : Nat]
  /\ worker.lock = worker.locks
  /\ maker \in [Makers -> Maker]
  /\ "raced" \in DOMAIN seen

\* There is one lock, and who is between its take and its give has it alone.
LockIsHeld ==
  /\ worker.lock <= 1
  /\ \A m \in Makers : maker[m].pc \in Critical \cup {"take"} => worker.lock = 1
  /\ \A m \in Makers : maker[m].pc \in Critical => worker.lock \in worker.held
  /\ \A m, n \in Makers : maker[m].pc \in Critical /\ maker[n].pc \in Critical => m = n

\* What the holder saw of the queue and of the task is still so.
SeenIsSo ==
  /\ worker.queues <= 1 /\ worker.tasks <= 1
  /\ \A m \in Makers : maker[m].pc = "newQueue" => worker.queues = 0
  /\ \A m \in Makers : maker[m].pc = "newTask" => worker.tasks = 0

OneWorkerInv ==
  /\ WorkerTypeOK
  /\ ~seen.raced => LockIsHeld /\ SeenIsSo

-----------------------------------------------------------------------------
\* The steps that leave the worker alone, and take no maker into the critical section.
QuietMaker ==
  /\ worker' = worker
  /\ maker' \in [Makers -> Maker]
  /\ \A m \in Makers : maker'[m].pc \in Critical \cup {"take"} => maker'[m].pc = maker[m].pc
  /\ "raced" \in DOMAIN seen' /\ seen'.raced = seen.raced

LEMMA QuietLemma ==
  ASSUME OneWorkerInv, QuietMaker
  PROVE  OneWorkerInv'
<1>1. WorkerTypeOK'
  BY DEF OneWorkerInv, WorkerTypeOK, QuietMaker
<1>2. ASSUME ~seen.raced PROVE LockIsHeld' /\ SeenIsSo'
  <2>1. LockIsHeld /\ SeenIsSo
    BY <1>2 DEF OneWorkerInv
  <2>2. LockIsHeld'
    BY <2>1 DEF LockIsHeld, QuietMaker, Critical
  <2>3. SeenIsSo'
    BY <2>1 DEF SeenIsSo, QuietMaker, Critical
  <2> QED
    BY <2>2, <2>3
<1> QED
  BY <1>1, <1>2 DEF OneWorkerInv, QuietMaker

\* A step of one maker that holds, takes or gives the lock.
LEMMA MakerMoves ==
  ASSUME OneWorkerInv, NEW m \in Makers, NEW l,
         l \in {"lock", "take", "queue", "newQueue", "task", "newTask", "give", "open"},
         MakerGoes(m, l)
  PROVE  /\ maker' \in [Makers -> Maker]
         /\ maker'[m].pc = l
         /\ \A n \in Makers : n # m => maker'[n] = maker[n]
<1>1. maker \in [Makers -> Maker]
  BY DEF OneWorkerInv, WorkerTypeOK
<1>2. maker[m] \in Maker
  BY <1>1
<1>3. [maker[m] EXCEPT !.pc = l] \in Maker
  BY <1>2 DEF Maker
<1>4. maker' = [maker EXCEPT ![m] = [maker[m] EXCEPT !.pc = l]]
  BY DEF MakerGoes
<1>5. [maker[m] EXCEPT !.pc = l].pc = l
  BY <1>2 DEF Maker
<1> QED
  BY <1>1, <1>3, <1>4, <1>5

\* The steps of ensureDeferredReadWorker() keep the invariant.
LEMMA WorkerIsKept ==
  ASSUME OneWorkerInv, NEW m \in Makers,
         \/ Ensure(m) \/ CreateLock(m) \/ TakeLock(m) \/ LookAtQueue(m) \/ CreateQueue(m)
         \/ LookAtTask(m) \/ CreateTask(m) \/ GiveLock(m)
  PROVE  OneWorkerInv'
<1> USE DEF MakerAt
<1>t. /\ WorkerTypeOK
      /\ ~seen.raced => LockIsHeld /\ SeenIsSo
  BY DEF OneWorkerInv
<1>1. CASE Ensure(m)
  <2> DEFINE l == IF worker.queues # 0 /\ worker.tasks # 0 THEN "open"
                  ELSE IF worker.lock = 0 THEN "lock" ELSE "take"
  <2>1. /\ l \in {"open", "lock", "take"}
        /\ l = "take" => worker.lock # 0
        /\ MakerGoes(m, l) /\ worker' = worker /\ seen' = seen
    BY <1>1 DEF Ensure
  <2> HIDE DEF l
  <2>2. /\ maker' \in [Makers -> Maker]
        /\ maker'[m].pc = l
        /\ \A n \in Makers : n # m => maker'[n] = maker[n]
    BY <2>1, MakerMoves
  <2>3. WorkerTypeOK'
    BY <1>t, <2>1, <2>2 DEF WorkerTypeOK
  <2>4. ASSUME ~seen'.raced PROVE LockIsHeld' /\ SeenIsSo'
    BY <1>t, <2>1, <2>2, <2>4 DEF LockIsHeld, SeenIsSo, WorkerTypeOK, Critical
  <2> QED
    BY <2>3, <2>4 DEF OneWorkerInv
<1>2. CASE CreateLock(m)
  <2>1. /\ worker' = [worker EXCEPT !.lock = worker.locks + 1, !.locks = @ + 1]
        /\ seen' = [seen EXCEPT !.raced = @ \/ worker.lock # 0]
        /\ MakerGoes(m, "take")
    BY <1>2 DEF CreateLock
  <2>2. /\ maker' \in [Makers -> Maker]
        /\ maker'[m].pc = "take"
        /\ \A n \in Makers : n # m => maker'[n] = maker[n]
    BY <2>1, MakerMoves
  <2>3. /\ "raced" \in DOMAIN seen'
        /\ seen'.raced = (seen.raced \/ worker.lock # 0)
    BY <1>t, <2>1 DEF WorkerTypeOK
  <2> DEFINE W == [lock : Nat, locks : Nat, held : SUBSET Nat, queues : Nat, tasks : Nat]
  <2>4. worker \in W
    BY <1>t DEF WorkerTypeOK
  <2>5. worker' = [lock |-> worker.locks + 1, locks |-> worker.locks + 1, held |-> worker.held,
                   queues |-> worker.queues, tasks |-> worker.tasks]
    BY <2>1, <2>4
  <2>6. worker' \in W /\ worker'.lock = worker'.locks
    BY <2>4, <2>5
  <2>7. WorkerTypeOK'
    BY <2>2, <2>3, <2>6 DEF WorkerTypeOK
  <2>8. ASSUME ~seen'.raced PROVE LockIsHeld' /\ SeenIsSo'
    <3>1. worker.lock = 0 /\ worker.locks = 0 /\ LockIsHeld /\ SeenIsSo
      BY <1>t, <2>3, <2>8 DEF WorkerTypeOK
    <3>2. worker'.lock = 1 /\ worker'.queues = worker.queues /\ worker'.tasks = worker.tasks
      BY <1>t, <2>1, <3>1 DEF WorkerTypeOK
    <3>3. \A n \in Makers : maker[n].pc \notin Critical
      BY <3>1 DEF LockIsHeld
    <3>4. \A n \in Makers : maker'[n].pc \notin Critical
      BY <3>3, <2>2 DEF Critical
    <3> QED
      BY <3>1, <3>2, <3>4 DEF LockIsHeld, SeenIsSo, Critical
  <2> QED
    BY <2>7, <2>8 DEF OneWorkerInv
<1>3. CASE TakeLock(m)
  <2>1. /\ maker[m].pc = "take" /\ worker.lock \notin worker.held
        /\ worker' = [worker EXCEPT !.held = @ \cup {worker.lock}]
        /\ MakerGoes(m, "queue") /\ seen' = seen
    BY <1>3 DEF TakeLock
  <2>2. /\ maker' \in [Makers -> Maker]
        /\ maker'[m].pc = "queue"
        /\ \A n \in Makers : n # m => maker'[n] = maker[n]
    BY <2>1, MakerMoves
  <2>3. /\ WorkerTypeOK'
        /\ worker'.lock = worker.lock /\ worker'.lock \in worker'.held
        /\ worker'.queues = worker.queues /\ worker'.tasks = worker.tasks
    BY <1>t, <2>1, <2>2 DEF WorkerTypeOK
  <2>4. ASSUME ~seen'.raced PROVE LockIsHeld' /\ SeenIsSo'
    BY <1>t, <2>1, <2>2, <2>3, <2>4 DEF LockIsHeld, SeenIsSo, Critical
  <2> QED
    BY <2>3, <2>4 DEF OneWorkerInv
<1>4. CASE LookAtQueue(m)
  <2> DEFINE l == IF worker.queues = 0 THEN "newQueue" ELSE "task"
  <2>1. /\ l \in {"newQueue", "task"} /\ maker[m].pc = "queue"
        /\ l = "newQueue" => worker.queues = 0
        /\ MakerGoes(m, l) /\ worker' = worker /\ seen' = seen
    BY <1>4 DEF LookAtQueue
  <2> HIDE DEF l
  <2>2. /\ maker' \in [Makers -> Maker]
        /\ maker'[m].pc = l
        /\ \A n \in Makers : n # m => maker'[n] = maker[n]
    BY <2>1, MakerMoves
  <2>3. WorkerTypeOK'
    BY <1>t, <2>1, <2>2 DEF WorkerTypeOK
  <2>4. ASSUME ~seen'.raced PROVE LockIsHeld' /\ SeenIsSo'
    BY <1>t, <2>1, <2>2, <2>4 DEF LockIsHeld, SeenIsSo, Critical
  <2> QED
    BY <2>3, <2>4 DEF OneWorkerInv
<1>5. CASE CreateQueue(m)
  <2>1. /\ maker[m].pc = "newQueue"
        /\ worker' = [worker EXCEPT !.queues = @ + 1]
        /\ MakerGoes(m, "task") /\ seen' = seen
    BY <1>5 DEF CreateQueue
  <2>2. /\ maker' \in [Makers -> Maker]
        /\ maker'[m].pc = "task"
        /\ \A n \in Makers : n # m => maker'[n] = maker[n]
    BY <2>1, MakerMoves
  <2>3. /\ WorkerTypeOK'
        /\ worker'.lock = worker.lock /\ worker'.held = worker.held
        /\ worker'.queues = worker.queues + 1 /\ worker'.tasks = worker.tasks
    BY <1>t, <2>1, <2>2 DEF WorkerTypeOK
  <2>4. ASSUME ~seen'.raced PROVE LockIsHeld' /\ SeenIsSo'
    BY <1>t, <2>1, <2>2, <2>3, <2>4 DEF LockIsHeld, SeenIsSo, Critical
  <2> QED
    BY <2>3, <2>4 DEF OneWorkerInv
<1>6. CASE LookAtTask(m)
  <2> DEFINE l == IF worker.tasks = 0 THEN "newTask" ELSE "give"
  <2>1. /\ l \in {"newTask", "give"} /\ maker[m].pc = "task"
        /\ l = "newTask" => worker.tasks = 0
        /\ MakerGoes(m, l) /\ worker' = worker /\ seen' = seen
    BY <1>6 DEF LookAtTask
  <2> HIDE DEF l
  <2>2. /\ maker' \in [Makers -> Maker]
        /\ maker'[m].pc = l
        /\ \A n \in Makers : n # m => maker'[n] = maker[n]
    BY <2>1, MakerMoves
  <2>3. WorkerTypeOK'
    BY <1>t, <2>1, <2>2 DEF WorkerTypeOK
  <2>4. ASSUME ~seen'.raced PROVE LockIsHeld' /\ SeenIsSo'
    BY <1>t, <2>1, <2>2, <2>4 DEF LockIsHeld, SeenIsSo, Critical
  <2> QED
    BY <2>3, <2>4 DEF OneWorkerInv
<1>7. CASE CreateTask(m)
  <2>1. /\ maker[m].pc = "newTask"
        /\ worker' = [worker EXCEPT !.tasks = @ + 1]
        /\ MakerGoes(m, "give") /\ seen' = seen
    BY <1>7 DEF CreateTask
  <2>2. /\ maker' \in [Makers -> Maker]
        /\ maker'[m].pc = "give"
        /\ \A n \in Makers : n # m => maker'[n] = maker[n]
    BY <2>1, MakerMoves
  <2>3. /\ WorkerTypeOK'
        /\ worker'.lock = worker.lock /\ worker'.held = worker.held
        /\ worker'.tasks = worker.tasks + 1 /\ worker'.queues = worker.queues
    BY <1>t, <2>1, <2>2 DEF WorkerTypeOK
  <2>4. ASSUME ~seen'.raced PROVE LockIsHeld' /\ SeenIsSo'
    BY <1>t, <2>1, <2>2, <2>3, <2>4 DEF LockIsHeld, SeenIsSo, Critical
  <2> QED
    BY <2>3, <2>4 DEF OneWorkerInv
<1>8. CASE GiveLock(m)
  <2>1. /\ maker[m].pc = "give"
        /\ worker' = [worker EXCEPT !.held = @ \ {worker.lock}]
        /\ MakerGoes(m, "open") /\ seen' = seen
    BY <1>8 DEF GiveLock
  <2>2. /\ maker' \in [Makers -> Maker]
        /\ maker'[m].pc = "open"
        /\ \A n \in Makers : n # m => maker'[n] = maker[n]
    BY <2>1, MakerMoves
  <2>3. /\ WorkerTypeOK'
        /\ worker'.lock = worker.lock
        /\ worker'.tasks = worker.tasks /\ worker'.queues = worker.queues
    BY <1>t, <2>1, <2>2 DEF WorkerTypeOK
  <2>4. ASSUME ~seen'.raced PROVE LockIsHeld' /\ SeenIsSo'
    BY <1>t, <2>1, <2>2, <2>3, <2>4 DEF LockIsHeld, SeenIsSo, Critical
  <2> QED
    BY <2>3, <2>4 DEF OneWorkerInv
<1> QED
  BY <1>1, <1>2, <1>3, <1>4, <1>5, <1>6, <1>7, <1>8

\* What else a maker does leaves the worker alone.
LEMMA OtherMakerStep ==
  ASSUME OneWorkerInv, NEW m \in Makers,
         \/ ConnectFails(m)
         \/ \E o \in Objects, role \in {"server", "client"} : NewChannel(m, o, role)
         \/ \E ok \in BOOLEAN : CreateService(m, ok)
         \/ \E l \in Links : Connect(m, l)
  PROVE  OneWorkerInv'
<1>1. maker \in [Makers -> Maker] /\ "raced" \in DOMAIN seen
  BY DEF OneWorkerInv, WorkerTypeOK
<1>2. Idling \in Maker /\ Idling.pc \notin Critical \cup {"take"}
  BY DEF Idling, Maker, Critical
<1>3. CASE \E o \in Objects, role \in {"server", "client"} : NewChannel(m, o, role)
  <2>1. PICK o \in Objects, role \in {"server", "client"} : NewChannel(m, o, role)
    BY <1>3
  <2> DEFINE r == [pc |-> "ensure", obj |-> o, role |-> role]
  <2>2. r \in Maker /\ r.pc \notin Critical \cup {"take"}
    BY DEF Maker, Critical
  <2>3. maker' = [maker EXCEPT ![m] = r] /\ worker' = worker /\ seen' = seen
    BY <2>1 DEF NewChannel
  <2> HIDE DEF r
  <2>4. QuietMaker
    BY <1>1, <2>2, <2>3 DEF QuietMaker
  <2> QED
    BY <2>4, QuietLemma
<1>4. CASE \/ ConnectFails(m) \/ \E ok \in BOOLEAN : CreateService(m, ok)
           \/ \E l \in Links : Connect(m, l)
  <2>1. maker' = [maker EXCEPT ![m] = Idling] /\ worker' = worker /\ seen' = seen
    BY <1>4 DEF ConnectFails, CreateService, Connect, MakerDone
  <2>2. QuietMaker
    BY <1>1, <1>2, <2>1 DEF QuietMaker
  <2> QED
    BY <2>2, QuietLemma
<1> QED
  BY <1>3, <1>4

\* The handlers and the writers know nothing of the worker.
LEMMA HandlerStep ==
  ASSUME OneWorkerInv,
         \/ \E l \in Links : ChannelStep(l)
         \/ Accepted \/ AcceptFails \/ NextBuffer
         \/ \E o \in Objects : DeleteChannel(o)
         \/ DeleteServer
         \/ \E w \in Writers : FreeBlocks(w) \/ \E o \in Objects : TakeBlock(w, o)
  PROVE  OneWorkerInv'
<1>1. "raced" \in DOMAIN seen /\ maker \in [Makers -> Maker]
  BY DEF OneWorkerInv, WorkerTypeOK
<1>2. worker' = worker /\ maker' = maker
  BY DEF ChannelStep, CocConnected, CocRefused, CocDisconnected, Extend, DataReceived,
         AcceptEvent, Accepted, AcceptFails, NextBuffer, DeleteChannel, DeleteServer,
         FreeBlocks, TakeBlock
<1>3. CASE \E l \in Links, o \in Objects : AcceptEvent(l, o)
  <2>1. PICK l \in Links, o \in Objects : AcceptEvent(l, o)
    BY <1>3
  <2> DEFINE s == IF \E k \in Links : lnk[k].obj = o THEN seen.shared \cup {o} ELSE seen.shared
  <2>2. seen' = [seen EXCEPT !.shared = s]
    BY <2>1 DEF AcceptEvent
  <2> HIDE DEF s
  <2>3. "raced" \in DOMAIN seen' /\ seen'.raced = seen.raced
    BY <1>1, <2>2
  <2> QED
    BY <1>1, <1>2, <2>3, QuietLemma DEF QuietMaker
<1>4. CASE \E l \in Links : CocRefused(l)
  <2>1. "raced" \in DOMAIN seen' /\ seen'.raced = seen.raced
    BY <1>1, <1>4 DEF CocRefused
  <2> QED
    BY <1>1, <1>2, <2>1, QuietLemma DEF QuietMaker
<1>5. CASE seen' = seen
  BY <1>1, <1>2, <1>5, QuietLemma DEF QuietMaker
<1> QED
  BY <1>3, <1>4, <1>5
     DEF ChannelStep, CocConnected, CocDisconnected, Extend, DataReceived, Accepted,
         AcceptFails, NextBuffer, DeleteChannel, DeleteServer, FreeBlocks, TakeBlock

LEMMA OneWorkerInit == CocInit => OneWorkerInv
<1> SUFFICES ASSUME CocInit PROVE OneWorkerInv
  OBVIOUS
<1>1. Idling \in Maker /\ Idling.pc = "idle"
  BY DEF Idling, Maker
<1>2. WorkerTypeOK
  BY <1>1 DEF CocInit, WorkerTypeOK
<1>3. LockIsHeld /\ SeenIsSo
  BY <1>1 DEF CocInit, LockIsHeld, SeenIsSo, Critical
<1> QED
  BY <1>2, <1>3 DEF OneWorkerInv

LEMMA OneWorkerStep == OneWorkerInv /\ [CocNext]_cocVars => OneWorkerInv'
<1> SUFFICES ASSUME OneWorkerInv, [CocNext]_cocVars PROVE OneWorkerInv'
  OBVIOUS
<1>1. CASE \E m \in Makers : MakerStep(m)
  BY <1>1, WorkerIsKept, OtherMakerStep DEF MakerStep
<1>2. CASE UNCHANGED cocVars
  BY <1>2 DEF cocVars, OneWorkerInv, WorkerTypeOK, LockIsHeld, SeenIsSo
<1>3. CASE CocNext /\ ~ \E m \in Makers : MakerStep(m)
  BY <1>3, HandlerStep DEF CocNext
<1> QED
  BY <1>1, <1>2, <1>3

\* However many tasks make channel objects at the same time, there is one queue of
\* deferred reads and one task that reads it, unless two of them created the lock
\* at once (ensureDeferredReadWorker()).
THEOREM WorkerIsOne == CocSpec => []OneWorker
<1>1. OneWorkerInv => OneWorker
  BY DEF OneWorkerInv, SeenIsSo, OneWorker
<1> QED
  BY <1>1, OneWorkerInit, OneWorkerStep, PTL DEF CocSpec

-----------------------------------------------------------------------------
(* The blocks that somebody has.                                           *)

\* How many blocks of o the holder r has.
Part(r, o) == IF r.obj = o THEN r.n ELSE 0

LEMMA FirstBlocks ==
  ASSUME NEW k, NEW n \in 0..2
  PROVE  IsFiniteSet({k} \X (1..n)) /\ Cardinality({k} \X (1..n)) = n
<1>1. CASE n = 0
  <2>1. {k} \X (1..n) = {}
    BY <1>1
  <2> QED
    BY <1>1, <2>1, FS_EmptySet
<1>2. CASE n = 1
  <2>1. {k} \X (1..n) = {<<k, 1>>}
    BY <1>2
  <2> QED
    BY <1>2, <2>1, FS_Singleton
<1>3. CASE n = 2
  <2>1. {k} \X (1..n) = {<<k, 1>>} \cup {<<k, 2>>} /\ <<k, 2>> \notin {<<k, 1>>}
    BY <1>3
  <2>2. IsFiniteSet({<<k, 1>>}) /\ Cardinality({<<k, 1>>}) = 1
    BY FS_Singleton
  <2> DEFINE S == {<<k, 1>>}
  <2>3. /\ IsFiniteSet(S \cup {<<k, 2>>})
        /\ Cardinality(S \cup {<<k, 2>>}) = IF <<k, 2>> \in S THEN Cardinality(S) ELSE Cardinality(S) + 1
    <3>1. IsFiniteSet(S)
      BY <2>2
    <3> HIDE DEF S
    <3> QED
      BY <3>1, FS_AddElement
  <2> QED
    BY <1>3, <2>1, <2>2, <2>3
<1> QED
  BY <1>1, <1>2, <1>3

LEMMA BlocksAreFinite ==
  ASSUME NEW K, IsFiniteSet(K), NEW h, DOMAIN h = K, NEW o
  PROVE  /\ IsFiniteSet(BlocksIn(h, o)) /\ Cardinality(BlocksIn(h, o)) \in Nat
         /\ Cardinality(BlocksIn(h, o)) <= 2 * Cardinality(K)
<1>1. IsFiniteSet(1..2) /\ Cardinality(1..2) = 2
  <2>1. 1 \in Int /\ 2 \in Int /\ ~(1 > 2) /\ 2 - 1 + 1 = 2
    OBVIOUS
  <2>2. IsFiniteSet(1..2) /\ Cardinality(1..2) = IF 1 > 2 THEN 0 ELSE 2 - 1 + 1
    BY <2>1, FS_Interval, Zenon
  <2> QED
    BY <2>1, <2>2, Zenon
<1>2. IsFiniteSet(K \X (1..2)) /\ Cardinality(K \X (1..2)) = Cardinality(K) * 2
  BY <1>1, FS_Product
<1>3. BlocksIn(h, o) \in SUBSET (K \X (1..2))
  BY DEF BlocksIn
<1>4. Cardinality(K) \in Nat
  BY FS_CardinalityType
<1>5. IsFiniteSet(BlocksIn(h, o)) /\ Cardinality(BlocksIn(h, o)) <= Cardinality(K \X (1..2))
  BY <1>2, <1>3, FS_Subset
<1> QED
  BY <1>2, <1>4, <1>5, FS_CardinalityType

\* One holder comes to have something else.
LEMMA BlocksMove ==
  ASSUME NEW K, IsFiniteSet(K), NEW h, DOMAIN h = K, NEW g, DOMAIN g = K, NEW k \in K,
         \A j \in K : j # k => g[j] = h[j],
         g[k].n \in 0..2, h[k].n \in 0..2, NEW o
  PROVE  Cardinality(BlocksIn(g, o)) = Cardinality(BlocksIn(h, o)) - Part(h[k], o) + Part(g[k], o)
<1> DEFINE rest == {b \in (K \ {k}) \X (1..2) : h[b[1]].obj = o /\ b[2] <= h[b[1]].n}
<1>1. ASSUME NEW f, DOMAIN f = K, f[k].n \in 0..2, \A j \in K : j # k => f[j] = h[j]
      PROVE  /\ Cardinality(BlocksIn(f, o)) = Cardinality(rest) + Part(f[k], o)
             /\ Cardinality(rest) \in Nat
  <2> DEFINE own == {k} \X (1..Part(f[k], o))
  <2>1. Part(f[k], o) \in 0..2
    BY <1>1 DEF Part
  <2>2. IsFiniteSet(own) /\ Cardinality(own) = Part(f[k], o)
    BY <2>1, FirstBlocks
  <2>3. BlocksIn(f, o) = rest \cup own
    <3>1. ASSUME NEW b \in BlocksIn(f, o) PROVE b \in rest \cup own
      <4>1. b \in K \X (1..2) /\ f[b[1]].obj = o /\ b[2] <= f[b[1]].n
        BY <1>1, <3>1 DEF BlocksIn
      <4>2. CASE b[1] = k
        <5>1. Part(f[k], o) = f[k].n /\ b[2] \in 1..f[k].n /\ b = <<k, b[2]>>
          BY <1>1, <4>1, <4>2 DEF Part
        <5> QED
          BY <5>1
      <4>3. CASE b[1] # k
        <5>1. b \in (K \ {k}) \X (1..2) /\ f[b[1]] = h[b[1]]
          BY <1>1, <4>1, <4>3
        <5> QED
          BY <4>1, <5>1
      <4> QED
        BY <4>2, <4>3
    <3>2. ASSUME NEW b \in rest PROVE b \in BlocksIn(f, o)
      <4>1. b \in K \X (1..2) /\ f[b[1]] = h[b[1]] /\ h[b[1]].obj = o /\ b[2] <= h[b[1]].n
        BY <1>1, <3>2
      <4> QED
        BY <1>1, <4>1 DEF BlocksIn
    <3>3. ASSUME NEW b \in own PROVE b \in BlocksIn(f, o)
      <4>1. b[1] = k /\ b[2] \in 1..Part(f[k], o) /\ b = <<k, b[2]>>
        OBVIOUS
      <4>2. f[k].obj = o /\ b[2] \in 1..f[k].n
        BY <4>1 DEF Part
      <4>3. b \in K \X (1..2) /\ b[2] <= f[k].n
        BY <1>1, <4>1, <4>2
      <4> QED
        BY <1>1, <4>1, <4>2, <4>3 DEF BlocksIn
    <3> QED
      BY <3>1, <3>2, <3>3
  <2>4. rest \cap own = {}
    OBVIOUS
  <2>5. IsFiniteSet(BlocksIn(f, o))
    BY <1>1, BlocksAreFinite
  <2>6. IsFiniteSet(rest)
    BY <2>3, <2>5, FS_Subset
  <2>7. Cardinality(rest) \in Nat
    BY <2>6, FS_CardinalityType
  <2> HIDE DEF rest, own
  <2>8. Cardinality(rest \cup own) = Cardinality(rest) + Cardinality(own) - Cardinality(rest \cap own)
    BY <2>2, <2>6, FS_Union
  <2>9. Cardinality(rest \cap own) = 0
    BY <2>4, FS_EmptySet
  <2>10. Part(f[k], o) \in Int
    BY <2>1
  <2> QED
    BY <2>2, <2>3, <2>7, <2>8, <2>9, <2>10
<1>2. /\ Cardinality(BlocksIn(h, o)) = Cardinality(rest) + Part(h[k], o)
      /\ Cardinality(rest) \in Nat
  BY <1>1
<1>3. Cardinality(BlocksIn(g, o)) = Cardinality(rest) + Part(g[k], o)
  BY <1>1
<1>4. Part(h[k], o) \in Int /\ Part(g[k], o) \in Int
  BY DEF Part
<1> HIDE DEF rest
<1> QED
  BY <1>2, <1>3, <1>4

-----------------------------------------------------------------------------
(* The objects and their users.                                            *)

CocRecord == [state : {"none", "made", "served", "client", "lost", "deleted"},
              free : Nat, chan : Links \cup {NoLink}]

Gone == {"none", "deleted"}
Live == {"served", "client"}

ShapeOK ==
  /\ maker \in [Makers -> Maker]
  /\ coc \in [Objects -> CocRecord] /\ lnk \in [Links -> Link]
  /\ held \in [Writers -> Hold] /\ host \in Host /\ seen \in Seen

\* Who makes an object has it for itself.
MakersHaveObjects ==
  /\ \A m \in Makers :
       maker[m].pc # "idle" => maker[m].obj \in Objects /\ coc[maker[m].obj].state = "made"
  /\ \A m, n \in Makers :
       maker[m].pc # "idle" /\ maker[n].pc # "idle" /\ maker[m].obj = maker[n].obj => m = n

\* A channel in use, and a writer with blocks, belong to an object that is served
\* or was connected.
UsersHaveObjects ==
  /\ \A l \in Links :
       IF lnk[l].state = "down" THEN lnk[l] = Down
       ELSE lnk[l].obj \in Objects /\ coc[lnk[l].obj].state \in Live
  /\ \A w \in Writers :
       held[w] # Nothing =>
         held[w].obj \in Objects /\ held[w].n # 0 /\ coc[held[w].obj].state \in Live

\* A handler that is not done yet has the channel that it began with.
HandlerOK ==
  /\ host.pc \in {"accept", "receive"} =>
       /\ host.link \in Links /\ host.obj \in Objects
       /\ lnk[host.link] = [state |-> IF host.pc = "accept" THEN "asked" ELSE "open",
                            obj |-> host.obj, n |-> 0]
  /\ host.pc = "aborted" => host.obj \in seen.shared

\* An object that nobody shares has one channel, and names it once it is open.
ChannelsOK ==
  /\ \A o \in Objects :
       /\ coc[o].chan # NoLink => coc[o].state \in Live
       /\ o \in seen.shared => coc[o].state \in {"served", "deleted"}
       /\ o \in seen.refused =>
            coc[o].state \in {"client", "deleted"} /\ \A l \in Links : lnk[l].obj # o
  /\ \A o \in Objects \ seen.shared, l \in Links :
       lnk[l].obj = o =>
         /\ lnk[l].state = "open" => coc[o].chan = l
         /\ \A k \in Links : lnk[k].obj = o => k = l
  /\ \A o \in Objects \ (seen.shared \cup seen.refused), l \in Links :
       coc[o].chan = l => lnk[l].state = "open" /\ lnk[l].obj = o

Total(o) == coc[o].free + Cardinality(BlocksIn(lnk, o)) + Cardinality(BlocksIn(held, o)) + AcceptTakes(host, o)

Balanced == \A o \in Objects : coc[o].state \notin Gone => Total(o) = Blocks

\* An object that is not there has no pool.
NoPoolLeft == \A o \in Objects : coc[o].state \in Gone => coc[o].free = 0

CocInv ==
  /\ ShapeOK /\ MakersHaveObjects /\ UsersHaveObjects /\ HandlerOK /\ ChannelsOK
  /\ NoPoolLeft /\ Balanced

\* What the object o has become.
LEMMA ObjectIs ==
  ASSUME ShapeOK, NEW o \in Objects, NEW c \in CocRecord, coc' = [coc EXCEPT ![o] = c]
  PROVE  /\ coc' \in [Objects -> CocRecord] /\ coc'[o] = c
         /\ \A q \in Objects : q # o => coc'[q] = coc[q]
BY DEF ShapeOK

LEMMA LinkIs ==
  ASSUME ShapeOK, NEW l \in Links, NEW r \in Link, lnk' = [lnk EXCEPT ![l] = r]
  PROVE  /\ lnk' \in [Links -> Link] /\ lnk'[l] = r
         /\ \A k \in Links : k # l => lnk'[k] = lnk[k]
BY DEF ShapeOK

LEMMA HoldIs ==
  ASSUME ShapeOK, NEW w \in Writers, NEW r \in Hold, held' = [held EXCEPT ![w] = r]
  PROVE  /\ held' \in [Writers -> Hold] /\ held'[w] = r
         /\ \A v \in Writers : v # w => held'[v] = held[v]
BY DEF ShapeOK

LEMMA FieldsAre ==
  ASSUME ShapeOK
  PROVE  /\ \A o \in Objects :
              /\ coc[o] = [state |-> coc[o].state, free |-> coc[o].free, chan |-> coc[o].chan]
              /\ coc[o] \in CocRecord /\ coc[o].free \in Nat /\ coc[o].chan \in Links \cup {NoLink}
         /\ \A l \in Links :
              /\ lnk[l] = [state |-> lnk[l].state, obj |-> lnk[l].obj, n |-> lnk[l].n]
              /\ lnk[l] \in Link /\ lnk[l].n \in 0..2 /\ lnk[l].obj \in Objects \cup {NoObject}
         /\ \A w \in Writers :
              /\ held[w] = [obj |-> held[w].obj, n |-> held[w].n]
              /\ held[w] \in Hold /\ held[w].n \in 0..2 /\ held[w].obj \in Objects \cup {NoObject}
BY DEF ShapeOK, CocRecord, Link, Hold

LEMMA CardinalitiesAre ==
  ASSUME ShapeOK, NEW o
  PROVE  /\ Cardinality(BlocksIn(lnk, o)) \in Nat
         /\ Cardinality(BlocksIn(held, o)) \in Nat
         /\ Cardinality(BlocksIn(held, o)) <= 2 * Cardinality(Writers)
         /\ Cardinality(Writers) \in Nat
         /\ AcceptTakes(host, o) \in 0..1
<1>1. DOMAIN lnk = Links /\ DOMAIN held = Writers
  BY DEF ShapeOK
<1> QED
  BY <1>1, BlocksAreFinite, PoolAssumption, FS_CardinalityType DEF AcceptTakes

\* A channel, or a writer, comes to have something else.
LEMMA LinkBlocks ==
  ASSUME ShapeOK, NEW l \in Links, NEW r \in Link, lnk' = [lnk EXCEPT ![l] = r], NEW q
  PROVE  Cardinality(BlocksIn(lnk', q)) = Cardinality(BlocksIn(lnk, q)) - Part(lnk[l], q) + Part(r, q)
<1> DEFINE g == lnk'
           h == lnk
<1>1. IsFiniteSet(Links)
  BY PoolAssumption
<1>2. DOMAIN h = Links /\ DOMAIN g = Links /\ g[l] = r /\ \A k \in Links : k # l => g[k] = h[k]
  BY LinkIs DEF ShapeOK
<1>3. g[l].n \in 0..2 /\ h[l].n \in 0..2
  BY <1>2 DEF ShapeOK, Link
<1> HIDE DEF g, h
<1>4. Cardinality(BlocksIn(g, q)) = Cardinality(BlocksIn(h, q)) - Part(h[l], q) + Part(g[l], q)
  BY <1>1, <1>2, <1>3, BlocksMove
<1> QED
  BY <1>2, <1>4 DEF g, h

LEMMA HoldBlocks ==
  ASSUME ShapeOK, NEW w \in Writers, NEW r \in Hold, held' = [held EXCEPT ![w] = r], NEW q
  PROVE  Cardinality(BlocksIn(held', q)) = Cardinality(BlocksIn(held, q)) - Part(held[w], q) + Part(r, q)
<1> DEFINE g == held'
           h == held
<1>1. IsFiniteSet(Writers)
  BY PoolAssumption
<1>2. DOMAIN h = Writers /\ DOMAIN g = Writers /\ g[w] = r /\ \A k \in Writers : k # w => g[k] = h[k]
  BY HoldIs DEF ShapeOK
<1>3. g[w].n \in 0..2 /\ h[w].n \in 0..2
  BY <1>2 DEF ShapeOK, Hold
<1> HIDE DEF g, h
<1>4. Cardinality(BlocksIn(g, q)) = Cardinality(BlocksIn(h, q)) - Part(h[w], q) + Part(g[w], q)
  BY <1>1, <1>2, <1>3, BlocksMove
<1> QED
  BY <1>2, <1>4 DEF g, h

\* What a step of a channel, or of a writer, makes of it and of an object.
LinkMoves(l, r, o, c) == lnk' = [lnk EXCEPT ![l] = r] /\ coc' = [coc EXCEPT ![o] = c]
HoldMoves(w, r, o, c) == held' = [held EXCEPT ![w] = r] /\ coc' = [coc EXCEPT ![o] = c]

\* A channel comes to have something else of o, and the pool or the handler the less.
LEMMA LinkBalance ==
  ASSUME CocInv, UNCHANGED held,
         NEW l \in Links, NEW r \in Link, NEW o \in Objects, NEW c \in CocRecord,
         LinkMoves(l, r, o, c), coc[o].state \notin Gone,
         \A q \in Objects :
           q # o => Part(r, q) = Part(lnk[l], q) /\ AcceptTakes(host', q) = AcceptTakes(host, q),
         c.free + Part(r, o) + AcceptTakes(host', o)
           = coc[o].free + Part(lnk[l], o) + AcceptTakes(host, o)
  PROVE  Balanced'
<1>1. /\ ShapeOK /\ Balanced
      /\ lnk' = [lnk EXCEPT ![l] = r] /\ coc' = [coc EXCEPT ![o] = c]
  BY DEF CocInv, LinkMoves
<1>0. /\ r.n \in 0..2 /\ lnk[l].n \in 0..2 /\ c.free \in Nat
      /\ \A q \in Objects : coc[q].free \in Nat
  <2>1. lnk[l] \in Link /\ coc \in [Objects -> CocRecord]
    BY <1>1 DEF ShapeOK
  <2> QED
    BY <2>1 DEF Link, CocRecord
<1>2. ASSUME NEW q \in Objects
      PROVE  Cardinality(BlocksIn(lnk', q)) = Cardinality(BlocksIn(lnk, q)) - Part(lnk[l], q) + Part(r, q)
  BY <1>1, LinkBlocks
<1>3. coc'[o] = c /\ \A q \in Objects : q # o => coc'[q] = coc[q]
  BY <1>1, ObjectIs
<1>4. ASSUME NEW q \in Objects
      PROVE  /\ Cardinality(BlocksIn(lnk, q)) \in Nat /\ Cardinality(BlocksIn(held, q)) \in Nat
             /\ AcceptTakes(host, q) \in Int /\ Part(r, q) \in Int /\ Part(lnk[l], q) \in Int
             /\ coc[q].free \in Int /\ c.free \in Int
  <2>1. AcceptTakes(host, q) \in 0..1
    BY <1>1, CardinalitiesAre
  <2>2. Part(r, q) \in Int /\ Part(lnk[l], q) \in Int
    BY <1>0 DEF Part
  <2>3. coc[q].free \in Int /\ c.free \in Int
    BY <1>0
  <2> QED
    BY <1>1, <2>1, <2>2, <2>3, CardinalitiesAre
<1>5. ASSUME NEW q \in Objects, coc'[q].state \notin Gone
      PROVE  coc'[q].free + Cardinality(BlocksIn(lnk', q)) + Cardinality(BlocksIn(held', q)) + AcceptTakes(host', q) = Blocks
  <2>1. BlocksIn(held', q) = BlocksIn(held, q)
    OBVIOUS
  <2> DEFINE x == Cardinality(BlocksIn(lnk, q))
             x2 == Cardinality(BlocksIn(lnk', q))
             y == Cardinality(BlocksIn(held, q))
             p == Part(lnk[l], q)
             p2 == Part(r, q)
             t == AcceptTakes(host, q)
             t2 == AcceptTakes(host', q)
             f == coc[q].free
             f2 == coc'[q].free
  <2>3. x \in Int /\ x2 = x - p + p2 /\ y \in Int /\ p \in Int /\ p2 \in Int /\ t \in Int /\ t2 \in Int
        /\ f \in Int /\ f2 \in Int /\ Blocks \in Int
    <3>1. x2 = x - p + p2
      BY <1>2
    <3>2. x \in Int /\ y \in Int /\ p \in Int /\ p2 \in Int /\ t \in Int /\ f \in Int
      BY <1>4
    <3>3. t2 \in Int
      BY DEF AcceptTakes
    <3>4. f2 \in Int
      BY <1>3, <1>4
    <3>5. Blocks \in Int
      BY PoolAssumption
    <3> QED
      BY <3>1, <3>2, <3>3, <3>4, <3>5
  <2>4. coc[q].state \notin Gone /\ f2 + p2 + t2 = f + p + t
    BY <1>3, <1>4, <1>5
  <2>5. f + x + y + t = Blocks
    BY <1>1, <1>4, <2>4 DEF Balanced, Total
  <2> HIDE DEF x, x2, y, p, p2, t, t2, f, f2
  <2>6. f2 + x2 + y + t2 = Blocks
    BY <2>3, <2>4, <2>5
  <2> QED
    BY <2>1, <2>6 DEF x, x2, y, p, p2, t, t2, f, f2
<1> QED
  BY <1>5 DEF Balanced, Total

\* The same for a writer.
LEMMA HoldBalance ==
  ASSUME CocInv, UNCHANGED <<lnk, host>>,
         NEW w \in Writers, NEW r \in Hold, NEW o \in Objects, NEW c \in CocRecord,
         HoldMoves(w, r, o, c), coc[o].state \notin Gone,
         \A q \in Objects : q # o => Part(r, q) = Part(held[w], q),
         c.free + Part(r, o) = coc[o].free + Part(held[w], o)
  PROVE  Balanced'
<1>1. /\ ShapeOK /\ Balanced
      /\ held' = [held EXCEPT ![w] = r] /\ coc' = [coc EXCEPT ![o] = c]
  BY DEF CocInv, HoldMoves
<1>0. /\ r.n \in 0..2 /\ held[w].n \in 0..2 /\ c.free \in Nat
      /\ \A q \in Objects : coc[q].free \in Nat
  <2>1. held[w] \in Hold /\ coc \in [Objects -> CocRecord]
    BY <1>1 DEF ShapeOK
  <2> QED
    BY <2>1 DEF Hold, CocRecord
<1>2. ASSUME NEW q \in Objects
      PROVE  Cardinality(BlocksIn(held', q)) = Cardinality(BlocksIn(held, q)) - Part(held[w], q) + Part(r, q)
  BY <1>1, HoldBlocks
<1>3. coc'[o] = c /\ \A q \in Objects : q # o => coc'[q] = coc[q]
  BY <1>1, ObjectIs
<1>4. ASSUME NEW q \in Objects
      PROVE  /\ Cardinality(BlocksIn(lnk, q)) \in Nat /\ Cardinality(BlocksIn(held, q)) \in Nat
             /\ AcceptTakes(host, q) \in Int /\ Part(r, q) \in Int /\ Part(held[w], q) \in Int
             /\ coc[q].free \in Int /\ c.free \in Int
  <2>1. AcceptTakes(host, q) \in 0..1
    BY <1>1, CardinalitiesAre
  <2>2. Part(r, q) \in Int /\ Part(held[w], q) \in Int
    BY <1>0 DEF Part
  <2>3. coc[q].free \in Int /\ c.free \in Int
    BY <1>0
  <2> QED
    BY <1>1, <2>1, <2>2, <2>3, CardinalitiesAre
<1>5. ASSUME NEW q \in Objects, coc'[q].state \notin Gone
      PROVE  coc'[q].free + Cardinality(BlocksIn(lnk', q)) + Cardinality(BlocksIn(held', q)) + AcceptTakes(host', q) = Blocks
  <2>1. BlocksIn(lnk', q) = BlocksIn(lnk, q) /\ AcceptTakes(host', q) = AcceptTakes(host, q)
    OBVIOUS
  <2> DEFINE x == Cardinality(BlocksIn(held, q))
             x2 == Cardinality(BlocksIn(held', q))
             y == Cardinality(BlocksIn(lnk, q))
             p == Part(held[w], q)
             p2 == Part(r, q)
             t == AcceptTakes(host, q)
             t2 == AcceptTakes(host', q)
             f == coc[q].free
             f2 == coc'[q].free
  <2>3. x \in Int /\ x2 = x - p + p2 /\ y \in Int /\ p \in Int /\ p2 \in Int /\ t \in Int /\ t2 \in Int
        /\ f \in Int /\ f2 \in Int /\ Blocks \in Int
    <3>1. x2 = x - p + p2
      BY <1>2
    <3>2. x \in Int /\ y \in Int /\ p \in Int /\ p2 \in Int /\ t \in Int /\ f \in Int
      BY <1>4
    <3>3. t2 \in Int
      BY DEF AcceptTakes
    <3>4. f2 \in Int
      BY <1>3, <1>4
    <3>5. Blocks \in Int
      BY PoolAssumption
    <3> QED
      BY <3>1, <3>2, <3>3, <3>4, <3>5
  <2>4. coc[q].state \notin Gone /\ f2 + p2 + t2 = f + p + t
    BY <1>3, <1>4, <1>5, <2>1
  <2>5. f + y + x + t = Blocks
    BY <1>1, <1>4, <2>4 DEF Balanced, Total
  <2> HIDE DEF x, x2, y, p, p2, t, t2, f, f2
  <2>6. f2 + y + x2 + t2 = Blocks
    BY <2>3, <2>4, <2>5
  <2> QED
    BY <2>1, <2>6 DEF x, x2, y, p, p2, t, t2, f, f2
<1> QED
  BY <1>5 DEF Balanced, Total

LEMMA FreeSet ==
  ASSUME NEW r \in CocRecord, NEW f
  PROVE  [r EXCEPT !.free = f] = [state |-> r.state, free |-> f, chan |-> r.chan]
BY DEF CocRecord

ChanFree(r, x, f) == [r EXCEPT !.chan = x, !.free = f]

LEMMA ChanSet ==
  ASSUME NEW r \in CocRecord, NEW x \in Links \cup {NoLink}
  PROVE  [r EXCEPT !.chan = x] = [state |-> r.state, free |-> r.free, chan |-> x]
BY DEF CocRecord

LEMMA ChanFreeSet ==
  ASSUME NEW r \in CocRecord, NEW f, NEW x \in Links \cup {NoLink}
  PROVE  ChanFree(r, x, f) = [state |-> r.state, free |-> f, chan |-> x]
<1> DEFINE s == [r EXCEPT !.chan = x]
<1>1. s = [state |-> r.state, free |-> r.free, chan |-> x]
  BY ChanSet
<1>2. s \in CocRecord /\ s.state = r.state /\ s.chan = x
  BY <1>1 DEF CocRecord
<1>3. ChanFree(r, x, f) = [s EXCEPT !.free = f]
  BY DEF ChanFree
<1> HIDE DEF s
<1>4. [s EXCEPT !.free = f] = [state |-> r.state, free |-> f, chan |-> x]
  BY <1>2, FreeSet
<1> QED
  BY <1>3, <1>4

\* A step of a channel of o, which stays what it is.
LEMMA LinkStep ==
  ASSUME CocInv, UNCHANGED <<maker, held>>,
         NEW l \in Links, NEW r \in Link, NEW o \in Objects, NEW c \in CocRecord,
         LinkMoves(l, r, o, c), c.state = coc[o].state, c.state \in Live,
         r = Down \/ (r.state # "down" /\ r.obj = o), lnk[l] = Down \/ lnk[l].obj = o,
         \A q \in Objects : q # o => AcceptTakes(host', q) = AcceptTakes(host, q),
         c.free + Part(r, o) + AcceptTakes(host', o)
           = coc[o].free + Part(lnk[l], o) + AcceptTakes(host, o),
         host' \in Host, seen' \in Seen, HandlerOK', ChannelsOK'
  PROVE  CocInv'
<1>1. /\ ShapeOK /\ MakersHaveObjects /\ UsersHaveObjects /\ NoPoolLeft
      /\ lnk' = [lnk EXCEPT ![l] = r] /\ coc' = [coc EXCEPT ![o] = c]
  BY DEF CocInv, LinkMoves
<1>2. /\ coc' \in [Objects -> CocRecord] /\ coc'[o] = c
      /\ \A q \in Objects : q # o => coc'[q] = coc[q]
  BY <1>1, ObjectIs
<1>3. /\ lnk' \in [Links -> Link] /\ lnk'[l] = r
      /\ \A k \in Links : k # l => lnk'[k] = lnk[k]
  BY <1>1, LinkIs
<1>4. ShapeOK'
  BY <1>1, <1>2, <1>3 DEF ShapeOK
<1>5. \A q \in Objects : coc'[q].state = coc[q].state
  BY <1>2
<1>6. MakersHaveObjects'
  BY <1>1, <1>5 DEF MakersHaveObjects
<1>7. UsersHaveObjects'
  BY <1>1, <1>3, <1>5 DEF UsersHaveObjects, Down
<1>8. Balanced'
  <2>1. \A q \in Objects : q # o => Part(r, q) = Part(lnk[l], q)
    <3>1. \A q \in Objects : q # o => Part(r, q) = 0 /\ Part(lnk[l], q) = 0
      BY PoolAssumption DEF Part, Down
    <3> QED
      BY <3>1
  <2>2. coc[o].state \notin Gone
    BY DEF Gone, Live
  <2> QED
    BY <2>1, <2>2, LinkBalance
<1>9. NoPoolLeft'
  BY <1>1, <1>2 DEF NoPoolLeft, Gone, Live
<1> QED
  BY <1>4, <1>6, <1>7, <1>8, <1>9 DEF CocInv

\* Outside the handler of an accepted channel nobody but the channels and the
\* writers has blocks.
LEMMA NoAccept ==
  ASSUME NEW h, h.pc # "accept", NEW q
  PROVE  AcceptTakes(h, q) = 0
BY DEF AcceptTakes

LEMMA AcceptEventStep ==
  ASSUME CocInv, NEW l \in Links, NEW o \in Objects, AcceptEvent(l, o)
  PROVE  CocInv'
<1>1. /\ ShapeOK /\ MakersHaveObjects /\ UsersHaveObjects /\ HandlerOK /\ ChannelsOK
      /\ coc[o] \in CocRecord
  BY DEF CocInv, ShapeOK
<1> DEFINE c == [state |-> coc[o].state, free |-> coc[o].free - 1, chan |-> coc[o].chan]
           r == [state |-> "asked", obj |-> o, n |-> 0]
           h == [pc |-> "accept", link |-> l, obj |-> o]
           s == IF \E k \in Links : lnk[k].obj = o THEN seen.shared \cup {o} ELSE seen.shared
<1>2. /\ host.pc = "idle" /\ lnk[l] = Down /\ coc[o].state = "served" /\ coc[o].free > 0
      /\ UNCHANGED <<maker, held>> /\ host' = h
  BY DEF AcceptEvent, HostMayRun
<1>3. coc' = [coc EXCEPT ![o] = c] /\ c \in CocRecord
  <2>1. c = [coc[o] EXCEPT !.free = coc[o].free - 1]
    BY <1>1, FreeSet
  <2>2. coc' = [coc EXCEPT ![o] = [coc[o] EXCEPT !.free = coc[o].free - 1]]
    BY <1>1 DEF AcceptEvent
  <2>3. c \in CocRecord
    BY <1>1, <1>2 DEF CocRecord
  <2> QED
    BY <2>1, <2>2, <2>3
<1>4. lnk' = [lnk EXCEPT ![l] = r] /\ r \in Link
  BY DEF AcceptEvent, Link
<1>5. /\ seen' \in Seen /\ seen'.shared = s /\ seen'.refused = seen.refused
  <2>1. s \in SUBSET Objects /\ seen \in Seen
    BY <1>1 DEF ShapeOK, Seen
  <2>2. seen' = [seen EXCEPT !.shared = s]
    BY DEF AcceptEvent
  <2> HIDE DEF s
  <2> QED
    BY <2>1, <2>2 DEF Seen
<1>6. host' \in Host
  BY <1>2 DEF Host
<1>7. c.state = coc[o].state /\ c.state \in Live /\ c.chan = coc[o].chan /\ c.free = coc[o].free - 1
      /\ r.state # "down" /\ r.obj = o /\ r.state # "open"
  BY <1>2 DEF Live
<1>8. \A q \in Objects : AcceptTakes(host', q) = (IF q = o THEN 1 ELSE 0) /\ AcceptTakes(host, q) = 0
  BY <1>2 DEF AcceptTakes
<1>9. Part(r, o) = 0 /\ Part(lnk[l], o) = 0
  BY <1>2, PoolAssumption DEF Part, Down
<1>10. coc'[o] = c /\ \A q \in Objects : q # o => coc'[q] = coc[q]
  BY <1>1, <1>3, ObjectIs
<1>11. lnk'[l] = r /\ \A k \in Links : k # l => lnk'[k] = lnk[k]
  BY <1>1, <1>4, LinkIs
<1>12. HandlerOK'
  BY <1>2, <1>11 DEF HandlerOK
<1>13. lnk[l].obj = NoObject /\ NoObject \notin Objects /\ NoLink \notin Links
  BY <1>2, PoolAssumption DEF Down
<1>14. coc[o].free \in Nat
  BY <1>1 DEF CocRecord
<1> HIDE DEF c, r
<1>15. ChannelsOK'
  <2>1. \A q \in Objects : coc'[q].chan = coc[q].chan /\ coc'[q].state = coc[q].state
    BY <1>7, <1>10
  <2>2. \A q \in Objects : q \notin seen'.shared =>
          q \notin seen.shared /\ (q = o => \A k \in Links : lnk[k].obj # q)
    BY <1>5
  <2>3. ASSUME NEW q \in Objects
        PROVE  /\ coc'[q].chan # NoLink => coc'[q].state \in Live
               /\ q \in seen'.shared => coc'[q].state \in {"served", "deleted"}
               /\ q \in seen'.refused =>
                    coc'[q].state \in {"client", "deleted"} /\ \A k \in Links : lnk'[k].obj # q
    BY <1>1, <1>2, <1>5, <1>7, <1>11, <2>1 DEF ChannelsOK
  <2>4. ASSUME NEW q \in Objects \ seen'.shared, NEW k \in Links, lnk'[k].obj = q
        PROVE  /\ lnk'[k].state = "open" => coc'[q].chan = k
               /\ \A j \in Links : lnk'[j].obj = q => j = k
    BY <1>1, <1>7, <1>11, <1>13, <2>1, <2>2, <2>4 DEF ChannelsOK
  <2>5. ASSUME NEW q \in Objects \ (seen'.shared \cup seen'.refused), NEW k \in Links, coc'[q].chan = k
        PROVE  lnk'[k].state = "open" /\ lnk'[k].obj = q
    BY <1>1, <1>2, <1>5, <1>7, <1>11, <1>13, <2>1, <2>2, <2>5 DEF ChannelsOK
  <2> QED
    BY <2>3, <2>4, <2>5 DEF ChannelsOK
<1>16. c.free + Part(r, o) + AcceptTakes(host', o) = coc[o].free + Part(lnk[l], o) + AcceptTakes(host, o)
  BY <1>7, <1>8, <1>9, <1>14
<1>17. LinkMoves(l, r, o, c)
  BY <1>3, <1>4 DEF LinkMoves
<1>18. \A q \in Objects : q # o => AcceptTakes(host', q) = AcceptTakes(host, q)
  BY <1>8
<1> QED
  BY <1>2, <1>3, <1>4, <1>5, <1>6, <1>7, <1>12, <1>15, <1>16, <1>17, <1>18, LinkStep

\* A step after which the objects name the channels that they named.
LEMMA SameChannels ==
  ASSUME CocInv, NEW l \in Links, NEW r \in Link, NEW o \in Objects, NEW c \in CocRecord,
         LinkMoves(l, r, o, c), c.state = coc[o].state, c.chan = coc[o].chan,
         r.state = lnk[l].state, r.obj = lnk[l].obj, UNCHANGED seen
  PROVE  ChannelsOK'
<1>1. /\ ShapeOK /\ ChannelsOK
      /\ lnk' = [lnk EXCEPT ![l] = r] /\ coc' = [coc EXCEPT ![o] = c]
  BY DEF CocInv, LinkMoves
<1>2. coc'[o] = c /\ \A q \in Objects : q # o => coc'[q] = coc[q]
  BY <1>1, ObjectIs
<1>3. lnk'[l] = r /\ \A k \in Links : k # l => lnk'[k] = lnk[k]
  BY <1>1, LinkIs
<1>4. /\ \A q \in Objects : coc'[q].chan = coc[q].chan /\ coc'[q].state = coc[q].state
      /\ \A k \in Links : lnk'[k].state = lnk[k].state /\ lnk'[k].obj = lnk[k].obj
  BY <1>2, <1>3
<1> QED
  BY <1>1, <1>4 DEF ChannelsOK

LEMMA AcceptedStep ==
  ASSUME CocInv, Accepted
  PROVE  CocInv'
<1> DEFINE l == host.link
           o == host.obj
           c == coc[o]
           r == [state |-> "asked", obj |-> o, n |-> 1]
<1>1. /\ ShapeOK /\ UsersHaveObjects /\ host.pc = "accept" /\ host' = HostIdle
      /\ UNCHANGED <<maker, coc, held, seen>> /\ seen \in Seen
      /\ l \in Links /\ o \in Objects /\ lnk[l] = [state |-> "asked", obj |-> o, n |-> 0]
  BY DEF CocInv, ShapeOK, Accepted, HandlerOK
<1>2. c \in CocRecord /\ coc' = [coc EXCEPT ![o] = c] /\ c.free \in Nat
  BY <1>1 DEF ShapeOK, CocRecord
<1>3. lnk' = [lnk EXCEPT ![l] = r] /\ r \in Link
  <2>1. [lnk[l] EXCEPT !.n = 1] = r
    BY <1>1
  <2>2. lnk' = [lnk EXCEPT ![l] = [lnk[l] EXCEPT !.n = 1]]
    BY DEF Accepted
  <2>3. r \in Link
    BY <1>1 DEF Link
  <2> QED
    BY <2>1, <2>2, <2>3
<1>4. LinkMoves(l, r, o, c)
  BY <1>2, <1>3 DEF LinkMoves
<1>5. c.state \in Live
  BY <1>1 DEF UsersHaveObjects
<1>6. host'.pc = "idle" /\ host' \in Host
  BY <1>1 DEF HostIdle, Host
<1>7. HandlerOK'
  BY <1>6 DEF HandlerOK
<1>8. r.state = lnk[l].state /\ r.obj = lnk[l].obj /\ r.obj = o /\ r.state # "down"
  BY <1>1
<1>9. Part(r, o) = 1 /\ Part(lnk[l], o) = 0
  BY <1>1 DEF Part
<1>10. \A q \in Objects : AcceptTakes(host', q) = 0 /\ AcceptTakes(host, q) = IF q = o THEN 1 ELSE 0
  BY <1>1, <1>6 DEF AcceptTakes
<1> HIDE DEF c, r, l, o
<1>11. ChannelsOK'
  BY <1>1, <1>2, <1>3, <1>4, <1>8, SameChannels DEF c
<1>12. c.free + Part(r, o) + AcceptTakes(host', o) = c.free + Part(lnk[l], o) + AcceptTakes(host, o)
  BY <1>1, <1>2, <1>9, <1>10
<1>13. \A q \in Objects : q # o => AcceptTakes(host', q) = AcceptTakes(host, q)
  BY <1>10
<1>14. c = coc[o] /\ seen' \in Seen
  BY <1>1 DEF c
<1> QED
  BY <1>1, <1>2, <1>3, <1>4, <1>5, <1>6, <1>7, <1>8, <1>11, <1>12, <1>13, <1>14, LinkStep

LEMMA AcceptFailsStep ==
  ASSUME CocInv, AcceptFails
  PROVE  CocInv'
<1> DEFINE l == host.link
           o == host.obj
           c == [state |-> coc[o].state, free |-> coc[o].free + 1, chan |-> coc[o].chan]
           r == Down
<1>1. /\ ShapeOK /\ UsersHaveObjects /\ ChannelsOK /\ host.pc = "accept" /\ host' = HostIdle
      /\ UNCHANGED <<maker, held, seen>> /\ seen \in Seen
      /\ l \in Links /\ o \in Objects /\ lnk[l] = [state |-> "asked", obj |-> o, n |-> 0]
      /\ coc[o] \in CocRecord
  BY DEF CocInv, ShapeOK, AcceptFails, HandlerOK
<1>2. c \in CocRecord /\ coc' = [coc EXCEPT ![o] = c] /\ coc[o].free \in Nat
  <2>1. c = [coc[o] EXCEPT !.free = coc[o].free + 1]
    BY <1>1, FreeSet
  <2>2. coc' = [coc EXCEPT ![o] = [coc[o] EXCEPT !.free = coc[o].free + 1]]
    BY <1>1 DEF AcceptFails
  <2>3. c \in CocRecord /\ coc[o].free \in Nat
    BY <1>1 DEF CocRecord
  <2> QED
    BY <2>1, <2>2, <2>3
<1>3. lnk' = [lnk EXCEPT ![l] = r] /\ r \in Link
  BY DEF AcceptFails, Link, Down
<1>4. LinkMoves(l, r, o, c)
  BY <1>2, <1>3 DEF LinkMoves
<1>5. c.state \in Live /\ c.state = coc[o].state /\ c.chan = coc[o].chan /\ c.free = coc[o].free + 1
  BY <1>1 DEF UsersHaveObjects
<1>6. host'.pc = "idle" /\ host' \in Host
  BY <1>1 DEF HostIdle, Host
<1>7. HandlerOK'
  BY <1>6 DEF HandlerOK
<1>8. lnk[l].state = "asked" /\ lnk[l].obj = o /\ r = Down /\ r.obj = NoObject /\ r.state = "down"
  BY <1>1 DEF Down
<1>9. Part(r, o) = 0 /\ Part(lnk[l], o) = 0
  BY <1>1, PoolAssumption DEF Part, Down
<1>10. \A q \in Objects : AcceptTakes(host', q) = 0 /\ AcceptTakes(host, q) = IF q = o THEN 1 ELSE 0
  BY <1>1, <1>6 DEF AcceptTakes
<1>11. coc'[o] = c /\ \A q \in Objects : q # o => coc'[q] = coc[q]
  BY <1>1, <1>2, ObjectIs
<1>12. lnk'[l] = r /\ \A k \in Links : k # l => lnk'[k] = lnk[k]
  BY <1>1, <1>3, LinkIs
<1> HIDE DEF c, r, l, o
<1>13. ChannelsOK'
  <2>1. \A q \in Objects : coc'[q].chan = coc[q].chan /\ coc'[q].state = coc[q].state
    BY <1>5, <1>11
  <2>2. \A k \in Links : \/ lnk'[k] = lnk[k] /\ k # l
                         \/ k = l /\ lnk'[k].obj = NoObject /\ lnk[k].state = "asked"
    BY <1>8, <1>12
  <2> QED
    BY <1>1, <2>1, <2>2, PoolAssumption DEF ChannelsOK
<1>14. c.free + Part(r, o) + AcceptTakes(host', o) = coc[o].free + Part(lnk[l], o) + AcceptTakes(host, o)
  BY <1>1, <1>2, <1>5, <1>9, <1>10
<1>15. \A q \in Objects : q # o => AcceptTakes(host', q) = AcceptTakes(host, q)
  BY <1>10
<1>16. seen' \in Seen
  BY <1>1
<1> QED
  BY <1>1, <1>2, <1>3, <1>4, <1>5, <1>6, <1>7, <1>8, <1>13, <1>14, <1>15, <1>16, LinkStep

\* The records that the steps of a channel make.
LEMMA StateSet ==
  ASSUME NEW r \in Link, NEW s \in {"down", "asked", "open"}
  PROVE  [r EXCEPT !.state = s] = [state |-> s, obj |-> r.obj, n |-> r.n] /\ [r EXCEPT !.state = s] \in Link
BY DEF Link

LEMMA CountSet ==
  ASSUME NEW r \in Link, NEW n \in 0..2
  PROVE  [r EXCEPT !.n = n] = [state |-> r.state, obj |-> r.obj, n |-> n] /\ [r EXCEPT !.n = n] \in Link
BY DEF Link

\* The handlers of an idle host.
LEMMA IdleHandler ==
  ASSUME CocInv, host.pc = "idle", UNCHANGED host
  PROVE  /\ HandlerOK' /\ host' \in Host
         /\ \A q \in Objects : AcceptTakes(host', q) = 0 /\ AcceptTakes(host, q) = 0
BY DEF CocInv, ShapeOK, HandlerOK, AcceptTakes

LEMMA CocConnectedStep ==
  ASSUME CocInv, NEW l \in Links, CocConnected(l)
  PROVE  CocInv'
<1> DEFINE o == lnk[l].obj
           c == [state |-> coc[o].state, free |-> coc[o].free, chan |-> l]
           r == [state |-> "open", obj |-> o, n |-> lnk[l].n]
<1>1. /\ ShapeOK /\ UsersHaveObjects /\ ChannelsOK /\ host.pc = "idle" /\ lnk[l].state = "asked"
      /\ UNCHANGED <<maker, held, host, seen>> /\ seen' \in Seen
  BY DEF CocInv, ShapeOK, CocConnected, HostMayRun
<1>2. o \in Objects /\ coc[o].state \in Live /\ coc[o] \in CocRecord /\ lnk[l] \in Link
  BY <1>1 DEF UsersHaveObjects, ShapeOK
<1>3. c \in CocRecord /\ coc' = [coc EXCEPT ![o] = c] /\ coc[o].free \in Nat
  <2>1. c = [coc[o] EXCEPT !.chan = l]
    BY <1>2, ChanSet
  <2>2. coc' = [coc EXCEPT ![o] = [coc[o] EXCEPT !.chan = l]]
    BY <1>1, <1>2 DEF CocConnected
  <2>3. c \in CocRecord /\ coc[o].free \in Nat
    BY <1>2 DEF CocRecord
  <2> QED
    BY <2>1, <2>2, <2>3
<1>4. lnk' = [lnk EXCEPT ![l] = r] /\ r \in Link /\ lnk[l].n \in 0..2
  <2>1. lnk[l].n \in 0..2
    BY <1>2 DEF Link
  <2>2. r = [lnk[l] EXCEPT !.state = "open"] /\ r \in Link
    BY <1>2, <2>1, StateSet
  <2>3. lnk' = [lnk EXCEPT ![l] = [lnk[l] EXCEPT !.state = "open"]]
    BY <1>1, <1>2 DEF CocConnected
  <2> QED
    BY <2>1, <2>2, <2>3
<1>5. LinkMoves(l, r, o, c)
  BY <1>3, <1>4 DEF LinkMoves
<1>6. /\ HandlerOK' /\ host' \in Host
      /\ \A q \in Objects : AcceptTakes(host', q) = 0 /\ AcceptTakes(host, q) = 0
  BY <1>1, IdleHandler
<1>7. coc'[o] = c /\ \A q \in Objects : q # o => coc'[q] = coc[q]
  BY <1>1, <1>2, <1>3, ObjectIs
<1>8. lnk'[l] = r /\ \A k \in Links : k # l => lnk'[k] = lnk[k]
  BY <1>1, <1>4, LinkIs
<1>9. /\ c.state = coc[o].state /\ c.chan = l /\ c.free = coc[o].free
      /\ r.state = "open" /\ r.obj = o /\ r.n = lnk[l].n /\ lnk[l].obj = o
  OBVIOUS
<1>10. Part(r, o) = Part(lnk[l], o)
  BY DEF Part
<1> HIDE DEF c, r, o
<1>11. ChannelsOK'
  <2>1. \A q \in Objects : coc'[q].state = coc[q].state /\ (q # o => coc'[q].chan = coc[q].chan)
    BY <1>7, <1>9
  <2>2. \A k \in Links : lnk'[k].obj = lnk[k].obj /\ (k # l => lnk'[k].state = lnk[k].state)
    BY <1>8, <1>9
  <2>3. ASSUME NEW q \in Objects
        PROVE  /\ coc'[q].chan # NoLink => coc'[q].state \in Live
               /\ q \in seen'.shared => coc'[q].state \in {"served", "deleted"}
               /\ q \in seen'.refused =>
                    coc'[q].state \in {"client", "deleted"} /\ \A k \in Links : lnk'[k].obj # q
    BY <1>1, <1>2, <2>1, <2>2 DEF ChannelsOK
  <2>4. ASSUME NEW q \in Objects \ seen'.shared, NEW k \in Links, lnk'[k].obj = q
        PROVE  /\ lnk'[k].state = "open" => coc'[q].chan = k
               /\ \A j \in Links : lnk'[j].obj = q => j = k
    BY <1>1, <1>7, <1>9, <2>1, <2>2, <2>4 DEF ChannelsOK
  <2>5. ASSUME NEW q \in Objects \ (seen'.shared \cup seen'.refused), NEW k \in Links, coc'[q].chan = k
        PROVE  lnk'[k].state = "open" /\ lnk'[k].obj = q
    BY <1>1, <1>7, <1>8, <1>9, <2>1, <2>2, <2>5 DEF ChannelsOK
  <2> QED
    BY <2>3, <2>4, <2>5 DEF ChannelsOK
<1>12. c.free + Part(r, o) + AcceptTakes(host', o) = coc[o].free + Part(lnk[l], o) + AcceptTakes(host, o)
  BY <1>2, <1>6, <1>9, <1>10
<1>13. \A q \in Objects : q # o => AcceptTakes(host', q) = AcceptTakes(host, q)
  BY <1>6
<1>14. c.state \in Live /\ r.state # "down"
  BY <1>2, <1>9
<1> QED
  BY <1>1, <1>2, <1>3, <1>4, <1>5, <1>6, <1>9, <1>11, <1>12, <1>13, <1>14, LinkStep

\* A channel that ends gives back what it has: c is the object without it.
LEMMA EndBalance ==
  ASSUME ShapeOK, NEW l \in Links, NEW o \in Objects, lnk[l].obj = o, NEW c, c.free = coc[o].free + lnk[l].n
  PROVE  /\ c.free + Part(Down, o) = coc[o].free + Part(lnk[l], o)
         /\ c.free \in Nat
<1>1. coc[o] \in CocRecord /\ lnk[l] \in Link
  BY DEF ShapeOK
<1>2. coc[o].free \in Nat /\ lnk[l].n \in 0..2
  BY <1>1 DEF CocRecord, Link
<1>3. Part(Down, o) = 0 /\ Part(lnk[l], o) = lnk[l].n
  BY PoolAssumption DEF Part, Down
<1> QED
  BY <1>2, <1>3

LEMMA CocRefusedStep ==
  ASSUME CocInv, NEW l \in Links, CocRefused(l)
  PROVE  CocInv'
<1> DEFINE o == lnk[l].obj
           c == [state |-> coc[o].state, free |-> coc[o].free + lnk[l].n, chan |-> l]
           r == Down
<1>1. /\ ShapeOK /\ UsersHaveObjects /\ ChannelsOK /\ host.pc = "idle" /\ lnk[l].state = "asked"
      /\ coc[o].state = "client"
      /\ UNCHANGED <<maker, held, host>> /\ seen \in Seen
  BY DEF CocInv, ShapeOK, CocRefused, HostMayRun
<1>2. o \in Objects /\ coc[o].state \in Live /\ coc[o] \in CocRecord
  BY <1>1 DEF UsersHaveObjects, ShapeOK
<1>3. c \in CocRecord /\ coc' = [coc EXCEPT ![o] = c]
  <2>1. c = [coc[o] EXCEPT !.chan = l, !.free = coc[o].free + lnk[l].n]
    <3>1. l \in Links \cup {NoLink}
      OBVIOUS
    <3>2. \A f : ChanFree(coc[o], l, f) = [state |-> coc[o].state, free |-> f, chan |-> l]
      BY <1>2, <3>1, ChanFreeSet
    <3> QED
      BY <3>2 DEF ChanFree
  <2>2. coc' = [coc EXCEPT ![o] = [coc[o] EXCEPT !.chan = l, !.free = coc[o].free + lnk[l].n]]
    BY <1>1, <1>2 DEF CocRefused
  <2>3. c.free \in Nat
    BY <1>1, <1>2, EndBalance
  <2>4. c \in CocRecord
    BY <1>2, <2>3 DEF CocRecord
  <2> QED
    BY <2>1, <2>2, <2>4
<1>4. lnk' = [lnk EXCEPT ![l] = r] /\ r \in Link
  BY DEF CocRefused, Link, Down
<1>5. LinkMoves(l, r, o, c)
  BY <1>3, <1>4 DEF LinkMoves
<1>6. /\ HandlerOK' /\ host' \in Host
      /\ \A q \in Objects : AcceptTakes(host', q) = 0 /\ AcceptTakes(host, q) = 0
  BY <1>1, IdleHandler
<1>7. coc'[o] = c /\ \A q \in Objects : q # o => coc'[q] = coc[q]
  BY <1>1, <1>2, <1>3, ObjectIs
<1>8. lnk'[l] = r /\ \A k \in Links : k # l => lnk'[k] = lnk[k]
  BY <1>1, <1>4, LinkIs
<1>9. /\ c.state = coc[o].state /\ c.chan = l /\ c.free = coc[o].free + lnk[l].n
      /\ r = Down /\ r.obj = NoObject /\ r.state = "down" /\ lnk[l].obj = o
  BY DEF Down
<1>10. seen' \in Seen /\ seen'.shared = seen.shared /\ seen'.refused = seen.refused \cup {o}
  BY <1>1, <1>2 DEF CocRefused, Seen
<1>11. c.free + Part(Down, o) = coc[o].free + Part(lnk[l], o)
  BY <1>1, <1>2, <1>9, EndBalance
<1> HIDE DEF c, r, o
<1>12. ChannelsOK'
  <2>1. \A q \in Objects : coc'[q].state = coc[q].state /\ (q # o => coc'[q].chan = coc[q].chan)
    BY <1>7, <1>9
  <2>2. \A k \in Links : lnk'[k] = lnk[k] \/ (k = l /\ lnk'[k].obj = NoObject)
    BY <1>8, <1>9
  <2>3. o \notin seen.shared
    BY <1>1, <1>2 DEF ChannelsOK
  <2>4. \A k \in Links : lnk'[k].obj # o
    BY <1>1, <1>2, <1>8, <1>9, <2>3, PoolAssumption DEF ChannelsOK
  <2>5. ASSUME NEW q \in Objects
        PROVE  /\ coc'[q].chan # NoLink => coc'[q].state \in Live
               /\ q \in seen'.shared => coc'[q].state \in {"served", "deleted"}
               /\ q \in seen'.refused =>
                    coc'[q].state \in {"client", "deleted"} /\ \A k \in Links : lnk'[k].obj # q
    BY <1>1, <1>2, <1>10, <2>1, <2>2, <2>4, PoolAssumption DEF ChannelsOK
  <2>6. ASSUME NEW q \in Objects \ seen'.shared, NEW k \in Links, lnk'[k].obj = q
        PROVE  /\ lnk'[k].state = "open" => coc'[q].chan = k
               /\ \A j \in Links : lnk'[j].obj = q => j = k
    BY <1>1, <1>10, <2>1, <2>2, <2>4, <2>6, PoolAssumption DEF ChannelsOK
  <2>7. ASSUME NEW q \in Objects \ (seen'.shared \cup seen'.refused), NEW k \in Links, coc'[q].chan = k
        PROVE  lnk'[k].state = "open" /\ lnk'[k].obj = q
    BY <1>1, <1>8, <1>9, <1>10, <2>1, <2>7 DEF ChannelsOK
  <2> QED
    BY <2>5, <2>6, <2>7 DEF ChannelsOK
<1>13. c.free + Part(r, o) + AcceptTakes(host', o) = coc[o].free + Part(lnk[l], o) + AcceptTakes(host, o)
  BY <1>2, <1>6, <1>9, <1>11
<1>14. \A q \in Objects : q # o => AcceptTakes(host', q) = AcceptTakes(host, q)
  BY <1>6
<1>15. c.state \in Live
  BY <1>2, <1>9
<1> QED
  BY <1>1, <1>2, <1>3, <1>4, <1>5, <1>6, <1>9, <1>10, <1>12, <1>13, <1>14, <1>15, LinkStep

LEMMA CocDisconnectedStep ==
  ASSUME CocInv, NEW l \in Links, CocDisconnected(l)
  PROVE  CocInv'
<1> DEFINE o == lnk[l].obj
           c == [state |-> coc[o].state, free |-> coc[o].free + lnk[l].n, chan |-> NoLink]
           r == Down
<1>1. /\ ShapeOK /\ UsersHaveObjects /\ ChannelsOK /\ host.pc = "idle" /\ lnk[l].state # "down"
      /\ UNCHANGED <<maker, held, host, seen>> /\ seen' \in Seen
  BY DEF CocInv, ShapeOK, CocDisconnected, HostMayRun
<1>2. o \in Objects /\ coc[o].state \in Live /\ coc[o] \in CocRecord
  BY <1>1 DEF UsersHaveObjects, ShapeOK
<1>3. c \in CocRecord /\ coc' = [coc EXCEPT ![o] = c]
  <2>1. c = [coc[o] EXCEPT !.chan = NoLink, !.free = coc[o].free + lnk[l].n]
    <3>1. NoLink \in Links \cup {NoLink}
      OBVIOUS
    <3>2. \A f : ChanFree(coc[o], NoLink, f) = [state |-> coc[o].state, free |-> f, chan |-> NoLink]
      BY <1>2, <3>1, ChanFreeSet
    <3> QED
      BY <3>2 DEF ChanFree
  <2>2. coc' = [coc EXCEPT ![o] = [coc[o] EXCEPT !.chan = NoLink, !.free = coc[o].free + lnk[l].n]]
    BY <1>1, <1>2 DEF CocDisconnected
  <2>3. c.free \in Nat
    BY <1>1, <1>2, EndBalance
  <2>4. c \in CocRecord
    BY <1>2, <2>3 DEF CocRecord
  <2> QED
    BY <2>1, <2>2, <2>4
<1>4. lnk' = [lnk EXCEPT ![l] = r] /\ r \in Link
  BY DEF CocDisconnected, Link, Down
<1>5. LinkMoves(l, r, o, c)
  BY <1>3, <1>4 DEF LinkMoves
<1>6. /\ HandlerOK' /\ host' \in Host
      /\ \A q \in Objects : AcceptTakes(host', q) = 0 /\ AcceptTakes(host, q) = 0
  BY <1>1, IdleHandler
<1>7. coc'[o] = c /\ \A q \in Objects : q # o => coc'[q] = coc[q]
  BY <1>1, <1>2, <1>3, ObjectIs
<1>8. lnk'[l] = r /\ \A k \in Links : k # l => lnk'[k] = lnk[k]
  BY <1>1, <1>4, LinkIs
<1>9. /\ c.state = coc[o].state /\ c.chan = NoLink /\ c.free = coc[o].free + lnk[l].n
      /\ r = Down /\ r.obj = NoObject /\ r.state = "down" /\ lnk[l].obj = o
  BY DEF Down
<1>11. c.free + Part(Down, o) = coc[o].free + Part(lnk[l], o)
  BY <1>1, <1>2, <1>9, EndBalance
<1> HIDE DEF c, r, o
<1>12. ChannelsOK'
  <2>1. \A q \in Objects : coc'[q].state = coc[q].state /\ (q # o => coc'[q].chan = coc[q].chan)
    BY <1>7, <1>9
  <2>2. \A k \in Links : (lnk'[k] = lnk[k] /\ k # l) \/ (k = l /\ lnk'[k].obj = NoObject)
    BY <1>8, <1>9
  <2>3. coc'[o].chan = NoLink
    BY <1>7, <1>9
  <2>4. o \notin seen.shared => \A k \in Links : lnk'[k].obj # o
    BY <1>1, <1>2, <1>8, <1>9, PoolAssumption DEF ChannelsOK
  <2>5. ASSUME NEW q \in Objects
        PROVE  /\ coc'[q].chan # NoLink => coc'[q].state \in Live
               /\ q \in seen'.shared => coc'[q].state \in {"served", "deleted"}
               /\ q \in seen'.refused =>
                    coc'[q].state \in {"client", "deleted"} /\ \A k \in Links : lnk'[k].obj # q
    BY <1>1, <1>2, <2>1, <2>2, <2>3, PoolAssumption DEF ChannelsOK
  <2>6. ASSUME NEW q \in Objects \ seen'.shared, NEW k \in Links, lnk'[k].obj = q
        PROVE  /\ lnk'[k].state = "open" => coc'[q].chan = k
               /\ \A j \in Links : lnk'[j].obj = q => j = k
    BY <1>1, <2>1, <2>2, <2>4, <2>6, PoolAssumption DEF ChannelsOK
  <2>7. ASSUME NEW q \in Objects \ (seen'.shared \cup seen'.refused), NEW k \in Links, coc'[q].chan = k
        PROVE  lnk'[k].state = "open" /\ lnk'[k].obj = q
    <3>1. q # o /\ coc[q].chan = k
      BY <2>1, <2>3, <2>7, PoolAssumption
    <3>2. lnk[k].state = "open" /\ lnk[k].obj = q
      BY <1>1, <3>1 DEF ChannelsOK
    <3> QED
      BY <1>8, <1>9, <3>1, <3>2
  <2> QED
    BY <2>5, <2>6, <2>7 DEF ChannelsOK
<1>13. c.free + Part(r, o) + AcceptTakes(host', o) = coc[o].free + Part(lnk[l], o) + AcceptTakes(host, o)
  BY <1>2, <1>6, <1>9, <1>11
<1>14. \A q \in Objects : q # o => AcceptTakes(host', q) = AcceptTakes(host, q)
  BY <1>6
<1>15. c.state \in Live
  BY <1>2, <1>9
<1> QED
  BY <1>1, <1>2, <1>3, <1>4, <1>5, <1>6, <1>9, <1>12, <1>13, <1>14, <1>15, LinkStep

LEMMA ExtendStep ==
  ASSUME CocInv, NEW l \in Links, Extend(l)
  PROVE  CocInv'
<1> DEFINE o == lnk[l].obj
           c == [state |-> coc[o].state, free |-> coc[o].free - 1, chan |-> coc[o].chan]
           r == [state |-> "open", obj |-> o, n |-> 2]
<1>1. /\ ShapeOK /\ UsersHaveObjects /\ host.pc = "idle" /\ lnk[l].state = "open" /\ lnk[l].n = 1
      /\ coc[o].free > 0
      /\ UNCHANGED <<maker, held, host, seen>> /\ seen' \in Seen
  BY DEF CocInv, ShapeOK, Extend, HostMayRun
<1>2. o \in Objects /\ coc[o].state \in Live /\ coc[o] \in CocRecord /\ lnk[l] \in Link
  BY <1>1 DEF UsersHaveObjects, ShapeOK
<1>3. c \in CocRecord /\ coc' = [coc EXCEPT ![o] = c] /\ coc[o].free \in Nat
  <2>1. c = [coc[o] EXCEPT !.free = coc[o].free - 1]
    BY <1>2, FreeSet
  <2>2. coc' = [coc EXCEPT ![o] = [coc[o] EXCEPT !.free = coc[o].free - 1]]
    BY <1>1, <1>2 DEF Extend
  <2>3. c \in CocRecord /\ coc[o].free \in Nat
    BY <1>1, <1>2 DEF CocRecord
  <2> QED
    BY <2>1, <2>2, <2>3
<1>4. lnk' = [lnk EXCEPT ![l] = r] /\ r \in Link
  <2>1. r = [lnk[l] EXCEPT !.n = 2] /\ r \in Link
    <3>1. 2 \in 0..2
      OBVIOUS
    <3>2. /\ [lnk[l] EXCEPT !.n = 2] = [state |-> lnk[l].state, obj |-> lnk[l].obj, n |-> 2]
          /\ [lnk[l] EXCEPT !.n = 2] \in Link
      BY <1>1, <1>2, <3>1, CountSet
    <3> QED
      BY <1>1, <3>2
  <2>2. lnk' = [lnk EXCEPT ![l] = [lnk[l] EXCEPT !.n = 2]]
    BY <1>1, <1>2 DEF Extend
  <2> QED
    BY <2>1, <2>2
<1>5. LinkMoves(l, r, o, c)
  BY <1>3, <1>4 DEF LinkMoves
<1>6. /\ HandlerOK' /\ host' \in Host
      /\ \A q \in Objects : AcceptTakes(host', q) = 0 /\ AcceptTakes(host, q) = 0
  BY <1>1, IdleHandler
<1>7. /\ c.state = coc[o].state /\ c.chan = coc[o].chan /\ c.free = coc[o].free - 1
      /\ r.state = lnk[l].state /\ r.state # "down" /\ r.obj = o /\ lnk[l].obj = o
  BY <1>1
<1>8. Part(r, o) = 2 /\ Part(lnk[l], o) = 1
  BY <1>1 DEF Part
<1> HIDE DEF c, r, o
<1>9. ChannelsOK'
  BY <1>1, <1>2, <1>3, <1>4, <1>5, <1>7, SameChannels
<1>10. c.free + Part(r, o) + AcceptTakes(host', o) = coc[o].free + Part(lnk[l], o) + AcceptTakes(host, o)
  BY <1>2, <1>3, <1>6, <1>7, <1>8
<1>11. \A q \in Objects : q # o => AcceptTakes(host', q) = AcceptTakes(host, q)
  BY <1>6
<1>12. c.state \in Live
  BY <1>2, <1>7
<1> QED
  BY <1>1, <1>2, <1>3, <1>4, <1>5, <1>6, <1>7, <1>9, <1>10, <1>11, <1>12, LinkStep

LEMMA DataReceivedStep ==
  ASSUME CocInv, NEW l \in Links, DataReceived(l)
  PROVE  CocInv'
<1> DEFINE o == lnk[l].obj
           c == [state |-> coc[o].state, free |-> coc[o].free + lnk[l].n, chan |-> coc[o].chan]
           r == [state |-> "open", obj |-> o, n |-> 0]
<1>1. /\ ShapeOK /\ UsersHaveObjects /\ host.pc = "idle" /\ lnk[l].state = "open"
      /\ host' = [pc |-> "receive", link |-> l, obj |-> o]
      /\ UNCHANGED <<maker, held, seen>> /\ seen' \in Seen
  BY DEF CocInv, ShapeOK, DataReceived, HostMayRun
<1>2. o \in Objects /\ coc[o].state \in Live /\ coc[o] \in CocRecord /\ lnk[l] \in Link
  BY <1>1 DEF UsersHaveObjects, ShapeOK
<1>3. c \in CocRecord /\ coc' = [coc EXCEPT ![o] = c] /\ coc[o].free \in Nat /\ lnk[l].n \in 0..2
  <2>1. c = [coc[o] EXCEPT !.free = coc[o].free + lnk[l].n]
    BY <1>2, FreeSet
  <2>2. coc' = [coc EXCEPT ![o] = [coc[o] EXCEPT !.free = coc[o].free + lnk[l].n]]
    BY <1>1, <1>2 DEF DataReceived
  <2>3. coc[o].free \in Nat /\ lnk[l].n \in 0..2
    BY <1>2 DEF CocRecord, Link
  <2>4. c \in CocRecord
    BY <1>2, <2>3 DEF CocRecord
  <2> QED
    BY <2>1, <2>2, <2>3, <2>4
<1>4. lnk' = [lnk EXCEPT ![l] = r] /\ r \in Link
  <2>1. r = [lnk[l] EXCEPT !.n = 0] /\ r \in Link
    <3>1. 0 \in 0..2
      OBVIOUS
    <3>2. /\ [lnk[l] EXCEPT !.n = 0] = [state |-> lnk[l].state, obj |-> lnk[l].obj, n |-> 0]
          /\ [lnk[l] EXCEPT !.n = 0] \in Link
      BY <1>1, <1>2, <3>1, CountSet
    <3> QED
      BY <1>1, <3>2
  <2>2. lnk' = [lnk EXCEPT ![l] = [lnk[l] EXCEPT !.n = 0]]
    BY <1>1, <1>2 DEF DataReceived
  <2> QED
    BY <2>1, <2>2
<1>5. LinkMoves(l, r, o, c)
  BY <1>3, <1>4 DEF LinkMoves
<1>6. host' \in Host /\ \A q \in Objects : AcceptTakes(host', q) = 0 /\ AcceptTakes(host, q) = 0
  BY <1>1, <1>2 DEF Host, AcceptTakes
<1>7. /\ c.state = coc[o].state /\ c.chan = coc[o].chan /\ c.free = coc[o].free + lnk[l].n
      /\ r.state = lnk[l].state /\ r.state # "down" /\ r.obj = o /\ lnk[l].obj = o
  BY <1>1
<1>8. Part(r, o) = 0 /\ Part(lnk[l], o) = lnk[l].n
  BY <1>1 DEF Part
<1>9. lnk'[l] = [state |-> "open", obj |-> o, n |-> 0]
  BY <1>1, <1>4, LinkIs
<1>10. HandlerOK'
  BY <1>1, <1>2, <1>9 DEF HandlerOK
<1> HIDE DEF c, r, o
<1>11. ChannelsOK'
  BY <1>1, <1>2, <1>3, <1>4, <1>5, <1>7, SameChannels
<1>12. c.free + Part(r, o) + AcceptTakes(host', o) = coc[o].free + Part(lnk[l], o) + AcceptTakes(host, o)
  BY <1>2, <1>3, <1>6, <1>7, <1>8
<1>13. \A q \in Objects : q # o => AcceptTakes(host', q) = AcceptTakes(host, q)
  BY <1>6
<1>14. c.state \in Live
  BY <1>2, <1>7
<1> QED
  BY <1>1, <1>2, <1>3, <1>4, <1>5, <1>6, <1>7, <1>10, <1>11, <1>12, <1>13, <1>14, LinkStep

\* The handler of received data finds a buffer: it has freed what the channel had,
\* and the writers alone cannot have all blocks.
LEMMA ReceiverFindsBlock ==
  ASSUME CocInv, host.pc = "receive", host.obj \notin seen.shared
  PROVE  coc[host.obj].free > 0 /\ coc[host.obj].chan = host.link
<1> DEFINE o == host.obj
           l == host.link
<1>1. /\ ShapeOK /\ ChannelsOK /\ UsersHaveObjects /\ Balanced
      /\ l \in Links /\ o \in Objects /\ lnk[l] = [state |-> "open", obj |-> o, n |-> 0]
  BY DEF CocInv, HandlerOK
<1>2. coc[o].chan = l /\ \A k \in Links : lnk[k].obj = o => k = l
  BY <1>1 DEF ChannelsOK
<1>3. coc[o].state \notin Gone
  BY <1>1 DEF UsersHaveObjects, Live, Gone
<1>4. BlocksIn(lnk, o) = {}
  <2>1. DOMAIN lnk = Links
    BY <1>1 DEF ShapeOK
  <2>2. ASSUME NEW b \in BlocksIn(lnk, o) PROVE FALSE
    <3>1. b[1] \in Links /\ b[2] \in 1..2 /\ lnk[b[1]].obj = o /\ b[2] <= lnk[b[1]].n
      BY <2>1, <2>2 DEF BlocksIn
    <3>2. lnk[b[1]].n = 0
      BY <1>1, <1>2, <3>1
    <3> QED
      BY <3>1, <3>2
  <2> QED
    BY <2>2
<1>5. Cardinality(BlocksIn(lnk, o)) = 0
  BY <1>4, FS_EmptySet
<1>6. AcceptTakes(host, o) = 0
  BY NoAccept
<1>7. /\ Cardinality(BlocksIn(held, o)) \in Nat /\ Cardinality(Writers) \in Nat
      /\ Cardinality(BlocksIn(held, o)) <= 2 * Cardinality(Writers)
  BY <1>1, CardinalitiesAre
<1>8. coc[o].free \in Nat /\ Blocks \in Nat /\ Blocks > 2 * Cardinality(Writers)
  BY <1>1, PoolAssumption DEF ShapeOK, CocRecord
<1>9. coc[o].free + 0 + Cardinality(BlocksIn(held, o)) + 0 = Blocks
  BY <1>1, <1>3, <1>5, <1>6 DEF Balanced, Total
<1> HIDE DEF o, l
<1>10. coc[o].free > 0
  BY <1>7, <1>8, <1>9
<1> QED
  BY <1>2, <1>10 DEF o, l

LEMMA NextBufferStep ==
  ASSUME CocInv, NextBuffer
  PROVE  CocInv'
<1> DEFINE l == host.link
           o == host.obj
           c == [state |-> coc[o].state, free |-> coc[o].free - 1, chan |-> coc[o].chan]
           r == [state |-> "open", obj |-> o, n |-> 1]
<1>1. /\ ShapeOK /\ UsersHaveObjects /\ host.pc = "receive"
      /\ UNCHANGED <<maker, held, seen>> /\ seen' \in Seen
      /\ l \in Links /\ o \in Objects /\ lnk[l] = [state |-> "open", obj |-> o, n |-> 0]
      /\ coc[o] \in CocRecord /\ lnk[l] \in Link /\ coc[o].state \in Live
  BY DEF CocInv, ShapeOK, NextBuffer, HandlerOK, UsersHaveObjects
<1>2. CASE ~ (coc[o].free > 0 /\ coc[o].chan = l)
  <2>1. host' = [host EXCEPT !.pc = "aborted"] /\ UNCHANGED <<coc, lnk>>
    BY <1>2 DEF NextBuffer
  <2>2. o \in seen.shared
    BY <1>1, <1>2, ReceiverFindsBlock
  <2>3. host' \in Host /\ host'.pc = "aborted" /\ host'.obj = o
    BY <1>1, <2>1 DEF ShapeOK, Host
  <2>4. HandlerOK'
    BY <1>1, <2>2, <2>3 DEF HandlerOK
  <2>5. \A q \in Objects : AcceptTakes(host', q) = AcceptTakes(host, q)
    BY <1>1, <2>3 DEF AcceptTakes
  <2>6. BlocksIn(lnk', o) = BlocksIn(lnk, o) /\ BlocksIn(held', o) = BlocksIn(held, o)
    BY <1>1, <2>1
  <2>7. Balanced'
    BY <1>1, <2>1, <2>5 DEF CocInv, Balanced, Total
  <2> QED
    BY <1>1, <2>1, <2>3, <2>4, <2>7
       DEF CocInv, ShapeOK, MakersHaveObjects, UsersHaveObjects, ChannelsOK, NoPoolLeft
<1>3. CASE coc[o].free > 0 /\ coc[o].chan = l
  <2>1. c \in CocRecord /\ coc' = [coc EXCEPT ![o] = c] /\ coc[o].free \in Nat
    <3>1. c = [coc[o] EXCEPT !.free = coc[o].free - 1]
      BY <1>1, FreeSet
    <3>2. coc' = [coc EXCEPT ![o] = [coc[o] EXCEPT !.free = coc[o].free - 1]]
      BY <1>1, <1>3 DEF NextBuffer
    <3>3. c \in CocRecord /\ coc[o].free \in Nat
      BY <1>1, <1>3 DEF CocRecord
    <3> QED
      BY <3>1, <3>2, <3>3
  <2>2. lnk' = [lnk EXCEPT ![l] = r] /\ r \in Link
    <3>1. r = [lnk[l] EXCEPT !.n = 1] /\ r \in Link
      <4>1. 1 \in 0..2
        OBVIOUS
      <4>2. /\ [lnk[l] EXCEPT !.n = 1] = [state |-> lnk[l].state, obj |-> lnk[l].obj, n |-> 1]
            /\ [lnk[l] EXCEPT !.n = 1] \in Link
        BY <1>1, <4>1, CountSet
      <4> QED
        BY <1>1, <4>2
    <3>2. lnk' = [lnk EXCEPT ![l] = [lnk[l] EXCEPT !.n = 1]]
      BY <1>1, <1>3 DEF NextBuffer
    <3> QED
      BY <3>1, <3>2
  <2>3. host' = HostIdle
    BY <1>3 DEF NextBuffer
  <2>4. host'.pc = "idle" /\ host' \in Host /\ HandlerOK'
    BY <2>3 DEF HostIdle, Host, HandlerOK
  <2>5. LinkMoves(l, r, o, c)
    BY <2>1, <2>2 DEF LinkMoves
  <2>6. \A q \in Objects : AcceptTakes(host', q) = 0 /\ AcceptTakes(host, q) = 0
    BY <1>1, <2>4 DEF AcceptTakes
  <2>7. /\ c.state = coc[o].state /\ c.chan = coc[o].chan /\ c.free = coc[o].free - 1
        /\ r.state = lnk[l].state /\ r.state # "down" /\ r.obj = o /\ lnk[l].obj = o
    BY <1>1
  <2>8. Part(r, o) = 1 /\ Part(lnk[l], o) = 0
    BY <1>1 DEF Part
  <2> HIDE DEF c, r, o, l
  <2>9. ChannelsOK'
    BY <1>1, <2>1, <2>2, <2>5, <2>7, SameChannels
  <2>10. c.free + Part(r, o) + AcceptTakes(host', o) = coc[o].free + Part(lnk[l], o) + AcceptTakes(host, o)
    BY <1>1, <2>1, <2>6, <2>7, <2>8
  <2>11. \A q \in Objects : q # o => AcceptTakes(host', q) = AcceptTakes(host, q)
    BY <2>6
  <2>12. c.state \in Live
    BY <1>1, <2>7
  <2> QED
    BY <1>1, <2>1, <2>2, <2>4, <2>5, <2>7, <2>9, <2>10, <2>11, <2>12, LinkStep
<1> QED
  BY <1>2, <1>3

\* A step of a writer with blocks of o, which stays what it is.
LEMMA HoldStep ==
  ASSUME CocInv, UNCHANGED <<maker, lnk, host, seen>>,
         NEW w \in Writers, NEW r \in Hold, NEW o \in Objects, NEW c \in CocRecord,
         HoldMoves(w, r, o, c), c.state = coc[o].state, c.state \in Live, c.chan = coc[o].chan,
         r = Nothing \/ (r.n # 0 /\ r.obj = o), held[w] = Nothing \/ held[w].obj = o,
         c.free + Part(r, o) = coc[o].free + Part(held[w], o)
  PROVE  CocInv'
<1>1. /\ ShapeOK /\ MakersHaveObjects /\ UsersHaveObjects /\ HandlerOK /\ ChannelsOK /\ NoPoolLeft
      /\ held' = [held EXCEPT ![w] = r] /\ coc' = [coc EXCEPT ![o] = c]
  BY DEF CocInv, HoldMoves
<1>2. /\ coc' \in [Objects -> CocRecord] /\ coc'[o] = c
      /\ \A q \in Objects : q # o => coc'[q] = coc[q]
  BY <1>1, ObjectIs
<1>3. /\ held' \in [Writers -> Hold] /\ held'[w] = r
      /\ \A v \in Writers : v # w => held'[v] = held[v]
  BY <1>1, HoldIs
<1>4. ShapeOK'
  BY <1>1, <1>2, <1>3 DEF ShapeOK
<1>5. \A q \in Objects : coc'[q].state = coc[q].state /\ coc'[q].chan = coc[q].chan
  BY <1>2
<1>6. MakersHaveObjects'
  BY <1>1, <1>5 DEF MakersHaveObjects
<1>7. UsersHaveObjects'
  BY <1>1, <1>3, <1>5 DEF UsersHaveObjects
<1>8. Balanced'
  <2>1. \A q \in Objects : q # o => Part(r, q) = 0 /\ Part(held[w], q) = 0
    BY PoolAssumption DEF Part, Nothing
  <2>2. coc[o].state \notin Gone
    BY DEF Gone, Live
  <2>3. \A q \in Objects : q # o => Part(r, q) = Part(held[w], q)
    BY <2>1
  <2> QED
    BY <2>2, <2>3, HoldBalance
<1>9. NoPoolLeft'
  BY <1>1, <1>2 DEF NoPoolLeft, Gone, Live
<1>10. HandlerOK' /\ ChannelsOK'
  BY <1>1, <1>5 DEF HandlerOK, ChannelsOK
<1> QED
  BY <1>4, <1>6, <1>7, <1>8, <1>9, <1>10 DEF CocInv

LEMMA TakeBlockStep ==
  ASSUME CocInv, NEW w \in Writers, NEW o \in Objects, TakeBlock(w, o)
  PROVE  CocInv'
<1> DEFINE c == [state |-> coc[o].state, free |-> coc[o].free - 1, chan |-> coc[o].chan]
           r == [obj |-> o, n |-> held[w].n + 1]
<1>1. /\ ShapeOK /\ UsersHaveObjects /\ ChannelsOK
      /\ held[w] = Nothing \/ (held[w].obj = o /\ held[w].n = 1)
      /\ coc[o].chan # NoLink /\ coc[o].free > 0
      /\ UNCHANGED <<maker, lnk, host, seen>>
  BY DEF CocInv, TakeBlock
<1>2. coc[o].state \in Live /\ coc[o] \in CocRecord /\ held[w] \in Hold
  BY <1>1 DEF ChannelsOK, ShapeOK
<1>3. c \in CocRecord /\ coc' = [coc EXCEPT ![o] = c] /\ coc[o].free \in Nat
  <2>1. c = [coc[o] EXCEPT !.free = coc[o].free - 1]
    BY <1>2, FreeSet
  <2>2. coc' = [coc EXCEPT ![o] = [coc[o] EXCEPT !.free = coc[o].free - 1]]
    BY <1>1, <1>2 DEF TakeBlock
  <2>3. c \in CocRecord /\ coc[o].free \in Nat
    BY <1>1, <1>2 DEF CocRecord
  <2> QED
    BY <2>1, <2>2, <2>3
<1>4. held[w].n \in {0, 1} /\ Part(held[w], o) = held[w].n
  BY <1>1 DEF Part, Nothing
<1>5. held' = [held EXCEPT ![w] = r] /\ r \in Hold
  BY <1>1, <1>4 DEF TakeBlock, Hold, ShapeOK
<1>6. HoldMoves(w, r, o, c)
  BY <1>3, <1>5 DEF HoldMoves
<1>7. /\ c.state = coc[o].state /\ c.chan = coc[o].chan /\ c.free = coc[o].free - 1
      /\ r.obj = o /\ r.n = held[w].n + 1
  OBVIOUS
<1>8. Part(r, o) = held[w].n + 1
  BY DEF Part
<1> HIDE DEF c, r
<1>9. c.free + Part(r, o) = coc[o].free + Part(held[w], o) /\ r.n # 0
  BY <1>3, <1>4, <1>7, <1>8
<1>10. c.state \in Live
  BY <1>2, <1>7
<1> QED
  BY <1>1, <1>2, <1>3, <1>5, <1>6, <1>7, <1>9, <1>10, HoldStep

LEMMA FreeBlocksStep ==
  ASSUME CocInv, NEW w \in Writers, FreeBlocks(w)
  PROVE  CocInv'
<1> DEFINE o == held[w].obj
           c == [state |-> coc[o].state, free |-> coc[o].free + held[w].n, chan |-> coc[o].chan]
           r == Nothing
<1>1. /\ ShapeOK /\ UsersHaveObjects /\ held[w] # Nothing
      /\ UNCHANGED <<maker, lnk, host, seen>>
  BY DEF CocInv, FreeBlocks
<1>2. o \in Objects /\ coc[o].state \in Live /\ coc[o] \in CocRecord /\ held[w] \in Hold
  BY <1>1 DEF UsersHaveObjects, ShapeOK
<1>3. c \in CocRecord /\ coc' = [coc EXCEPT ![o] = c] /\ coc[o].free \in Nat /\ held[w].n \in 0..2
  <2>1. c = [coc[o] EXCEPT !.free = coc[o].free + held[w].n]
    BY <1>2, FreeSet
  <2>2. coc' = [coc EXCEPT ![o] = [coc[o] EXCEPT !.free = coc[o].free + held[w].n]]
    BY <1>1, <1>2 DEF FreeBlocks
  <2>3. coc[o].free \in Nat /\ held[w].n \in 0..2
    BY <1>2 DEF CocRecord, Hold
  <2>4. c \in CocRecord
    BY <1>2, <2>3 DEF CocRecord
  <2> QED
    BY <2>1, <2>2, <2>3, <2>4
<1>5. held' = [held EXCEPT ![w] = r] /\ r \in Hold
  BY DEF FreeBlocks, Hold, Nothing
<1>6. HoldMoves(w, r, o, c)
  BY <1>3, <1>5 DEF HoldMoves
<1>7. /\ c.state = coc[o].state /\ c.chan = coc[o].chan /\ c.free = coc[o].free + held[w].n
      /\ r = Nothing /\ held[w].obj = o
  OBVIOUS
<1>8. Part(r, o) = 0 /\ Part(held[w], o) = held[w].n
  BY DEF Part, Nothing
<1> HIDE DEF c, r, o
<1>9. c.free + Part(r, o) = coc[o].free + Part(held[w], o)
  BY <1>3, <1>7, <1>8
<1>10. c.state \in Live
  BY <1>2, <1>7
<1> QED
  BY <1>1, <1>2, <1>3, <1>5, <1>6, <1>7, <1>9, <1>10, HoldStep

\* A maker on its way: the objects know nothing of it.
LEMMA MakerOnItsWay ==
  ASSUME CocInv, UNCHANGED <<coc, lnk, held, host>>, maker' \in [Makers -> Maker],
         \A m \in Makers :
           (maker'[m].pc = "idle" <=> maker[m].pc = "idle") /\ maker'[m].obj = maker[m].obj,
         seen' \in Seen, seen'.shared = seen.shared, seen'.refused = seen.refused
  PROVE  CocInv'
<1>1. ShapeOK'
  BY DEF CocInv, ShapeOK
<1>2. MakersHaveObjects'
  BY DEF CocInv, MakersHaveObjects
<1>3. UsersHaveObjects' /\ HandlerOK' /\ ChannelsOK' /\ NoPoolLeft'
  BY DEF CocInv, UsersHaveObjects, HandlerOK, ChannelsOK, NoPoolLeft
<1>4. Balanced'
  BY DEF CocInv, Balanced, Total
<1> QED
  BY <1>1, <1>2, <1>3, <1>4 DEF CocInv

LEMMA PcSet ==
  ASSUME NEW r \in Maker,
         NEW l \in {"lock", "take", "queue", "newQueue", "task", "newTask", "give", "open"}
  PROVE  [r EXCEPT !.pc = l] \in Maker /\ [r EXCEPT !.pc = l].pc = l /\ [r EXCEPT !.pc = l].obj = r.obj
BY DEF Maker

LEMMA MakerGoesOn ==
  ASSUME CocInv, UNCHANGED <<coc, lnk, held, host>>, NEW m \in Makers, maker[m].pc # "idle",
         NEW l \in {"lock", "take", "queue", "newQueue", "task", "newTask", "give", "open"},
         MakerGoes(m, l), seen' \in Seen, seen'.shared = seen.shared, seen'.refused = seen.refused
  PROVE  CocInv'
<1>1. maker \in [Makers -> Maker] /\ maker[m] \in Maker
  BY DEF CocInv, ShapeOK
<1> DEFINE r == [maker[m] EXCEPT !.pc = l]
<1>2. r \in Maker /\ r.pc = l /\ r.obj = maker[m].obj
  BY <1>1, PcSet
<1>3. maker' = [maker EXCEPT ![m] = r]
  BY <1>1 DEF MakerGoes
<1> HIDE DEF r
<1>4. maker' \in [Makers -> Maker] /\ maker'[m] = r /\ \A n \in Makers : n # m => maker'[n] = maker[n]
  BY <1>1, <1>2, <1>3
<1> QED
  BY <1>2, <1>4, MakerOnItsWay

LEMMA EnsureStep ==
  ASSUME CocInv, NEW m \in Makers,
         \/ Ensure(m) \/ CreateLock(m) \/ TakeLock(m) \/ LookAtQueue(m) \/ CreateQueue(m)
         \/ LookAtTask(m) \/ CreateTask(m) \/ GiveLock(m)
  PROVE  CocInv'
<1> USE DEF MakerAt
<1>1. seen \in Seen
  BY DEF CocInv, ShapeOK
<1>2. CASE CreateLock(m)
  <2>1. seen' \in Seen /\ seen'.shared = seen.shared /\ seen'.refused = seen.refused
    BY <1>1, <1>2 DEF CreateLock, Seen
  <2> QED
    BY <1>2, <2>1, MakerGoesOn DEF CreateLock
<1>3. CASE Ensure(m)
  <2>1. PICK l \in {"open", "lock", "take"} : MakerGoes(m, l)
    BY <1>3 DEF Ensure
  <2> QED
    BY <1>1, <1>3, <2>1, MakerGoesOn DEF Ensure
<1>4. CASE TakeLock(m)
  BY <1>1, <1>4, MakerGoesOn DEF TakeLock
<1>5. CASE LookAtQueue(m)
  <2>1. PICK l \in {"newQueue", "task"} : MakerGoes(m, l)
    BY <1>5 DEF LookAtQueue
  <2> QED
    BY <1>1, <1>5, <2>1, MakerGoesOn DEF LookAtQueue
<1>6. CASE CreateQueue(m)
  BY <1>1, <1>6, MakerGoesOn DEF CreateQueue
<1>7. CASE LookAtTask(m)
  <2>1. PICK l \in {"newTask", "give"} : MakerGoes(m, l)
    BY <1>7 DEF LookAtTask
  <2> QED
    BY <1>1, <1>7, <2>1, MakerGoesOn DEF LookAtTask
<1>8. CASE CreateTask(m)
  BY <1>1, <1>8, MakerGoesOn DEF CreateTask
<1>9. CASE GiveLock(m)
  BY <1>1, <1>9, MakerGoesOn DEF GiveLock
<1> QED
  BY <1>2, <1>3, <1>4, <1>5, <1>6, <1>7, <1>8, <1>9

\* Nobody has a block of o, and no channel is one of o.
Unheld(o) ==
  /\ \A l \in Links : lnk[l].obj # o
  /\ \A w \in Writers : held[w].obj # o
  /\ AcceptTakes(host, o) = 0

LEMMA UnheldHasAll ==
  ASSUME ShapeOK, NEW o, Unheld(o)
  PROVE  Cardinality(BlocksIn(lnk, o)) = 0 /\ Cardinality(BlocksIn(held, o)) = 0
<1>1. DOMAIN lnk = Links /\ DOMAIN held = Writers
  BY DEF ShapeOK
<1>2. BlocksIn(lnk, o) = {} /\ BlocksIn(held, o) = {}
  BY <1>1 DEF BlocksIn, Unheld
<1> QED
  BY <1>2, FS_EmptySet

LEMMA NotLiveIsUnheld ==
  ASSUME CocInv, NEW o \in Objects, coc[o].state \notin Live
  PROVE  Unheld(o)
<1>1. UsersHaveObjects /\ HandlerOK
  BY DEF CocInv
<1>2. \A l \in Links : lnk[l].obj # o
  BY <1>1, PoolAssumption DEF UsersHaveObjects, Down
<1>3. \A w \in Writers : held[w].obj # o
  BY <1>1, PoolAssumption DEF UsersHaveObjects, Nothing
<1>4. AcceptTakes(host, o) = 0
  BY <1>1, <1>2 DEF HandlerOK, AcceptTakes
<1> QED
  BY <1>2, <1>3, <1>4 DEF Unheld

\* An object of which nobody has a block changes.
LEMMA ObjectStep ==
  ASSUME CocInv, UNCHANGED <<lnk, held, host, seen>>,
         NEW o \in Objects, Unheld(o), NEW c \in CocRecord, coc' = [coc EXCEPT ![o] = c],
         c.chan = NoLink, c.free = IF c.state \in Gone THEN 0 ELSE Blocks,
         o \in seen.shared => c.state \in {"served", "deleted"},
         o \in seen.refused => c.state \in {"client", "deleted"},
         maker' \in [Makers -> Maker], MakersHaveObjects'
  PROVE  CocInv'
<1>1. /\ ShapeOK /\ UsersHaveObjects /\ HandlerOK /\ ChannelsOK /\ Balanced /\ NoPoolLeft
  BY DEF CocInv
<1>2. /\ coc' \in [Objects -> CocRecord] /\ coc'[o] = c
      /\ \A q \in Objects : q # o => coc'[q] = coc[q]
  BY <1>1, ObjectIs
<1>3. ShapeOK'
  BY <1>1, <1>2 DEF ShapeOK
<1>4. UsersHaveObjects'
  BY <1>1, <1>2 DEF UsersHaveObjects, Unheld
<1>5. HandlerOK'
  BY <1>1 DEF HandlerOK
<1>6. ChannelsOK'
  <2>1. \A l \in Links : lnk[l].obj # o
    BY DEF Unheld
  <2> QED
    BY <1>1, <1>2, <2>1, PoolAssumption DEF ChannelsOK
<1>7. NoPoolLeft'
  BY <1>1, <1>2 DEF NoPoolLeft
<1>8. Balanced'
  <2>1. Cardinality(BlocksIn(lnk, o)) = 0 /\ Cardinality(BlocksIn(held, o)) = 0 /\ AcceptTakes(host, o) = 0
    BY <1>1, UnheldHasAll DEF Unheld
  <2>2. ASSUME NEW q \in Objects, coc'[q].state \notin Gone
        PROVE  coc'[q].free + Cardinality(BlocksIn(lnk, q)) + Cardinality(BlocksIn(held, q)) + AcceptTakes(host, q) = Blocks
    <3>1. CASE q = o
      <4>1. coc'[q].free = Blocks /\ Blocks \in Nat
        BY <1>2, <2>2, <3>1, PoolAssumption
      <4> QED
        BY <2>1, <3>1, <4>1
    <3>2. CASE q # o
      BY <1>1, <1>2, <2>2, <3>2 DEF Balanced, Total
    <3> QED
      BY <3>1, <3>2
  <2> QED
    BY <2>2 DEF Balanced, Total
<1> QED
  BY <1>3, <1>4, <1>5, <1>6, <1>7, <1>8 DEF CocInv

\* Nobody refused or shared an object that is not in use yet.
LEMMA NewIsUnshared ==
  ASSUME CocInv, NEW o \in Objects, coc[o].state \in {"none", "made"}
  PROVE  o \notin seen.shared /\ o \notin seen.refused /\ coc[o].chan = NoLink /\ Unheld(o)
<1>1. ChannelsOK /\ coc[o].state \notin Live
  BY DEF CocInv, Live
<1> QED
  BY <1>1, NotLiveIsUnheld DEF ChannelsOK, Live

LEMMA NewChannelStep ==
  ASSUME CocInv, NEW m \in Makers, NEW o \in Objects, NEW role \in {"server", "client"},
         NewChannel(m, o, role)
  PROVE  CocInv'
<1> DEFINE c == [state |-> "made", free |-> Blocks, chan |-> NoLink]
           r == [pc |-> "ensure", obj |-> o, role |-> role]
<1>1. /\ maker[m].pc = "idle" /\ coc[o].state = "none" /\ coc' = [coc EXCEPT ![o] = c]
      /\ maker' = [maker EXCEPT ![m] = r] /\ UNCHANGED <<lnk, held, host, seen>>
  BY DEF NewChannel, MakerAt
<1>2. c \in CocRecord /\ r \in Maker /\ c.chan = NoLink
      /\ c.free = (IF c.state \in Gone THEN 0 ELSE Blocks) /\ c.state = "made" /\ r.obj = o
  BY PoolAssumption DEF CocRecord, Maker, Gone
<1>3. ShapeOK /\ MakersHaveObjects /\ maker \in [Makers -> Maker]
  BY DEF CocInv, ShapeOK
<1> HIDE DEF c, r
<1>4. maker' \in [Makers -> Maker] /\ maker'[m] = r /\ \A n \in Makers : n # m => maker'[n] = maker[n]
  BY <1>1, <1>2, <1>3
<1>5. coc'[o] = c /\ \A q \in Objects : q # o => coc'[q] = coc[q]
  BY <1>1, <1>2, <1>3, ObjectIs
<1>6. \A n \in Makers : maker[n].pc # "idle" => maker[n].obj \in Objects /\ maker[n].obj # o
  BY <1>1, <1>3 DEF MakersHaveObjects
<1>7. MakersHaveObjects'
  BY <1>2, <1>3, <1>4, <1>5, <1>6 DEF MakersHaveObjects
<1>8. o \notin seen.shared /\ o \notin seen.refused /\ Unheld(o)
  BY <1>1, NewIsUnshared
<1> QED
  BY <1>1, <1>2, <1>4, <1>7, <1>8, ObjectStep

\* A maker that is done has left its object to others.
LEMMA MakerIsDone ==
  ASSUME CocInv, NEW m \in Makers, maker[m].pc # "idle", MakerDone(m), NEW o, o = maker[m].obj,
         \A q \in Objects : q # o => coc'[q] = coc[q]
  PROVE  /\ maker' \in [Makers -> Maker] /\ MakersHaveObjects'
         /\ o \in Objects /\ coc[o].state = "made" /\ coc[o] \in CocRecord
<1>1. MakersHaveObjects /\ maker \in [Makers -> Maker] /\ coc \in [Objects -> CocRecord]
  BY DEF CocInv, ShapeOK
<1>2. Idling \in Maker /\ Idling.pc = "idle"
  BY DEF Idling, Maker
<1>3. maker' \in [Makers -> Maker] /\ maker'[m] = Idling /\ \A n \in Makers : n # m => maker'[n] = maker[n]
  BY <1>1, <1>2 DEF MakerDone
<1>4. o \in Objects /\ coc[o].state = "made"
  BY <1>1 DEF MakersHaveObjects
<1>5. \A n \in Makers : n # m /\ maker[n].pc # "idle" => maker[n].obj # o
  BY <1>1 DEF MakersHaveObjects
<1>6. MakersHaveObjects'
  BY <1>1, <1>2, <1>3, <1>5 DEF MakersHaveObjects
<1> QED
  BY <1>1, <1>3, <1>4, <1>6

\* The pool of an object that its maker still has is full.
LEMMA MadeIsFull ==
  ASSUME CocInv, NEW o \in Objects, coc[o].state = "made"
  PROVE  coc[o].free = Blocks
<1>1. ShapeOK /\ Balanced /\ Unheld(o)
  BY NewIsUnshared DEF CocInv
<1>2. Cardinality(BlocksIn(lnk, o)) = 0 /\ Cardinality(BlocksIn(held, o)) = 0 /\ AcceptTakes(host, o) = 0
  BY <1>1, UnheldHasAll DEF Unheld
<1>3. coc[o].free \in Nat
  BY <1>1 DEF ShapeOK, CocRecord
<1>4. coc[o].free + 0 + 0 + 0 = Blocks
  BY <1>1, <1>2 DEF Balanced, Total, Gone
<1> QED
  BY <1>3, <1>4

LEMMA CreateServiceStep ==
  ASSUME CocInv, NEW m \in Makers, NEW ok \in BOOLEAN, CreateService(m, ok)
  PROVE  CocInv'
<1> DEFINE o == maker[m].obj
           s == IF ok THEN "served" ELSE "lost"
           c == [state |-> s, free |-> coc[o].free, chan |-> coc[o].chan]
<1>1. /\ maker[m].pc = "open" /\ MakerDone(m) /\ UNCHANGED <<lnk, held, host, seen>>
      /\ coc' = [coc EXCEPT ![o].state = s]
  BY DEF CreateService, Made, MakerAt
<1>2. s \in {"served", "lost"}
  OBVIOUS
<1>3. o \in Objects /\ coc[o].state = "made" /\ coc \in [Objects -> CocRecord] /\ coc[o] \in CocRecord
  BY <1>1 DEF CocInv, MakersHaveObjects, ShapeOK
<1> HIDE DEF s, o
<1>4. coc' = [coc EXCEPT ![o] = c] /\ c \in CocRecord /\ c.state = s
  <2>1. [coc[o] EXCEPT !.state = s] = c /\ c \in CocRecord
    BY <1>2, <1>3 DEF CocRecord
  <2> QED
    BY <1>1, <1>3, <2>1
<1>5. \A q \in Objects : q # o => coc'[q] = coc[q]
  BY <1>3, <1>4
<1>6. maker' \in [Makers -> Maker] /\ MakersHaveObjects'
  BY <1>1, <1>5, MakerIsDone DEF o
<1>7. o \notin seen.shared /\ o \notin seen.refused /\ coc[o].chan = NoLink /\ Unheld(o)
  BY <1>3, NewIsUnshared
<1>8. coc[o].free = Blocks
  BY <1>3, MadeIsFull
<1>9. c.chan = NoLink /\ c.free = IF c.state \in Gone THEN 0 ELSE Blocks
  BY <1>2, <1>4, <1>7, <1>8 DEF Gone
<1> HIDE DEF c
<1> QED
  BY <1>1, <1>3, <1>4, <1>6, <1>7, <1>9, ObjectStep

LEMMA FreedRecord ==
  /\ Freed \in CocRecord /\ Freed.state = "deleted" /\ Freed.chan = NoLink
  /\ Freed.free = IF Freed.state \in Gone THEN 0 ELSE Blocks
BY DEF Freed, CocRecord, Gone

LEMMA ConnectFailsStep ==
  ASSUME CocInv, NEW m \in Makers, ConnectFails(m)
  PROVE  CocInv'
<1> DEFINE o == maker[m].obj
<1>1. /\ maker[m].pc = "open" /\ MakerDone(m) /\ UNCHANGED <<lnk, held, host, seen>>
      /\ coc' = [coc EXCEPT ![o] = Freed]
  BY DEF ConnectFails, Made, MakerAt
<1>2. o \in Objects /\ coc[o].state = "made" /\ coc \in [Objects -> CocRecord]
  BY <1>1 DEF CocInv, MakersHaveObjects, ShapeOK
<1> HIDE DEF o
<1>3. \A q \in Objects : q # o => coc'[q] = coc[q]
  BY <1>1, <1>2
<1>4. maker' \in [Makers -> Maker] /\ MakersHaveObjects'
  BY <1>1, <1>3, MakerIsDone DEF o
<1>5. o \notin seen.shared /\ o \notin seen.refused /\ Unheld(o)
  BY <1>2, NewIsUnshared
<1> QED
  BY <1>1, <1>2, <1>4, <1>5, FreedRecord, ObjectStep

LEMMA DeleteChannelStep ==
  ASSUME CocInv, NEW o \in Objects, DeleteChannel(o)
  PROVE  CocInv'
<1>1. /\ coc[o].state = "client" /\ coc' = [coc EXCEPT ![o] = Freed]
      /\ UNCHANGED <<maker, lnk, held, host, seen>>
  BY DEF DeleteChannel
<1>2. Unheld(o)
  BY DEF DeleteChannel, Unused, Unheld, AcceptTakes
<1>3. maker' \in [Makers -> Maker] /\ MakersHaveObjects /\ ShapeOK
  BY <1>1 DEF CocInv, ShapeOK
<1>4. \A q \in Objects : q # o => coc'[q] = coc[q]
  BY <1>1, <1>3, FreedRecord, ObjectIs
<1>5. MakersHaveObjects'
  BY <1>1, <1>3, <1>4 DEF MakersHaveObjects
<1> QED
  BY <1>1, <1>2, <1>3, <1>5, FreedRecord, ObjectStep

LEMMA DeleteServerStep ==
  ASSUME CocInv, DeleteServer
  PROVE  CocInv'
<1>1. /\ coc' = [o \in Objects |-> IF coc[o].state = "served" THEN Freed ELSE coc[o]]
      /\ UNCHANGED <<maker, lnk, held, host, seen>> /\ host.pc = "idle"
      /\ \A m \in Makers : maker[m].pc = "idle"
      /\ \A l \in Links : lnk[l] = Down
      /\ \A w \in Writers : held[w] = Nothing
  BY DEF DeleteServer, MakerAt
<1>2. /\ ShapeOK /\ ChannelsOK /\ NoPoolLeft /\ Balanced
  BY DEF CocInv
<1>3. /\ coc' \in [Objects -> CocRecord]
      /\ \A q \in Objects : \/ coc'[q] = coc[q]
                            \/ coc[q].state = "served" /\ coc'[q] = Freed
  <2>1. coc \in [Objects -> CocRecord] /\ Freed \in CocRecord
    BY <1>2, FreedRecord DEF ShapeOK
  <2>2. ASSUME NEW q \in Objects
        PROVE  /\ coc'[q] \in CocRecord
               /\ \/ coc'[q] = coc[q]
                  \/ coc[q].state = "served" /\ coc'[q] = Freed
    <3>1. CASE coc[q].state = "served"
      BY <1>1, <2>1, <3>1
    <3>2. CASE coc[q].state # "served"
      BY <1>1, <2>1, <3>2
    <3> QED
      BY <3>1, <3>2
  <2> DEFINE F(q) == IF coc[q].state = "served" THEN Freed ELSE coc[q]
  <2>3. coc' = [q \in Objects |-> F(q)] /\ \A q \in Objects : F(q) \in CocRecord
    BY <1>1, <2>1
  <2> HIDE DEF F
  <2>4. coc' \in [Objects -> CocRecord]
    BY <2>3
  <2> QED
    BY <2>2, <2>4
<1>4. ShapeOK'
  BY <1>1, <1>2, <1>3 DEF ShapeOK
<1>5. MakersHaveObjects' /\ UsersHaveObjects' /\ HandlerOK'
  BY <1>1 DEF MakersHaveObjects, UsersHaveObjects, HandlerOK, Down
<1>6. ChannelsOK'
  <2>1. \A l \in Links : lnk[l].obj = NoObject /\ lnk[l].state = "down"
    BY <1>1 DEF Down
  <2> QED
    BY <1>1, <1>2, <1>3, <2>1, FreedRecord, PoolAssumption DEF ChannelsOK, Live
<1>7. NoPoolLeft'
  BY <1>2, <1>3, FreedRecord DEF NoPoolLeft, Gone
<1>8. Balanced'
  BY <1>1, <1>2, <1>3, FreedRecord DEF Balanced, Total, Gone
<1> QED
  BY <1>4, <1>5, <1>6, <1>7, <1>8 DEF CocInv

LEMMA ConnectStep ==
  ASSUME CocInv, NEW m \in Makers, NEW l \in Links, Connect(m, l)
  PROVE  CocInv'
<1> DEFINE o == maker[m].obj
           c == [state |-> "client", free |-> Blocks - 1, chan |-> NoLink]
           r == [state |-> "asked", obj |-> o, n |-> 1]
<1>1. /\ maker[m].pc = "open" /\ MakerDone(m) /\ UNCHANGED <<held, host, seen>> /\ lnk[l] = Down
      /\ coc' = [coc EXCEPT ![o].state = "client", ![o].free = @ - 1]
      /\ lnk' = [lnk EXCEPT ![l] = r]
  BY DEF Connect, Made, MakerAt
<1>2. /\ ShapeOK /\ UsersHaveObjects /\ HandlerOK /\ ChannelsOK /\ NoPoolLeft
      /\ o \in Objects /\ coc[o].state = "made" /\ coc \in [Objects -> CocRecord] /\ coc[o] \in CocRecord
  BY <1>1 DEF CocInv, MakersHaveObjects, ShapeOK
<1>3. o \notin seen.shared /\ o \notin seen.refused /\ coc[o].chan = NoLink /\ Unheld(o)
  BY <1>2, NewIsUnshared
<1>4. coc[o].free = Blocks
  BY <1>2, MadeIsFull
<1>5. coc' = [coc EXCEPT ![o] = c] /\ c \in CocRecord
  <2>1. Blocks - 1 \in Nat
    <3>1. Cardinality(Writers) \in Nat
      BY PoolAssumption, FS_CardinalityType
    <3> QED
      BY <3>1, PoolAssumption
  <2>2. c \in CocRecord
    BY <2>1 DEF CocRecord
  <2>3. [coc[o] EXCEPT !.state = "client", !.free = @ - 1] = c
    <3>1. coc[o] = [state |-> "made", free |-> Blocks, chan |-> NoLink]
      BY <1>2, <1>3, <1>4 DEF CocRecord
    <3> DEFINE x == [coc[o] EXCEPT !.state = "client"]
    <3>2. x = [state |-> "client", free |-> Blocks, chan |-> NoLink]
      BY <3>1
    <3>3. x \in CocRecord /\ x.free = Blocks /\ x.state = "client" /\ x.chan = NoLink
      BY <3>2, PoolAssumption DEF CocRecord
    <3>4. [coc[o] EXCEPT !.state = "client", !.free = @ - 1] = [x EXCEPT !.free = x.free - 1]
      BY <3>1
    <3> HIDE DEF x
    <3>5. [x EXCEPT !.free = x.free - 1] = [state |-> x.state, free |-> x.free - 1, chan |-> x.chan]
      BY <3>3, FreeSet
    <3> QED
      BY <3>3, <3>4, <3>5
  <2>4. coc' = [coc EXCEPT ![o] = [coc[o] EXCEPT !.state = "client", !.free = @ - 1]]
    BY <1>1, <1>2
  <2> QED
    BY <2>2, <2>3, <2>4
<1>6. r \in Link
  BY <1>2 DEF Link
<1>7. LinkMoves(l, r, o, c)
  BY <1>1, <1>5 DEF LinkMoves
<1>8. /\ c.state = "client" /\ c.chan = NoLink /\ c.free = Blocks - 1
      /\ r.state = "asked" /\ r.obj = o
  OBVIOUS
<1>9. Part(r, o) = 1 /\ Part(lnk[l], o) = 0
  BY <1>1, <1>2, PoolAssumption DEF Part, Down
<1>10. \A q \in Objects : q # o => Part(r, q) = 0 /\ Part(lnk[l], q) = 0
  BY <1>1, PoolAssumption DEF Part, Down
<1> HIDE DEF c, r
<1>11. coc' \in [Objects -> CocRecord] /\ coc'[o] = c /\ \A q \in Objects : q # o => coc'[q] = coc[q]
  BY <1>2, <1>5, ObjectIs
<1>12. lnk' \in [Links -> Link] /\ lnk'[l] = r /\ \A k \in Links : k # l => lnk'[k] = lnk[k]
  BY <1>1, <1>2, <1>6, LinkIs
<1>13. maker' \in [Makers -> Maker] /\ MakersHaveObjects'
  BY <1>1, <1>11, MakerIsDone
<1> HIDE DEF o
<1>14. ShapeOK'
  BY <1>1, <1>2, <1>11, <1>12, <1>13 DEF ShapeOK
<1>15. UsersHaveObjects'
  BY <1>1, <1>2, <1>8, <1>11, <1>12 DEF UsersHaveObjects, Live
<1>16. HandlerOK'
  BY <1>1, <1>2, <1>12 DEF HandlerOK, Down
<1>17. ChannelsOK'
  <2>1. lnk[l].state = "down" /\ lnk[l].obj = NoObject /\ \A k \in Links : lnk[k].obj # o
    BY <1>1, <1>3 DEF Down, Unheld
  <2>2. ASSUME NEW q \in Objects
        PROVE  /\ coc'[q].chan # NoLink => coc'[q].state \in Live
               /\ q \in seen'.shared => coc'[q].state \in {"served", "deleted"}
               /\ q \in seen'.refused =>
                    coc'[q].state \in {"client", "deleted"} /\ \A k \in Links : lnk'[k].obj # q
    BY <1>1, <1>2, <1>3, <1>8, <1>11, <1>12 DEF ChannelsOK
  <2>3. ASSUME NEW q \in Objects \ seen'.shared, NEW k \in Links, lnk'[k].obj = q
        PROVE  /\ lnk'[k].state = "open" => coc'[q].chan = k
               /\ \A j \in Links : lnk'[j].obj = q => j = k
    BY <1>1, <1>2, <1>8, <1>11, <1>12, <2>1, <2>3 DEF ChannelsOK
  <2>4. ASSUME NEW q \in Objects \ (seen'.shared \cup seen'.refused), NEW k \in Links, coc'[q].chan = k
        PROVE  lnk'[k].state = "open" /\ lnk'[k].obj = q
    <3>1. q # o /\ coc[q].chan = k
      BY <1>8, <1>11, <2>4, PoolAssumption
    <3>2. lnk[k].state = "open" /\ lnk[k].obj = q
      BY <1>1, <1>2, <2>4, <3>1 DEF ChannelsOK
    <3> QED
      BY <1>12, <2>1, <3>2
  <2> QED
    BY <2>2, <2>3, <2>4 DEF ChannelsOK
<1>18. NoPoolLeft'
  BY <1>2, <1>8, <1>11 DEF NoPoolLeft, Gone
<1>19. Balanced'
  <2>1. c.free + Part(r, o) + AcceptTakes(host', o) = coc[o].free + Part(lnk[l], o) + AcceptTakes(host, o)
    BY <1>1, <1>3, <1>4, <1>8, <1>9, PoolAssumption DEF Unheld
  <2>2. coc[o].state \notin Gone
    BY <1>2 DEF Gone
  <2>3. \A q \in Objects : q # o => Part(r, q) = Part(lnk[l], q) /\ AcceptTakes(host', q) = AcceptTakes(host, q)
    BY <1>1, <1>10
  <2> QED
    BY <1>1, <1>2, <1>5, <1>6, <1>7, <2>1, <2>2, <2>3, LinkBalance
<1> QED
  BY <1>13, <1>14, <1>15, <1>16, <1>17, <1>18, <1>19 DEF CocInv

-----------------------------------------------------------------------------
(* How often the worker's parts are created.                               *)

At(pc) == {m \in Makers : maker[m].pc = pc}

\* What n counts is created by makers at pc, each once more.
Within(n, pc) == n + Cardinality(At(pc)) <= Cardinality(Makers)

CountsOK ==
  /\ worker.held \subseteq Mutex
  /\ Within(worker.locks, "lock")
  /\ Within(worker.queues, "newQueue")
  /\ Within(worker.tasks, "newTask")

LEMMA AtIsFinite ==
  ASSUME NEW pc
  PROVE  /\ IsFiniteSet(At(pc)) /\ Cardinality(At(pc)) \in Nat /\ Cardinality(Makers) \in Nat
         /\ Cardinality(At(pc)) <= Cardinality(Makers)
<1>1. At(pc) \in SUBSET Makers /\ IsFiniteSet(Makers)
  BY PoolAssumption DEF At
<1> QED
  BY <1>1, FS_Subset, FS_CardinalityType

\* Nobody came to pc.
LEMMA FewerAt ==
  ASSUME NEW n \in Nat, NEW pc, Within(n, pc), At(pc)' \subseteq At(pc)
  PROVE  n + Cardinality(At(pc)') <= Cardinality(Makers)
<1> DEFINE S == At(pc)
           T == At(pc)'
<1>1. IsFiniteSet(S) /\ Cardinality(S) \in Nat /\ Cardinality(Makers) \in Nat
  BY AtIsFinite
<1>2. n + Cardinality(S) <= Cardinality(Makers)
  BY DEF Within
<1>3. T \in SUBSET S
  OBVIOUS
<1> HIDE DEF S, T
<1>4. Cardinality(T) <= Cardinality(S) /\ Cardinality(T) \in Nat
  BY <1>1, <1>3, FS_Subset, FS_CardinalityType
<1>5. n + Cardinality(T) <= Cardinality(Makers)
  BY <1>1, <1>2, <1>4
<1> QED
  BY <1>5 DEF T

\* A maker that leaves pc counts from then on.
LEMMA OneLess ==
  ASSUME NEW n \in Nat, NEW pc, Within(n, pc), NEW m \in At(pc), At(pc)' = At(pc) \ {m}
  PROVE  n + 1 + Cardinality(At(pc)') <= Cardinality(Makers)
<1> DEFINE S == At(pc)
           T == At(pc)'
<1>1. IsFiniteSet(S) /\ Cardinality(S) \in Nat /\ Cardinality(Makers) \in Nat
  BY AtIsFinite
<1>2. n + Cardinality(S) <= Cardinality(Makers)
  BY DEF Within
<1>3. T = S \ {m} /\ m \in S
  OBVIOUS
<1> HIDE DEF S, T
<1>4. Cardinality(T) = Cardinality(S) - 1
  BY <1>1, <1>3, FS_RemoveElement
<1>5. n + 1 + Cardinality(T) <= Cardinality(Makers)
  BY <1>1, <1>2, <1>4
<1> QED
  BY <1>5 DEF T

\* Whoever comes to pc while nothing is counted is one of the makers.
LEMMA FirstAt ==
  ASSUME NEW pc, At(pc)' \subseteq Makers
  PROVE  0 + Cardinality(At(pc)') <= Cardinality(Makers)
<1> DEFINE T == At(pc)'
<1>1. T \in SUBSET Makers /\ IsFiniteSet(Makers)
  BY PoolAssumption
<1> HIDE DEF T
<1>2. Cardinality(T) \in Nat /\ Cardinality(T) <= Cardinality(Makers)
  BY <1>1, FS_Subset, FS_CardinalityType
<1>3. 0 + Cardinality(T) <= Cardinality(Makers)
  BY <1>2, AtIsFinite
<1> QED
  BY <1>3 DEF T

\* The worker after the step is what the step says.
LEMMA WorkerFields ==
  ASSUME OneWorkerInv
  PROVE  /\ worker \in [lock : Nat, locks : Nat, held : SUBSET Nat, queues : Nat, tasks : Nat]
         /\ worker.lock = worker.locks /\ maker \in [Makers -> Maker]
         /\ worker.locks \in Nat /\ worker.queues \in Nat /\ worker.tasks \in Nat
BY DEF OneWorkerInv, WorkerTypeOK

\* A step that leaves the worker alone, and brings no maker to where it creates.
LEMMA CountsStay ==
  ASSUME OneWorkerInv, CountsOK, UNCHANGED worker, maker' \in [Makers -> Maker],
         \A m \in Makers :
           maker'[m].pc \in {"lock", "newQueue", "newTask"} => maker'[m].pc = maker[m].pc
  PROVE  CountsOK'
<1>1. /\ At("lock")' \subseteq At("lock") /\ At("newQueue")' \subseteq At("newQueue")
      /\ At("newTask")' \subseteq At("newTask")
  BY DEF At
<1>2. worker.locks \in Nat /\ worker.queues \in Nat /\ worker.tasks \in Nat
  BY WorkerFields
<1>3. Within(worker.locks, "lock") /\ Within(worker.queues, "newQueue") /\ Within(worker.tasks, "newTask")
  BY DEF CountsOK
<1>4. /\ worker.locks + Cardinality(At("lock")') <= Cardinality(Makers)
      /\ worker.queues + Cardinality(At("newQueue")') <= Cardinality(Makers)
      /\ worker.tasks + Cardinality(At("newTask")') <= Cardinality(Makers)
  BY <1>1, <1>2, <1>3, FewerAt
<1>5. Within(worker.locks, "lock")' /\ Within(worker.queues, "newQueue")' /\ Within(worker.tasks, "newTask")'
  BY <1>4 DEF Within
<1> QED
  BY <1>5 DEF CountsOK

LEMMA CountsStep ==
  ASSUME OneWorkerInv, CountsOK, NEW m \in Makers,
         \/ Ensure(m) \/ CreateLock(m) \/ TakeLock(m) \/ LookAtQueue(m) \/ CreateQueue(m)
         \/ LookAtTask(m) \/ CreateTask(m) \/ GiveLock(m)
  PROVE  CountsOK'
<1> USE DEF MakerAt
<1>1. /\ worker \in [lock : Nat, locks : Nat, held : SUBSET Nat, queues : Nat, tasks : Nat]
      /\ worker.lock = worker.locks /\ maker \in [Makers -> Maker]
      /\ worker.locks \in Nat /\ worker.queues \in Nat /\ worker.tasks \in Nat
  BY WorkerFields
<1>2. /\ worker.held \subseteq Mutex /\ Within(worker.locks, "lock")
      /\ Within(worker.queues, "newQueue") /\ Within(worker.tasks, "newTask")
  BY DEF CountsOK
<1>3. \A pc : At(pc) \subseteq Makers /\ At(pc)' \subseteq Makers
  BY DEF At
\* What the places are worth after a step that brings no maker there.
<1>4. ASSUME NEW n \in Nat, NEW pc, Within(n, pc), At(pc)' \subseteq At(pc)
      PROVE  n + Cardinality(At(pc)') <= Cardinality(Makers)
  BY <1>4, FewerAt
<1>5. worker.lock \in Mutex
  <2>1. worker.locks + Cardinality(At("lock")) <= Cardinality(Makers)
    BY <1>2 DEF Within
  <2>2. Cardinality(At("lock")) \in Nat /\ Cardinality(Makers) \in Nat
    BY AtIsFinite
  <2> QED
    BY <1>1, <2>1, <2>2 DEF Mutex
<1>6. ASSUME NEW l \in {"lock", "take", "queue", "newQueue", "task", "newTask", "give", "open"}, MakerGoes(m, l)
      PROVE  /\ maker' \in [Makers -> Maker] /\ maker'[m].pc = l
             /\ \A n \in Makers : n # m => maker'[n] = maker[n]
             /\ \A pc : pc # l => At(pc)' \subseteq At(pc)
             /\ \A pc : maker[m].pc = pc /\ pc # l => m \in At(pc) /\ At(pc)' = At(pc) \ {m}
  <2>1. /\ maker' \in [Makers -> Maker] /\ maker'[m].pc = l
        /\ \A n \in Makers : n # m => maker'[n] = maker[n]
    BY <1>6, MakerMoves
  <2>2. ASSUME NEW pc, pc # l PROVE At(pc)' \subseteq At(pc)
    BY <2>1, <2>2 DEF At
  <2>3. ASSUME NEW pc, maker[m].pc = pc, pc # l PROVE m \in At(pc) /\ At(pc)' = At(pc) \ {m}
    BY <2>1, <2>3 DEF At
  <2> QED
    BY <2>1, <2>2, <2>3
\* The worker's parts are as they were, but for the lock that somebody holds.
<1>7. ASSUME worker'.held \subseteq Mutex, worker'.locks = worker.locks,
             worker'.queues = worker.queues, worker'.tasks = worker.tasks,
             worker.locks + Cardinality(At("lock")') <= Cardinality(Makers),
             worker.queues + Cardinality(At("newQueue")') <= Cardinality(Makers),
             worker.tasks + Cardinality(At("newTask")') <= Cardinality(Makers)
      PROVE  CountsOK'
  BY <1>7 DEF CountsOK, Within, Mutex
<1>8. CASE Ensure(m)
  <2> DEFINE l == IF worker.queues # 0 /\ worker.tasks # 0 THEN "open"
                  ELSE IF worker.lock = 0 THEN "lock" ELSE "take"
  <2>1. /\ l \in {"open", "lock", "take"} /\ (l = "lock" => worker.locks = 0)
        /\ MakerGoes(m, l) /\ worker' = worker
    BY <1>1, <1>8 DEF Ensure
  <2> HIDE DEF l
  <2>2. \A pc : pc # l => At(pc)' \subseteq At(pc)
    BY <1>6, <2>1
  <2>3. worker.locks + Cardinality(At("lock")') <= Cardinality(Makers)
    <3>1. CASE l = "lock"
      <4>1. 0 + Cardinality(At("lock")') <= Cardinality(Makers)
        BY <1>3, FirstAt
      <4> QED
        BY <2>1, <3>1, <4>1
    <3>2. CASE l # "lock"
      BY <1>1, <1>2, <1>4, <2>2, <3>2
    <3> QED
      BY <3>1, <3>2
  <2>4. /\ worker.queues + Cardinality(At("newQueue")') <= Cardinality(Makers)
        /\ worker.tasks + Cardinality(At("newTask")') <= Cardinality(Makers)
    <3>1. At("newQueue")' \subseteq At("newQueue") /\ At("newTask")' \subseteq At("newTask")
      BY <2>1, <2>2
    <3> QED
      BY <1>1, <1>2, <1>4, <3>1
  <2> QED
    BY <1>2, <1>7, <2>1, <2>3, <2>4
<1>9. CASE LookAtQueue(m)
  <2> DEFINE l == IF worker.queues = 0 THEN "newQueue" ELSE "task"
  <2>1. /\ l \in {"newQueue", "task"} /\ (l = "newQueue" => worker.queues = 0)
        /\ MakerGoes(m, l) /\ worker' = worker
    BY <1>1, <1>9 DEF LookAtQueue
  <2> HIDE DEF l
  <2>2. \A pc : pc # l => At(pc)' \subseteq At(pc)
    BY <1>6, <2>1
  <2>3. worker.queues + Cardinality(At("newQueue")') <= Cardinality(Makers)
    <3>1. CASE l = "newQueue"
      <4>1. 0 + Cardinality(At("newQueue")') <= Cardinality(Makers)
        BY <1>3, FirstAt
      <4> QED
        BY <2>1, <3>1, <4>1
    <3>2. CASE l # "newQueue"
      BY <1>1, <1>2, <1>4, <2>2, <3>2
    <3> QED
      BY <3>1, <3>2
  <2>4. /\ worker.locks + Cardinality(At("lock")') <= Cardinality(Makers)
        /\ worker.tasks + Cardinality(At("newTask")') <= Cardinality(Makers)
    <3>1. At("lock")' \subseteq At("lock") /\ At("newTask")' \subseteq At("newTask")
      BY <2>1, <2>2
    <3> QED
      BY <1>1, <1>2, <1>4, <3>1
  <2> QED
    BY <1>2, <1>7, <2>1, <2>3, <2>4
<1>10. CASE LookAtTask(m)
  <2> DEFINE l == IF worker.tasks = 0 THEN "newTask" ELSE "give"
  <2>1. /\ l \in {"newTask", "give"} /\ (l = "newTask" => worker.tasks = 0)
        /\ MakerGoes(m, l) /\ worker' = worker
    BY <1>1, <1>10 DEF LookAtTask
  <2> HIDE DEF l
  <2>2. \A pc : pc # l => At(pc)' \subseteq At(pc)
    BY <1>6, <2>1
  <2>3. worker.tasks + Cardinality(At("newTask")') <= Cardinality(Makers)
    <3>1. CASE l = "newTask"
      <4>1. 0 + Cardinality(At("newTask")') <= Cardinality(Makers)
        BY <1>3, FirstAt
      <4> QED
        BY <2>1, <3>1, <4>1
    <3>2. CASE l # "newTask"
      BY <1>1, <1>2, <1>4, <2>2, <3>2
    <3> QED
      BY <3>1, <3>2
  <2>4. /\ worker.locks + Cardinality(At("lock")') <= Cardinality(Makers)
        /\ worker.queues + Cardinality(At("newQueue")') <= Cardinality(Makers)
    <3>1. At("lock")' \subseteq At("lock") /\ At("newQueue")' \subseteq At("newQueue")
      BY <2>1, <2>2
    <3> QED
      BY <1>1, <1>2, <1>4, <3>1
  <2> QED
    BY <1>2, <1>7, <2>1, <2>3, <2>4
<1>11. CASE CreateLock(m)
  <2>1. /\ maker[m].pc = "lock" /\ MakerGoes(m, "take")
    BY <1>11 DEF CreateLock
  <2>2. /\ At("newQueue")' \subseteq At("newQueue") /\ At("newTask")' \subseteq At("newTask")
        /\ m \in At("lock") /\ At("lock")' = At("lock") \ {m}
    BY <1>6, <2>1
  <2>3. /\ worker'.held = worker.held /\ worker'.locks = worker.locks + 1
        /\ worker'.queues = worker.queues /\ worker'.tasks = worker.tasks
    BY <1>1, <1>11 DEF CreateLock
  <2>4. worker.locks + 1 + Cardinality(At("lock")') <= Cardinality(Makers)
    BY <1>1, <1>2, <2>2, OneLess
  <2>5. /\ worker.queues + Cardinality(At("newQueue")') <= Cardinality(Makers)
        /\ worker.tasks + Cardinality(At("newTask")') <= Cardinality(Makers)
    BY <1>1, <1>2, <1>4, <2>2
  <2> QED
    BY <1>2, <2>3, <2>4, <2>5 DEF CountsOK, Within, Mutex
<1>12. CASE CreateQueue(m)
  <2>1. /\ maker[m].pc = "newQueue" /\ MakerGoes(m, "task")
    BY <1>12 DEF CreateQueue
  <2>2. /\ At("lock")' \subseteq At("lock") /\ At("newTask")' \subseteq At("newTask")
        /\ m \in At("newQueue") /\ At("newQueue")' = At("newQueue") \ {m}
    BY <1>6, <2>1
  <2>3. /\ worker'.held = worker.held /\ worker'.queues = worker.queues + 1
        /\ worker'.locks = worker.locks /\ worker'.tasks = worker.tasks
    BY <1>1, <1>12 DEF CreateQueue
  <2>4. worker.queues + 1 + Cardinality(At("newQueue")') <= Cardinality(Makers)
    BY <1>1, <1>2, <2>2, OneLess
  <2>5. /\ worker.locks + Cardinality(At("lock")') <= Cardinality(Makers)
        /\ worker.tasks + Cardinality(At("newTask")') <= Cardinality(Makers)
    BY <1>1, <1>2, <1>4, <2>2
  <2> QED
    BY <1>2, <2>3, <2>4, <2>5 DEF CountsOK, Within, Mutex
<1>13. CASE CreateTask(m)
  <2>1. /\ maker[m].pc = "newTask" /\ MakerGoes(m, "give")
    BY <1>13 DEF CreateTask
  <2>2. /\ At("lock")' \subseteq At("lock") /\ At("newQueue")' \subseteq At("newQueue")
        /\ m \in At("newTask") /\ At("newTask")' = At("newTask") \ {m}
    BY <1>6, <2>1
  <2>3. /\ worker'.held = worker.held /\ worker'.tasks = worker.tasks + 1
        /\ worker'.locks = worker.locks /\ worker'.queues = worker.queues
    BY <1>1, <1>13 DEF CreateTask
  <2>4. worker.tasks + 1 + Cardinality(At("newTask")') <= Cardinality(Makers)
    BY <1>1, <1>2, <2>2, OneLess
  <2>5. /\ worker.locks + Cardinality(At("lock")') <= Cardinality(Makers)
        /\ worker.queues + Cardinality(At("newQueue")') <= Cardinality(Makers)
    BY <1>1, <1>2, <1>4, <2>2
  <2> QED
    BY <1>2, <2>3, <2>4, <2>5 DEF CountsOK, Within, Mutex
<1>14. CASE TakeLock(m)
  <2>1. PICK l \in {"lock", "take", "queue", "newQueue", "task", "newTask", "give", "open"} :
          MakerGoes(m, l) /\ l = "queue"
    BY <1>14 DEF TakeLock
  <2>2. /\ At("lock")' \subseteq At("lock") /\ At("newQueue")' \subseteq At("newQueue")
        /\ At("newTask")' \subseteq At("newTask")
    BY <1>6, <2>1
  <2>3. /\ worker'.held \subseteq Mutex /\ worker'.locks = worker.locks
        /\ worker'.queues = worker.queues /\ worker'.tasks = worker.tasks
    BY <1>1, <1>2, <1>5, <1>14 DEF TakeLock
  <2>4. /\ worker.locks + Cardinality(At("lock")') <= Cardinality(Makers)
        /\ worker.queues + Cardinality(At("newQueue")') <= Cardinality(Makers)
        /\ worker.tasks + Cardinality(At("newTask")') <= Cardinality(Makers)
    BY <1>1, <1>2, <1>4, <2>2
  <2> QED
    BY <1>7, <2>3, <2>4
<1>15. CASE GiveLock(m)
  <2>1. PICK l \in {"lock", "take", "queue", "newQueue", "task", "newTask", "give", "open"} :
          MakerGoes(m, l) /\ l = "open"
    BY <1>15 DEF GiveLock
  <2>2. /\ At("lock")' \subseteq At("lock") /\ At("newQueue")' \subseteq At("newQueue")
        /\ At("newTask")' \subseteq At("newTask")
    BY <1>6, <2>1
  <2>3. /\ worker'.held \subseteq Mutex /\ worker'.locks = worker.locks
        /\ worker'.queues = worker.queues /\ worker'.tasks = worker.tasks
    BY <1>1, <1>2, <1>5, <1>15 DEF GiveLock
  <2>4. /\ worker.locks + Cardinality(At("lock")') <= Cardinality(Makers)
        /\ worker.queues + Cardinality(At("newQueue")') <= Cardinality(Makers)
        /\ worker.tasks + Cardinality(At("newTask")') <= Cardinality(Makers)
    BY <1>1, <1>2, <1>4, <2>2
  <2> QED
    BY <1>7, <2>3, <2>4
<1> QED
  BY <1>8, <1>9, <1>10, <1>11, <1>12, <1>13, <1>14, <1>15

LEMMA CountsOther ==
  ASSUME OneWorkerInv, CountsOK, CocNext,
         ~ \E m \in Makers :
             \/ Ensure(m) \/ CreateLock(m) \/ TakeLock(m) \/ LookAtQueue(m) \/ CreateQueue(m)
             \/ LookAtTask(m) \/ CreateTask(m) \/ GiveLock(m)
  PROVE  CountsOK'
<1>1. maker \in [Makers -> Maker]
  BY WorkerFields
<1>2. CASE \E m \in Makers, o \in Objects, role \in {"server", "client"} : NewChannel(m, o, role)
  <2>1. PICK m \in Makers, o \in Objects, role \in {"server", "client"} : NewChannel(m, o, role)
    BY <1>2
  <2> DEFINE r == [pc |-> "ensure", obj |-> o, role |-> role]
  <2>2. r \in Maker /\ r.pc = "ensure"
    BY DEF Maker
  <2>3. maker' = [maker EXCEPT ![m] = r] /\ UNCHANGED worker
    BY <2>1 DEF NewChannel
  <2> HIDE DEF r
  <2> QED
    BY <1>1, <2>2, <2>3, CountsStay
<1>3. CASE \E m \in Makers : MakerDone(m) /\ UNCHANGED worker
  <2>1. PICK m \in Makers : maker' = [maker EXCEPT ![m] = Idling] /\ UNCHANGED worker
    BY <1>3 DEF MakerDone
  <2>2. Idling \in Maker /\ Idling.pc = "idle"
    BY DEF Idling, Maker
  <2> QED
    BY <1>1, <2>1, <2>2, CountsStay
<1>4. CASE UNCHANGED <<worker, maker>>
  BY <1>1, <1>4, CountsStay
<1> QED
  BY <1>2, <1>3, <1>4
     DEF CocNext, MakerStep, ConnectFails, CreateService, Connect, ChannelStep, CocConnected,
         CocRefused, CocDisconnected, Extend, DataReceived, AcceptEvent, Accepted, AcceptFails,
         NextBuffer, DeleteChannel, DeleteServer, FreeBlocks, TakeBlock

LEMMA CocInvInit == CocInit => CocInv /\ CountsOK
<1> SUFFICES ASSUME CocInit PROVE CocInv /\ CountsOK
  OBVIOUS
<1>1. /\ Idling \in Maker /\ Idling.pc = "idle" /\ Down \in Link /\ Nothing \in Hold
      /\ HostIdle \in Host /\ HostIdle.pc = "idle"
  BY DEF Idling, Maker, Down, Link, Nothing, Hold, HostIdle, Host
<1> DEFINE none == [state |-> "none", free |-> 0, chan |-> NoLink]
<1>2. none \in CocRecord /\ none.state = "none" /\ none.free = 0 /\ none.chan = NoLink
  BY DEF CocRecord
<1>3. /\ worker = [lock |-> 0, locks |-> 0, held |-> {}, queues |-> 0, tasks |-> 0]
      /\ maker = [m \in Makers |-> Idling] /\ coc = [o \in Objects |-> none]
      /\ lnk = [l \in Links |-> Down] /\ held = [w \in Writers |-> Nothing] /\ host = HostIdle
      /\ seen = [raced |-> FALSE, shared |-> {}, refused |-> {}]
  BY DEF CocInit
<1> HIDE DEF none
<1>4. ShapeOK
  BY <1>1, <1>2, <1>3 DEF ShapeOK, Seen
<1>5. MakersHaveObjects /\ UsersHaveObjects /\ HandlerOK
  BY <1>1, <1>3 DEF MakersHaveObjects, UsersHaveObjects, HandlerOK, Down
<1>6. ChannelsOK
  BY <1>2, <1>3, PoolAssumption DEF ChannelsOK, Down
<1>7. NoPoolLeft /\ Balanced
  BY <1>2, <1>3 DEF NoPoolLeft, Balanced, Gone
<1>8. CountsOK
  <2>1. \A pc : Cardinality(At(pc)) <= Cardinality(Makers) /\ Cardinality(At(pc)) \in Nat
    BY AtIsFinite
  <2>2. /\ 0 + Cardinality(At("lock")) <= Cardinality(Makers)
        /\ 0 + Cardinality(At("newQueue")) <= Cardinality(Makers)
        /\ 0 + Cardinality(At("newTask")) <= Cardinality(Makers)
    BY <2>1
  <2> QED
    BY <1>3, <2>2 DEF CountsOK, Within
<1> QED
  BY <1>4, <1>5, <1>6, <1>7, <1>8 DEF CocInv

LEMMA ChannelStepKeeps ==
  ASSUME CocInv, NEW l \in Links, ChannelStep(l)
  PROVE  CocInv'
BY CocConnectedStep, CocRefusedStep, CocDisconnectedStep, ExtendStep, DataReceivedStep, AcceptEventStep
   DEF ChannelStep

LEMMA MakerStepKeeps ==
  ASSUME CocInv, NEW m \in Makers, MakerStep(m)
  PROVE  CocInv'
BY EnsureStep, ConnectFailsStep, NewChannelStep, CreateServiceStep, ConnectStep DEF MakerStep

LEMMA CocUnchanged ==
  ASSUME CocInv, UNCHANGED cocVars
  PROVE  CocInv'
<1> USE DEF cocVars
<1>1. ShapeOK' /\ MakersHaveObjects' /\ UsersHaveObjects'
  BY DEF CocInv, ShapeOK, MakersHaveObjects, UsersHaveObjects
<1>2. HandlerOK' /\ ChannelsOK' /\ NoPoolLeft'
  BY DEF CocInv, HandlerOK, ChannelsOK, NoPoolLeft
<1>3. Balanced'
  BY DEF CocInv, Balanced, Total
<1> QED
  BY <1>1, <1>2, <1>3 DEF CocInv

LEMMA CocInvStep == CocInv /\ [CocNext]_cocVars => CocInv'
<1> SUFFICES ASSUME CocInv, [CocNext]_cocVars PROVE CocInv'
  OBVIOUS
<1>1. CASE \E m \in Makers : MakerStep(m)
  BY <1>1, MakerStepKeeps
<1>2. CASE \E l \in Links : ChannelStep(l)
  BY <1>2, ChannelStepKeeps
<1>3. CASE Accepted \/ AcceptFails \/ NextBuffer
  BY <1>3, AcceptedStep, AcceptFailsStep, NextBufferStep
<1>4. CASE DeleteServer \/ \E o \in Objects : DeleteChannel(o)
  BY <1>4, DeleteServerStep, DeleteChannelStep
<1>5. CASE \E w \in Writers : FreeBlocks(w) \/ \E o \in Objects : TakeBlock(w, o)
  BY <1>5, FreeBlocksStep, TakeBlockStep
<1>6. CASE UNCHANGED cocVars
  BY <1>6, CocUnchanged
<1> QED
  BY <1>1, <1>2, <1>3, <1>4, <1>5, <1>6 DEF CocNext

LEMMA CountsOKStep == OneWorkerInv /\ CountsOK /\ [CocNext]_cocVars => CountsOK'
<1> SUFFICES ASSUME OneWorkerInv, CountsOK, [CocNext]_cocVars PROVE CountsOK'
  OBVIOUS
<1>1. CASE UNCHANGED cocVars
  <2>1. UNCHANGED <<worker, maker>> /\ maker \in [Makers -> Maker]
    BY <1>1, WorkerFields DEF cocVars
  <2> QED
    BY <2>1, CountsStay
<1>2. CASE CocNext
  BY <1>2, CountsStep, CountsOther
<1> QED
  BY <1>1, <1>2

\* The type of the state, with the bounds of what is counted.
LEMMA CocInvImpliesType == OneWorkerInv /\ CountsOK /\ CocInv => CocTypeOK
<1> SUFFICES ASSUME OneWorkerInv, CountsOK, CocInv PROVE CocTypeOK
  OBVIOUS
<1>1. ShapeOK /\ Balanced /\ NoPoolLeft
  BY DEF CocInv
<1>2. worker \in Worker
  <2>1. /\ worker \in [lock : Nat, locks : Nat, held : SUBSET Nat, queues : Nat, tasks : Nat]
        /\ worker.lock = worker.locks
        /\ worker.locks \in Nat /\ worker.queues \in Nat /\ worker.tasks \in Nat
    BY WorkerFields
  <2>2. /\ worker.locks + Cardinality(At("lock")) <= Cardinality(Makers)
        /\ worker.queues + Cardinality(At("newQueue")) <= Cardinality(Makers)
        /\ worker.tasks + Cardinality(At("newTask")) <= Cardinality(Makers)
        /\ worker.held \in SUBSET Mutex
    BY DEF CountsOK, Within
  <2>3. /\ Cardinality(At("lock")) \in Nat /\ Cardinality(At("newQueue")) \in Nat
        /\ Cardinality(At("newTask")) \in Nat /\ Cardinality(Makers) \in Nat
    BY AtIsFinite
  <2>4. worker.locks \in Mutex /\ worker.queues \in Mutex /\ worker.tasks \in Mutex
    BY <2>1, <2>2, <2>3 DEF Mutex
  <2> QED
    BY <2>1, <2>2, <2>4 DEF Worker
<1>3. coc \in [Objects -> Coc]
  <2>1. ASSUME NEW o \in Objects PROVE coc[o] \in Coc
    <3>1. coc[o] \in CocRecord /\ Blocks \in Nat
      BY <1>1, PoolAssumption DEF ShapeOK
    <3>2. coc[o].free \in 0..Blocks
      <4>1. CASE coc[o].state \in Gone
        BY <1>1, <3>1, <4>1 DEF NoPoolLeft
      <4>2. CASE coc[o].state \notin Gone
        <5>1. coc[o].free + Cardinality(BlocksIn(lnk, o)) + Cardinality(BlocksIn(held, o)) + AcceptTakes(host, o) = Blocks
          BY <1>1, <4>2 DEF Balanced, Total
        <5>2. /\ Cardinality(BlocksIn(lnk, o)) \in Nat /\ Cardinality(BlocksIn(held, o)) \in Nat
              /\ AcceptTakes(host, o) \in 0..1
          BY <1>1, CardinalitiesAre
        <5>3. coc[o].free \in Nat
          BY <3>1 DEF CocRecord
        <5> QED
          BY <3>1, <5>1, <5>2, <5>3
      <4> QED
        BY <4>1, <4>2
    <3> QED
      BY <3>1, <3>2 DEF CocRecord, Coc
  <2>2. coc \in [Objects -> CocRecord]
    BY <1>1 DEF ShapeOK
  <2> QED
    BY <2>1, <2>2
<1> QED
  BY <1>1, <1>2, <1>3 DEF CocTypeOK, ShapeOK

\* No block of an object's pool is lost or given twice, however many writers,
\* channels and tasks there are: accepting, connecting, receiving and writing
\* return what they took, on their error paths too.
THEOREM BuffersAreConserved == CocSpec => []BuffersConserved
<1>1. OneWorkerInv /\ CountsOK /\ CocInv => BuffersConserved
  BY CocInvImpliesType DEF CocInv, Balanced, Total, Gone, BuffersConserved
<1> QED
  BY <1>1, OneWorkerInit, OneWorkerStep, CocInvInit, CocInvStep, CountsOKStep, PTL DEF CocSpec

\* An object that peers do not share, and whose connection no peer refused, keeps
\* the channel that is open and no other, and what handleDataReceivedEvent()
\* asserts holds for it: a buffer is free and its channel takes it.
THEOREM TheChannelIsOpen == CocSpec => []ChannelIsOpen
<1>1. CocInv => ChannelIsOpen
  BY DEF CocInv, HandlerOK, ChannelsOK, ChannelIsOpen
<1> QED
  BY <1>1, CocInvInit, CocInvStep, PTL DEF CocSpec

-----------------------------------------------------------------------------
(* An open channel.                                                        *)

USE ChannelAssumption

\* A write that is not over has a fragment to send.
FragmentLeft ==
  \A t \in Tasks : wr[t].pc \in {"frag", "send", "stall", "clear", "wait", "woken"}
                     => wr[t].left \in 1..MaxFragments

\* The stack holds the SDU of a task only while that task waits for it, and
\* between xSemaphoreTake(m_unstallSem, 0) and TX_UNSTALLED the semaphore is
\* not given: a stale one cannot end the wait.
PendingIsAwaited ==
  \A t \in Tasks : stk.owner = t =>
    /\ wr[t].pc \in {"stall", "clear", "wait"}
    /\ ch.sem => wr[t].pc = "stall"

\* What is invariant of write() and the handlers of its events.
WriterInv ==
  /\ ch \in Channel
  /\ stk \in Stack
  /\ wr \in [Tasks -> Writer]
  /\ FragmentLeft
  /\ PendingIsAwaited

\* The handler has an SDU to queue, the worker one to read.
InHands ==
  /\ rx.adding => rx.received # 0
  /\ rx.counted => rx.hand # << >>

\* What is invariant of the deferred reads.
ReadInv ==
  /\ rx \in Reads
  /\ Len(rx.queue) <= QueueLength
  /\ InHands
  /\ PendingCountsQueue

\* The SDU that the handler has counted and not queued yet.
InHandler == IF rx.adding THEN {rx.received} ELSE {}

\* Each SDU is in one place: read, in the queue, or in the hands of the worker or
\* of the handler.
EachInOnePlace ==
  /\ IsInjective(rx.read) /\ IsInjective(rx.queue)
  /\ rx.hand # << >> => rx.hand = <<rx.hand[1]>>
  /\ ToSet(rx.read) \cap (ToSet(rx.queue) \cup ToSet(rx.hand) \cup InHandler) = {}
  /\ ToSet(rx.queue) \cap (ToSet(rx.hand) \cup InHandler) = {}
  /\ ToSet(rx.hand) \cap InHandler = {}
  /\ ToSet(rx.read) \cup ToSet(rx.queue) \cup ToSet(rx.hand) \cup InHandler = 1..rx.received

IInv == WriterInv /\ ReadInv /\ EachInOnePlace

-----------------------------------------------------------------------------
\* The next fragment, or the end of the write: what both leave of the writer.
LEMMA DoneLemma ==
  ASSUME WriterInv, NEW t \in Tasks, NEW lost \in BOOLEAN,
         wr[t].pc \in {"send", "woken"}, stk.owner # t, FragmentDone(t, lost),
         UNCHANGED stk, ch' \in Channel, ch'.sem => ch.sem
  PROVE  WriterInv'
<1>1. wr[t] \in Writer /\ wr[t].left \in 1..MaxFragments
  BY DEF WriterInv, FragmentLeft
<1> DEFINE r == [pc |-> IF wr[t].left = 1 THEN "sent" ELSE "frag",
                 left |-> wr[t].left - 1, tries |-> RetryCounter, mine |-> FALSE,
                 lost |-> wr[t].lost \/ lost]
<1>2. /\ r \in Writer
      /\ r.pc = "frag" => r.left \in 1..MaxFragments
      /\ r.pc \in {"frag", "sent"}
  BY <1>1 DEF Writer
<1>3. wr' = [wr EXCEPT ![t] = r]
  BY DEF FragmentDone
<1> HIDE DEF r
<1>4. wr' \in [Tasks -> Writer]
  BY <1>2, <1>3 DEF WriterInv
<1>5. FragmentLeft'
  BY <1>2, <1>3 DEF WriterInv, FragmentLeft
<1>6. PendingIsAwaited'
  BY <1>2, <1>3 DEF WriterInv, PendingIsAwaited
<1> QED
  BY <1>4, <1>5, <1>6 DEF WriterInv

\* A step of a writer to a place where it waits for nothing it did not wait for.
LEMMA GotoLemma ==
  ASSUME WriterInv, NEW t \in Tasks, NEW l, Goto(t, l),
         \/ wr[t].pc \in {"frag", "woken"} /\ l = "send"
         \/ wr[t].pc = "send" /\ l = "failed"
         \/ wr[t].pc = "stall" /\ l = "clear" /\ ~ch'.sem
         \/ wr[t].pc = "clear" /\ l = "wait"
         \/ wr[t].pc = "wait" /\ l = "woken" /\ ch.sem,
         UNCHANGED stk, ch' \in Channel, ch'.sem => ch.sem
  PROVE  WriterInv'
<1>1. wr[t] \in Writer
  BY DEF WriterInv
<1> DEFINE r == [wr[t] EXCEPT !.pc = l]
<1>2. r \in Writer /\ r.pc = l /\ r.left = wr[t].left
  BY <1>1 DEF Writer
<1>3. wr' = [wr EXCEPT ![t] = r]
  BY DEF Goto
<1> HIDE DEF r
<1>4. wr' \in [Tasks -> Writer]
  BY <1>2, <1>3 DEF WriterInv
<1>5. FragmentLeft'
  BY <1>2, <1>3 DEF WriterInv, FragmentLeft
<1>6. PendingIsAwaited'
  BY <1>2, <1>3 DEF WriterInv, PendingIsAwaited
<1> QED
  BY <1>4, <1>5, <1>6 DEF WriterInv

\* Every step of a writing task keeps WriterInv.
LEMMA WriterKeeps ==
  ASSUME WriterInv, NEW t \in Tasks, WriteStep(t)
  PROVE  WriterInv'
<1>0. /\ wr[t] \in Writer
      /\ ch \in Channel /\ stk \in Stack
  BY DEF WriterInv
<1>1. CASE FoundStalled(t)
  <2> DEFINE r == [wr[t] EXCEPT !.pc = "clear", !.mine = FALSE]
  <2>1. r \in Writer /\ r.pc = "clear" /\ r.left = wr[t].left
    BY <1>0 DEF Writer
  <2>2. wr' = [wr EXCEPT ![t] = r]
    BY <1>1 DEF FoundStalled, Await
  <2> HIDE DEF r
  <2>3. ch' \in Channel /\ ~ch'.sem
    BY <1>0, <1>1 DEF FoundStalled, Channel
  <2>4. wr' \in [Tasks -> Writer]
    BY <2>1, <2>2 DEF WriterInv
  <2>5. FragmentLeft'
    BY <1>1, <2>1, <2>2 DEF WriterInv, FragmentLeft, FoundStalled
  <2>6. PendingIsAwaited'
    BY <1>1, <2>1, <2>2, <2>3 DEF WriterInv, PendingIsAwaited, FoundStalled
  <2> QED
    BY <1>0, <1>1, <2>3, <2>4, <2>5, <2>6 DEF WriterInv, FoundStalled
<1>2. CASE NotStalled(t)
  BY <1>0, <1>2, GotoLemma DEF NotStalled
<1>3. CASE SendDone(t)
  BY <1>0, <1>3, DoneLemma DEF SendDone, Accepts
<1>4. CASE SendStalled(t)
  <2> DEFINE r == [wr[t] EXCEPT !.pc = "stall", !.mine = TRUE]
  <2>1. r \in Writer /\ r.pc = "stall" /\ r.left = wr[t].left
    BY <1>0 DEF Writer
  <2>2. wr' = [wr EXCEPT ![t] = r]
    BY <1>4 DEF SendStalled, Await
  <2> HIDE DEF r
  <2>3. stk' \in Stack /\ stk'.owner = t
    BY <1>0, <1>4 DEF SendStalled, Stack
  <2>4. wr' \in [Tasks -> Writer]
    BY <2>1, <2>2 DEF WriterInv
  <2>5. FragmentLeft'
    BY <1>4, <2>1, <2>2 DEF WriterInv, FragmentLeft, SendStalled
  <2>6. PendingIsAwaited'
    BY <2>1, <2>2, <2>3 DEF WriterInv, PendingIsAwaited
  <2> QED
    BY <1>0, <1>4, <2>3, <2>4, <2>5, <2>6 DEF WriterInv, SendStalled
<1>5. CASE SendBusy(t)
  <2> DEFINE r == IF wr[t].tries > 1 THEN [wr[t] EXCEPT !.tries = @ - 1]
                                     ELSE [wr[t] EXCEPT !.pc = "failed"]
  <2>1. r \in Writer /\ r.pc \in {"send", "failed"} /\ r.left = wr[t].left
    BY <1>0, <1>5 DEF Writer, SendBusy
  <2>2. wr' = [wr EXCEPT ![t] = r]
    BY <1>5 DEF SendBusy
  <2> HIDE DEF r
  <2>4. wr' \in [Tasks -> Writer]
    BY <2>1, <2>2 DEF WriterInv
  <2>5. FragmentLeft'
    BY <1>5, <2>1, <2>2 DEF WriterInv, FragmentLeft, SendBusy
  <2>6. PendingIsAwaited'
    BY <1>5, <2>1, <2>2 DEF WriterInv, PendingIsAwaited, SendBusy
  <2> QED
    BY <1>0, <1>5, <2>4, <2>5, <2>6 DEF WriterInv, SendBusy
<1>6. CASE SendRefused(t)
  <2>1. stk.owner # t
    BY <1>6 DEF SendRefused, WriterInv, PendingIsAwaited
  <2> QED
    BY <1>0, <1>6, <2>1, DoneLemma DEF SendRefused
<1>7. CASE SendImpossible(t)
  BY <1>0, <1>7, GotoLemma DEF SendImpossible
<1>8. CASE Stall(t)
  <2>1. ch' \in Channel /\ ~ch'.sem
    BY <1>0, <1>8 DEF Stall, Channel
  <2> QED
    BY <1>8, <2>1, GotoLemma DEF Stall
<1>9. CASE ClearStatus(t)
  <2>1. ch' \in Channel /\ ch'.sem = ch.sem
    BY <1>0, <1>9 DEF ClearStatus, Channel
  <2> QED
    BY <1>9, <2>1, GotoLemma DEF ClearStatus
<1>10. CASE Wake(t)
  <2>1. ch' \in Channel /\ ~ch'.sem
    BY <1>0, <1>10 DEF Wake, Channel
  <2> QED
    BY <1>10, <2>1, GotoLemma DEF Wake
<1>11. CASE Resume(t)
  <2>1. ch' \in Channel /\ ch'.sem = ch.sem
    BY <1>0, <1>11 DEF Resume, Channel
  <2>2. stk.owner # t
    BY <1>11 DEF Resume, WriterInv, PendingIsAwaited
  <2>3. CASE \E lost \in BOOLEAN : FragmentDone(t, lost)
    BY <1>11, <2>1, <2>2, <2>3, DoneLemma DEF Resume
  <2>4. CASE Goto(t, "send")
    BY <1>11, <2>1, <2>4, GotoLemma DEF Resume
  <2> QED
    BY <1>11, <2>3, <2>4 DEF Resume
<1>12. CASE WriteFails(t) \/ WriteReturns(t)
  <2>1. NotWriting \in Writer /\ NotWriting.pc = "idle"
    BY DEF NotWriting, Writer
  <2>2. wr' = [wr EXCEPT ![t] = NotWriting] /\ UNCHANGED ch
    BY <1>12 DEF WriteFails, WriteReturns
  <2>3. stk' \in Stack /\ stk'.owner = stk.owner
    BY <1>0, <1>12 DEF WriteFails, WriteReturns, Stack, Channel
  <2>4. wr' \in [Tasks -> Writer]
    BY <2>1, <2>2 DEF WriterInv
  <2>5. FragmentLeft'
    BY <2>1, <2>2 DEF WriterInv, FragmentLeft
  <2>6. PendingIsAwaited'
    BY <1>12, <2>1, <2>2, <2>3 DEF WriterInv, PendingIsAwaited, WriteFails, WriteReturns
  <2> QED
    BY <1>0, <2>2, <2>3, <2>4, <2>5, <2>6 DEF WriterInv
<1> QED
  BY <1>1, <1>2, <1>3, <1>4, <1>5, <1>6, <1>7, <1>8, <1>9, <1>10, <1>11, <1>12
     DEF WriteStep

\* A new write, disconnect() and the handlers keep WriterInv.
LEMMA HandlersKeep ==
  ASSUME WriterInv,
         \/ \E t \in Tasks, n \in 1..MaxFragments : Write(t, n)
         \/ Disconnect
         \/ HandleConnection \/ HandleDisconnection
         \/ \E status \in {"ok", "failed"} : HandleTxUnstalled(status)
         \/ UNCHANGED <<ch, stk, wr>>
  PROVE  WriterInv'
<1>0. ch \in Channel /\ stk \in Stack /\ wr \in [Tasks -> Writer]
  BY DEF WriterInv
<1>a. /\ PendingLost \in [Tasks -> Writer]
      /\ \A t \in Tasks : /\ PendingLost[t].pc = wr[t].pc
                          /\ PendingLost[t].left = wr[t].left
  BY <1>0 DEF PendingLost, Writer
<1>b. \A open \in BOOLEAN : Reset(open) \in Channel /\ ~Reset(open).sem
  BY DEF Reset, Channel
<1>1. ASSUME NEW t \in Tasks, NEW n \in 1..MaxFragments, Write(t, n)
      PROVE  WriterInv'
  <2> DEFINE r == [NotWriting EXCEPT !.pc = "frag", !.left = n]
  <2>0. NotWriting \in Writer
    BY DEF NotWriting, Writer
  <2>a. n \in 0..MaxFragments
    OBVIOUS
  <2>1. r \in Writer /\ r.pc = "frag" /\ r.left = n
    BY <2>0, <2>a DEF Writer
  <2>2. wr' = [wr EXCEPT ![t] = r] /\ UNCHANGED <<ch, stk>> /\ wr[t].pc = "idle"
    BY <1>1 DEF Write
  <2> HIDE DEF r
  <2>4. wr' \in [Tasks -> Writer]
    BY <1>0, <2>1, <2>2
  <2>5. FragmentLeft'
    BY <1>0, <2>1, <2>2 DEF WriterInv, FragmentLeft
  <2>6. PendingIsAwaited'
    BY <1>0, <2>1, <2>2 DEF WriterInv, PendingIsAwaited
  <2> QED
    BY <1>0, <2>2, <2>4, <2>5, <2>6 DEF WriterInv
<1>2. CASE Disconnect
  <2>1. stk' \in Stack /\ stk'.owner = stk.owner
    BY <1>0, <1>2 DEF Disconnect, Stack
  <2> QED
    BY <1>2, <2>1 DEF Disconnect, WriterInv, FragmentLeft, PendingIsAwaited
<1>3. CASE HandleConnection
  <2>1. stk' \in Stack /\ stk'.owner = NoTask
    BY <1>3 DEF HandleConnection, Stack
  <2> QED
    BY <1>3, <1>b, <2>1 DEF HandleConnection, WriterInv, FragmentLeft, PendingIsAwaited
<1>4. CASE HandleDisconnection
  <2>1. stk' \in Stack /\ stk'.owner = NoTask
    BY <1>4 DEF HandleDisconnection, Stack
  <2> QED
    BY <1>4, <1>a, <1>b, <2>1
       DEF HandleDisconnection, WriterInv, FragmentLeft, PendingIsAwaited
<1>5. ASSUME NEW status \in {"ok", "failed"}, HandleTxUnstalled(status)
      PROVE  WriterInv'
  <2>1. stk' \in Stack /\ stk'.owner = NoTask
    BY <1>0, <1>5 DEF HandleTxUnstalled, Stack
  <2>2. ch' \in Channel
    BY <1>0, <1>5 DEF HandleTxUnstalled, Channel
  <2>3. wr' = wr \/ wr' = PendingLost
    BY <1>5 DEF HandleTxUnstalled
  <2> QED
    BY <1>a, <2>1, <2>2, <2>3 DEF WriterInv, FragmentLeft, PendingIsAwaited
<1>6. CASE UNCHANGED <<ch, stk, wr>>
  BY <1>6 DEF WriterInv, FragmentLeft, PendingIsAwaited
<1> QED
  BY <1>1, <1>2, <1>3, <1>4, <1>5, <1>6

\* What the handler and the worker do with received SDUs keeps ReadInv.
LEMMA ReadsKeep ==
  ASSUME ReadInv,
         \/ HandleDataReceived \/ QueueRead \/ ReadInline \/ WorkerStep
         \/ UNCHANGED rx
  PROVE  ReadInv'
<1>0. /\ rx \in Reads /\ Len(rx.queue) \in Nat
      /\ rx.queue \in Seq(1..MaxSdus) /\ rx.read \in Seq(1..MaxSdus)
      /\ rx.hand \in Seq(1..MaxSdus)
      /\ rx.pending \in Nat /\ rx.received \in 0..MaxSdus
  BY DEF ReadInv, Reads
\* The counter, as a sum of numbers.
<1> DEFINE Adding == IF rx.adding THEN 1 ELSE 0
           Held   == IF rx.hand # << >> /\ ~rx.counted THEN 1 ELSE 0
<1>z. /\ Adding \in 0..1 /\ Held \in 0..1
      /\ rx.pending = Len(rx.queue) + Adding + Held
  BY DEF ReadInv, PendingCountsQueue
<1>y. /\ rx.adding => Adding = 1
      /\ ~rx.adding => Adding = 0
      /\ rx.hand # << >> /\ ~rx.counted => Held = 1
  OBVIOUS
<1> HIDE DEF Adding, Held
<1>1. CASE HandleDataReceived
  <2>0. rx.received < MaxSdus
    BY <1>1 DEF HandleDataReceived
  <2>1. rx.received + 1 \in 0..MaxSdus /\ rx.received + 1 # 0 /\ rx.pending + 1 \in Nat
    BY <1>0, <2>0
  <2>2. rx' = [rx EXCEPT !.received = rx.received + 1, !.adding = TRUE,
                         !.pending = rx.pending + 1]
    BY <1>1 DEF HandleDataReceived
  <2>3. rx' \in Reads
    BY <1>0, <2>1, <2>2 DEF Reads
  <2>4. /\ rx'.adding /\ ~rx.adding /\ rx'.received # 0
        /\ rx'.queue = rx.queue /\ rx'.hand = rx.hand /\ rx'.counted = rx.counted
        /\ rx'.pending = rx.pending + 1
    BY <1>0, <1>1, <2>1, <2>2 DEF HandleDataReceived, HostIsFree, Reads
  <2>5. PendingCountsQueue'
    <3>1. /\ (IF rx'.adding THEN 1 ELSE 0) = 1
          /\ (IF rx'.hand # << >> /\ ~rx'.counted THEN 1 ELSE 0) = Held
          /\ Adding = 0
      BY <1>y, <2>4 DEF Held
    <3>2. /\ rx'.pending = rx.pending + 1 /\ rx'.queue = rx.queue
          /\ rx.pending = Len(rx.queue) + Held
      BY <1>0, <1>z, <2>4, <3>1
    <3>3. rx'.pending = Len(rx'.queue) + 1 + Held
      BY <1>0, <1>z, <3>2
    <3> QED
      BY <3>1, <3>3 DEF PendingCountsQueue
  <2> QED
    BY <2>3, <2>4, <2>5 DEF ReadInv, InHands
<1>2. CASE QueueRead
  <2>1. rx.received \in 1..MaxSdus
    BY <1>0, <1>2 DEF QueueRead, ReadInv, InHands
  <2>2. /\ Append(rx.queue, rx.received) \in Seq(1..MaxSdus)
        /\ Len(Append(rx.queue, rx.received)) = Len(rx.queue) + 1
    BY <1>0, <2>1
  <2>3. rx' \in Reads
    BY <1>0, <1>2, <2>2 DEF QueueRead, Reads
  <2> QED
    BY <1>0, <1>2, <2>2, <2>3 DEF QueueRead, HasRoom, ReadInv, InHands, PendingCountsQueue, Reads
<1>3. CASE ReadInline
  <2>1. rx.received \in 1..MaxSdus
    BY <1>0, <1>3 DEF ReadInline, ReadInv, InHands
  <2>2. Append(rx.read, rx.received) \in Seq(1..MaxSdus)
    BY <1>0, <2>1
  <2>a. Adding = 1
    BY <1>3, <1>y DEF ReadInline
  <2>3. rx.pending - 1 \in Nat
    BY <1>0, <1>z, <2>a
  <2>4. rx' \in Reads
    BY <1>0, <1>3, <2>2, <2>3 DEF ReadInline, Reads
  <2> QED
    BY <1>0, <1>3, <2>4 DEF ReadInline, ReadInv, InHands, PendingCountsQueue, Reads
<1>4. CASE Receive
  <2>1. /\ Tail(rx.queue) \in Seq(1..MaxSdus)
        /\ <<Head(rx.queue)>> \in Seq(1..MaxSdus)
        /\ <<Head(rx.queue)>> # << >>
        /\ Len(Tail(rx.queue)) = Len(rx.queue) - 1
        /\ Len(rx.queue) > 0
    <3>1. rx.queue # << >>
      BY <1>4 DEF Receive
    <3>2. Head(rx.queue) \in 1..MaxSdus
      BY <1>0, <3>1
    <3> QED
      <4>1. Len(rx.queue) \in Nat /\ Len(rx.queue) # 0
        BY <1>0, <3>1
      <4>2. Tail(rx.queue) \in Seq(1..MaxSdus) /\ Len(Tail(rx.queue)) = Len(rx.queue) - 1
        BY <1>0, <3>1, HeadTailProperties
      <4>3. <<Head(rx.queue)>> \in Seq(1..MaxSdus)
        BY <3>2
      <4>4. <<Head(rx.queue)>> # << >>
        OBVIOUS
      <4> QED
        BY <4>1, <4>2, <4>3, <4>4
  <2>2. rx' \in Reads
    BY <1>0, <1>4, <2>1 DEF Receive, Reads
  <2>3. /\ rx.hand = << >> /\ rx'.hand # << >> /\ ~rx.counted
        /\ rx'.counted = rx.counted /\ rx'.adding = rx.adding
        /\ rx'.pending = rx.pending /\ Len(rx'.queue) = Len(rx.queue) - 1
        /\ rx'.received = rx.received
    BY <1>0, <1>4, <2>1 DEF Receive, ReadInv, InHands, Reads
  <2>4. PendingCountsQueue'
    <3>1. /\ (IF rx'.adding THEN 1 ELSE 0) = Adding
          /\ (IF rx'.hand # << >> /\ ~rx'.counted THEN 1 ELSE 0) = 1
      BY <2>3 DEF Adding
    <3>2. Held = 0
      BY <2>3 DEF Held
    <3>3. rx'.pending = Len(rx'.queue) + Adding + 1
      BY <1>0, <1>z, <2>1, <2>3, <3>2
    <3> QED
      BY <3>1, <3>3 DEF PendingCountsQueue
  <2> QED
    BY <1>0, <2>1, <2>2, <2>3, <2>4 DEF ReadInv, InHands
<1>5. CASE CountDown
  <2>a. Held = 1
    BY <1>5, <1>y DEF CountDown
  <2>1. rx.pending - 1 \in Nat
    BY <1>0, <1>z, <2>a
  <2>2. rx' \in Reads
    BY <1>0, <1>5, <2>1 DEF CountDown, Reads
  <2> QED
    BY <1>0, <1>5, <2>2 DEF CountDown, ReadInv, InHands, PendingCountsQueue, Reads
<1>6. CASE OnRead
  <2>1. rx.hand # << >>
    BY <1>6 DEF OnRead, ReadInv, InHands
  <2>2. Append(rx.read, Head(rx.hand)) \in Seq(1..MaxSdus)
    BY <1>0, <2>1
  <2>3. rx' \in Reads
    <3>1. << >> \in Seq(1..MaxSdus)
      OBVIOUS
    <3>2. rx' = [rx EXCEPT !.hand = << >>, !.counted = FALSE,
                           !.read = Append(rx.read, Head(rx.hand))]
      BY <1>6 DEF OnRead
    <3> QED
      BY <1>0, <2>2, <3>1, <3>2 DEF Reads
  <2> QED
    BY <1>0, <1>6, <2>3 DEF OnRead, ReadInv, InHands, PendingCountsQueue, Reads
<1>7. CASE UNCHANGED rx
  BY <1>7 DEF ReadInv, InHands, PendingCountsQueue
<1> QED
  BY <1>1, <1>2, <1>3, <1>4, <1>5, <1>6, <1>7 DEF WorkerStep

LEMMA OneInHand ==
  ASSUME NEW S, NEW a \in S
  PROVE  <<a>> \in Seq(S) /\ ToSet(<<a>>) = {a} /\ IsInjective(<<a>>) /\ <<a>> # << >> /\ Head(<<a>>) = a
BY DEF ToSet, IsInjective

LEMMA NoneInHand ==
  ASSUME NEW S
  PROVE  << >> \in Seq(S) /\ ToSet(<< >>) = {} /\ IsInjective(<< >>)
BY DEF ToSet, IsInjective

LEMMA EachInOnePlaceStep ==
  ASSUME ReadInv, EachInOnePlace,
         \/ HandleDataReceived \/ QueueRead \/ ReadInline \/ WorkerStep
         \/ UNCHANGED rx
  PROVE  EachInOnePlace'
<1> DEFINE S == 1..MaxSdus
<1>0. /\ rx \in Reads /\ rx.queue \in Seq(S) /\ rx.read \in Seq(S) /\ rx.hand \in Seq(S)
      /\ rx.received \in 0..MaxSdus
  BY DEF ReadInv, Reads
<1>a. /\ rx.adding => rx.received \in S
      /\ rx.counted => rx.hand # << >>
  BY <1>0 DEF ReadInv, InHands
<1>b. /\ ToSet(rx.queue) \subseteq S /\ ToSet(rx.read) \subseteq S /\ ToSet(rx.hand) \subseteq S
  BY <1>0, Members
<1>c. /\ IsInjective(rx.read) /\ IsInjective(rx.queue)
      /\ ToSet(rx.read) \cap (ToSet(rx.queue) \cup ToSet(rx.hand) \cup InHandler) = {}
      /\ ToSet(rx.queue) \cap (ToSet(rx.hand) \cup InHandler) = {}
      /\ ToSet(rx.hand) \cap InHandler = {}
      /\ ToSet(rx.read) \cup ToSet(rx.queue) \cup ToSet(rx.hand) \cup InHandler = 1..rx.received
  BY DEF EachInOnePlace
<1>d. rx.hand # << >> => rx.hand[1] \in S /\ ToSet(rx.hand) = {rx.hand[1]} /\ Head(rx.hand) = rx.hand[1]
  <2>1. ASSUME rx.hand # << >> PROVE rx.hand[1] \in S /\ ToSet(rx.hand) = {rx.hand[1]} /\ Head(rx.hand) = rx.hand[1]
    <3>0. rx.hand = <<rx.hand[1]>> /\ Head(rx.hand) \in S
      <4> HIDE DEF S
      <4> QED
        BY <1>0, <2>1, HeadTailProperties DEF EachInOnePlace
    <3>1. rx.hand = <<rx.hand[1]>> /\ Head(rx.hand) = rx.hand[1] /\ rx.hand[1] \in S
      <4>1. Head(<<rx.hand[1]>>) = rx.hand[1]
        OBVIOUS
      <4> QED
        BY <3>0, <4>1
    <3>2. ToSet(<<rx.hand[1]>>) = {rx.hand[1]}
      BY <3>1, OneInHand
    <3> QED
      BY <3>1, <3>2
  <2> QED
    BY <2>1
<1> HIDE DEF S
<1>1. CASE HandleDataReceived
  <2>1. /\ rx'.read = rx.read /\ rx'.queue = rx.queue /\ rx'.hand = rx.hand
        /\ rx'.adding /\ rx'.received = rx.received + 1 /\ ~rx.adding
    BY <1>0, <1>1 DEF HandleDataReceived, HostIsFree, Reads
  <2>2. InHandler = {} /\ InHandler' = {rx.received + 1}
    BY <2>1 DEF InHandler
  <2>3. 1..(rx.received + 1) = (1..rx.received) \cup {rx.received + 1} /\ rx.received + 1 \notin 1..rx.received
    BY <1>0
  <2> QED
    BY <1>c, <2>1, <2>2, <2>3 DEF EachInOnePlace
<1>2. CASE QueueRead
  <2>1. /\ rx'.read = rx.read /\ rx'.queue = Append(rx.queue, rx.received) /\ rx'.hand = rx.hand
        /\ ~rx'.adding /\ rx'.received = rx.received /\ rx.adding
    BY <1>0, <1>2 DEF QueueRead, Reads
  <2>2. InHandler = {rx.received} /\ InHandler' = {}
    BY <2>1 DEF InHandler
  <2>3. rx.received \notin ToSet(rx.queue)
    BY <1>c, <2>2
  <2>4. IsInjective(rx'.queue) /\ ToSet(rx'.queue) = ToSet(rx.queue) \cup {rx.received}
    BY <1>0, <1>a, <1>c, <2>1, <2>3, AppendLemma
  <2> QED
    BY <1>c, <2>1, <2>2, <2>4 DEF EachInOnePlace
<1>3. CASE ReadInline
  <2>1. /\ rx'.read = Append(rx.read, rx.received) /\ rx'.queue = rx.queue /\ rx'.hand = rx.hand
        /\ ~rx'.adding /\ rx'.received = rx.received /\ rx.adding
    BY <1>0, <1>3 DEF ReadInline, Reads
  <2>2. InHandler = {rx.received} /\ InHandler' = {}
    BY <2>1 DEF InHandler
  <2>3. rx.received \notin ToSet(rx.read)
    BY <1>c, <2>2
  <2>4. IsInjective(rx'.read) /\ ToSet(rx'.read) = ToSet(rx.read) \cup {rx.received}
    BY <1>0, <1>a, <1>c, <2>1, <2>3, AppendLemma
  <2> QED
    BY <1>c, <2>1, <2>2, <2>4 DEF EachInOnePlace
<1>4. CASE Receive
  <2>1. /\ rx'.read = rx.read /\ rx'.queue = Tail(rx.queue) /\ rx'.hand = <<Head(rx.queue)>>
        /\ rx'.adding = rx.adding /\ rx'.received = rx.received
        /\ rx.hand = << >> /\ rx.queue # << >>
    BY <1>0, <1>4 DEF Receive, Reads
  <2>2. InHandler' = InHandler
    BY <2>1 DEF InHandler
  <2>3. ToSet(rx.hand) = {}
    BY <2>1, NoneInHand
  <2>4. /\ Head(rx.queue) \in S /\ IsInjective(Tail(rx.queue)) /\ Head(rx.queue) \notin ToSet(Tail(rx.queue))
        /\ ToSet(rx.queue) = {Head(rx.queue)} \cup ToSet(Tail(rx.queue))
    BY <1>0, <1>c, <2>1, TailLemma
  <2>5. ToSet(rx'.hand) = {Head(rx.queue)} /\ rx'.hand = <<rx'.hand[1]>>
    BY <2>1, <2>4, OneInHand
  <2> QED
    BY <1>c, <2>1, <2>2, <2>3, <2>4, <2>5 DEF EachInOnePlace
<1>5. CASE CountDown \/ UNCHANGED rx
  <2>1. /\ rx'.read = rx.read /\ rx'.queue = rx.queue /\ rx'.hand = rx.hand
        /\ rx'.adding = rx.adding /\ rx'.received = rx.received
    BY <1>0, <1>5 DEF CountDown, Reads
  <2>2. InHandler' = InHandler
    BY <2>1 DEF InHandler
  <2> QED
    BY <2>1, <2>2 DEF EachInOnePlace
<1>6. CASE OnRead
  <2>1. /\ rx'.read = Append(rx.read, Head(rx.hand)) /\ rx'.queue = rx.queue /\ rx'.hand = << >>
        /\ rx'.adding = rx.adding /\ rx'.received = rx.received /\ rx.hand # << >>
    BY <1>0, <1>6, <1>a DEF OnRead, Reads
  <2>2. InHandler' = InHandler
    BY <2>1 DEF InHandler
  <2>3. Head(rx.hand) \in S /\ ToSet(rx.hand) = {Head(rx.hand)} /\ Head(rx.hand) \notin ToSet(rx.read)
    BY <1>c, <1>d, <2>1
  <2>4. IsInjective(rx'.read) /\ ToSet(rx'.read) = ToSet(rx.read) \cup {Head(rx.hand)}
    BY <1>0, <1>c, <2>1, <2>3, AppendLemma
  <2>5. ToSet(rx'.hand) = {}
    BY <2>1, NoneInHand
  <2> QED
    BY <1>c, <2>1, <2>2, <2>3, <2>4, <2>5 DEF EachInOnePlace
<1> QED
  BY <1>1, <1>2, <1>3, <1>4, <1>5, <1>6 DEF WorkerStep

LEMMA EachInOnePlaceImplies == ReadInv /\ EachInOnePlace => ReadsConserved
<1> SUFFICES ASSUME ReadInv, EachInOnePlace PROVE ReadsConserved
  OBVIOUS
<1> DEFINE S == 1..MaxSdus
           last == IF rx.adding THEN <<rx.received>> ELSE << >>
           one == rx.queue \o rx.hand
           two == one \o last
           all == rx.read \o two
<1>1. /\ rx.queue \in Seq(S) /\ rx.read \in Seq(S) /\ rx.hand \in Seq(S) /\ (rx.adding => rx.received \in S)
  BY DEF ReadInv, Reads, InHands
<1>2. last \in Seq(S) /\ IsInjective(last) /\ ToSet(last) = InHandler
  <2>1. CASE rx.adding
    <3>1. last = <<rx.received>> /\ InHandler = {rx.received}
      BY <2>1 DEF InHandler
    <3> HIDE DEF last
    <3> QED
      BY <1>1, <2>1, <3>1, OneInHand
  <2>2. CASE ~rx.adding
    <3>1. last = << >> /\ InHandler = {}
      BY <2>2 DEF InHandler
    <3> HIDE DEF last
    <3> QED
      BY <3>1, NoneInHand
  <2> QED
    BY <2>1, <2>2
<1>3. IsInjective(rx.hand)
  <2>1. CASE rx.hand = << >>
    BY <2>1, NoneInHand
  <2>2. CASE rx.hand # << >>
    <3>0. rx.hand = <<rx.hand[1]>> /\ Head(rx.hand) \in S
      <4> HIDE DEF S
      <4> QED
        BY <1>1, <2>2, HeadTailProperties DEF EachInOnePlace
    <3>1. rx.hand = <<rx.hand[1]>> /\ rx.hand[1] \in S
      <4>1. Head(<<rx.hand[1]>>) = rx.hand[1]
        OBVIOUS
      <4> QED
        BY <3>0, <4>1
    <3>2. IsInjective(<<rx.hand[1]>>)
      BY <3>1, OneInHand
    <3> QED
      BY <3>1, <3>2
  <2> QED
    BY <2>1, <2>2
<1>4. /\ IsInjective(rx.read) /\ IsInjective(rx.queue)
      /\ ToSet(rx.read) \cap (ToSet(rx.queue) \cup ToSet(rx.hand) \cup InHandler) = {}
      /\ ToSet(rx.queue) \cap (ToSet(rx.hand) \cup InHandler) = {}
      /\ ToSet(rx.hand) \cap InHandler = {}
      /\ ToSet(rx.read) \cup ToSet(rx.queue) \cup ToSet(rx.hand) \cup InHandler = 1..rx.received
  BY DEF EachInOnePlace
<1> HIDE DEF S, last
<1>5. one \in Seq(S) /\ ToSet(one) = ToSet(rx.queue) \cup ToSet(rx.hand) /\ IsInjective(one)
  BY <1>1, <1>3, <1>4, ConcatLemma
<1> HIDE DEF one
<1>6. two \in Seq(S) /\ ToSet(two) = ToSet(one) \cup InHandler /\ IsInjective(two)
  BY <1>2, <1>4, <1>5, ConcatLemma
<1> HIDE DEF two
<1>7. IsInjective(all) /\ ToSet(all) = 1..rx.received
  <2>1. ToSet(rx.read) \cap ToSet(two) = {}
    BY <1>4, <1>5, <1>6
  <2>2. IsInjective(all) /\ ToSet(all) = ToSet(rx.read) \cup ToSet(two)
    BY <1>1, <1>4, <1>6, <2>1, ConcatLemma
  <2>3. ToSet(rx.read) \cup ToSet(two) = 1..rx.received
    BY <1>4, <1>5, <1>6
  <2> QED
    BY <2>2, <2>3
<1> QED
  BY <1>7 DEF all, two, one, last, ReadsConserved

-----------------------------------------------------------------------------
\* The inductive invariant: a task's SDU is pending in the stack only while the
\* task waits for TX_UNSTALLED with the semaphore taken, and the SDUs in the
\* queue and in the hands of handler and worker are counted.
THEOREM Invariance == Spec => []IInv
<1>1. Init => IInv
  <2> SUFFICES ASSUME Init PROVE IInv
    OBVIOUS
  <2>1. NotWriting \in Writer /\ NotWriting.pc = "idle"
    BY DEF NotWriting, Writer
  <2>2. WriterInv
    BY <2>1 DEF Init, WriterInv, Channel, Stack, FragmentLeft, PendingIsAwaited
  <2>3. ReadInv
    BY DEF Init, ReadInv, Reads, InHands, PendingCountsQueue
  <2>4. EachInOnePlace
    BY NoneInHand DEF Init, EachInOnePlace, InHandler
  <2> QED
    BY <2>2, <2>3, <2>4 DEF IInv
<1>2. IInv /\ [Next]_vars => IInv'
  <2> SUFFICES ASSUME IInv, [Next]_vars PROVE IInv'
    OBVIOUS
  <2>1. WriterInv /\ ReadInv /\ EachInOnePlace
    BY DEF IInv
  <2>2. CASE \E t \in Tasks : WriteStep(t)
    <3>1. PICK t \in Tasks : WriteStep(t)
      BY <2>2
    <3>2. UNCHANGED rx
      BY <3>1 DEF WriteStep, FoundStalled, NotStalled, SendDone, SendStalled, SendBusy,
        SendRefused, SendImpossible, Stall, ClearStatus, Wake, Resume, WriteFails, WriteReturns
    <3> QED
      BY <2>1, <3>1, <3>2, WriterKeeps, ReadsKeep, EachInOnePlaceStep DEF IInv
  <2>3. CASE \/ \E t \in Tasks, n \in 1..MaxFragments : Write(t, n)
             \/ Disconnect
             \/ HandleConnection \/ HandleDisconnection
             \/ \E status \in {"ok", "failed"} : HandleTxUnstalled(status)
    <3>1. UNCHANGED rx
      BY <2>3 DEF Write, Disconnect, HandleConnection, HandleDisconnection, HandleTxUnstalled
    <3> QED
      BY <2>1, <2>3, <3>1, HandlersKeep, ReadsKeep, EachInOnePlaceStep DEF IInv
  <2>4. CASE HandleDataReceived \/ QueueRead \/ ReadInline \/ WorkerStep
    <3>1. UNCHANGED <<ch, stk, wr>>
      BY <2>4 DEF HandleDataReceived, QueueRead, ReadInline, WorkerStep, Receive, CountDown, OnRead
    <3> QED
      BY <2>1, <2>4, <3>1, HandlersKeep, ReadsKeep, EachInOnePlaceStep DEF IInv
  <2>5. CASE UNCHANGED vars
    <3>1. UNCHANGED <<ch, stk, wr>> /\ UNCHANGED rx
      BY <2>5 DEF vars
    <3> QED
      BY <2>1, <3>1, HandlersKeep, ReadsKeep, EachInOnePlaceStep DEF IInv
  <2> QED
    BY <2>2, <2>3, <2>4, <2>5 DEF Next
<1> QED
  BY <1>1, <1>2, PTL DEF Spec

\* The types of the channel, and the bound of the queue of deferred reads.
THEOREM TypeCorrect == Spec => []TypeOK
<1>1. IInv => TypeOK
  BY DEF IInv, WriterInv, ReadInv, TypeOK
<1> QED
  BY <1>1, Invariance, PTL

\* write() never hands the stack a fragment while an earlier one is pending,
\* for any number of writing tasks.
THEOREM OneFragmentAtATime == Spec => []NoSendWhilePending
<1>1. IInv => NoSendWhilePending
  BY DEF IInv, WriterInv, PendingIsAwaited, NoSendWhilePending
<1> QED
  BY <1>1, Invariance, PTL

\* m_pendingDeferredReads counts exactly the SDUs that wait for the worker.
THEOREM PendingIsExact == Spec => []PendingCountsQueue
<1>1. IInv => PendingCountsQueue
  BY DEF IInv, ReadInv
<1> QED
  BY <1>1, Invariance, PTL

\* Every SDU received reaches onRead() exactly once, for any length of the queue:
\* also when the queue is full and when the channel closes and opens again.
THEOREM EverySduIsReadOnce == Spec => []ReadsConserved
<1>1. IInv => ReadsConserved
  BY EachInOnePlaceImplies DEF IInv
<1> QED
  BY <1>1, Invariance, PTL
===============================================================================
