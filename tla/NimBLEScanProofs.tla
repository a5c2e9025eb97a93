--------------------------- MODULE NimBLEScanProofs ---------------------------
(***************************************************************************)
(* The waiting list of the scanner is whole, in order and timed, and the   *)
(* end of a scan reports every device, for any number of devices, any      *)
(* timeout and any settings and calls.                                     *)
(***************************************************************************)
EXTENDS NimBLEScan, ListLemmas, FiniteSetTheorems

-----------------------------------------------------------------------------
(* The invariant, of the devices D in the result vector, the waiting list  *)
(* W and the host task h: the actions compose several methods, and each    *)
(* method keeps it.                                                        *)

Vector == UNION {[D -> Device] : D \in SUBSET Devices}

\* No more are stored than setMaxResults() allows; a finite vector has a size.
StoredOK(D) ==
  /\ D \in Vector
  /\ IsFiniteSet(DOMAIN D)
  /\ opt.max \notin {0, Unlimited} => Cardinality(DOMAIN D) <= opt.max

\* The list is of stored, scannable devices, each on it once, ...
ListOK(D, W) ==
  /\ W \in Seq(Devices) /\ IsInjective(W)
  /\ \A d \in ToSet(W) : d \in DOMAIN D /\ D[d].scannable

\* ... oldest first.
Ordered(D, W) ==
  \A i, j \in 1..Len(W) : i < j => D[W[i]].age >= D[W[j]].age

\* Whether the device's data is yet to be reported.
Unreported(D, d) == D[d].sent < 2

OwesOK(D, W) == ~opt.passive => \A d \in ToSet(W) : Unreported(D, d)

\* The device that the handler holds between a report and its end, if it is there.
Held(D, h) == IF h.pc \in {"discover", "report"} THEN h.dev \cap DOMAIN D ELSE {}

\* Of a device that it holds: one that answered has left the list, one that
\* advertised is unreported, and the youngest.
HeldOK(D, W, h) ==
  \A d \in Held(D, h) :
    /\ h.kind = "rsp" => d \notin ToSet(W)
    /\ h.kind # "rsp" => Unreported(D, d) /\ \A e \in ToSet(W) : D[d].age <= D[e].age
    /\ h.pc = "report" => D[d].sent >= 1

\* A device of this scan that is not reported waits, or is in the handler's hands.
SeenOK(D, W, h) ==
  \A d \in DOMAIN D : D[d].seen /\ Unreported(D, d) => d \in ToSet(W) \cup Held(D, h)

\* The head of the list is timed ...
Timed(s) ==
  s.waiting # << >> /\ s.timeout # 0 =>
    \/ s.event
    \/ s.left > 0 /\ s.devs[Head(s.waiting)].age + s.left <= s.timeout
    \/ s.left = 1

\* ... but for a list that is flushed, and a head that the handler is to time.
TimedOK(s, h) ==
  \/ opt.passive \/ h.pc = "flush"
  \/ h.kind # "rsp" /\ s.waiting # << >> /\ Head(s.waiting) \in Held(s.devs, h)
  \/ Timed(s)

\* Where the handler is, and what it holds there.
HandlerOK(h) ==
  /\ h \in HostTask
  /\ h.pc \in {"discover", "report", "drop", "timedOut"} => \E d \in Devices : h.dev = {d}

Listed(s, h) ==
  /\ StoredOK(s.devs)
  /\ ListOK(s.devs, s.waiting)
  /\ Ordered(s.devs, s.waiting)
  /\ OwesOK(s.devs, s.waiting)
  /\ HeldOK(s.devs, s.waiting, h)
  /\ SeenOK(s.devs, s.waiting, h)

Good(s, h) ==
  /\ s \in Scan
  /\ Listed(s, h)
  /\ TimedOK(s, h)
  /\ h.pc = "ended" => s.waiting = << >>

ScanInv ==
  /\ opt \in Settings
  /\ HandlerOK(hst)
  /\ Good(sc, hst)

-----------------------------------------------------------------------------
(* The scanner's record.                                                   *)

LEMMA Timeouts == Timeout \in Nat /\ Timeout > 0 /\ Settings \subseteq Setting
BY ScanAssumption

LEMMA VectorIs ==
  ASSUME NEW D
  PROVE  D \in Vector <=> /\ DOMAIN D \subseteq Devices
                          /\ D = [d \in DOMAIN D |-> D[d]]
                          /\ \A d \in DOMAIN D : D[d] \in Device
<1>1. ASSUME D \in Vector
      PROVE  /\ DOMAIN D \subseteq Devices
             /\ D = [d \in DOMAIN D |-> D[d]]
             /\ \A d \in DOMAIN D : D[d] \in Device
  <2>1. PICK S \in SUBSET Devices : D \in [S -> Device]
    BY <1>1 DEF Vector
  <2> QED
    BY <2>1
<1>2. ASSUME DOMAIN D \subseteq Devices, D = [d \in DOMAIN D |-> D[d]],
             \A d \in DOMAIN D : D[d] \in Device
      PROVE  D \in Vector
  <2>1. D \in [DOMAIN D -> Device]
    BY <1>2
  <2> QED
    BY <1>2, <2>1 DEF Vector
<1> QED
  BY <1>1, <1>2

LEMMA DeviceIs ==
  ASSUME NEW x \in Device
  PROVE  /\ x.scannable \in BOOLEAN /\ x.sent \in 0..2 /\ x.seen \in BOOLEAN
         /\ x.age \in 0..Timeout /\ x.age \in Int /\ x.sent \in Int
BY Timeouts DEF Device

\* One device of a vector changes.
LEMMA VectorExcept ==
  ASSUME NEW D \in Vector, NEW d \in DOMAIN D, NEW x \in Device
  PROVE  LET E == [D EXCEPT ![d] = x]
         IN  /\ E \in Vector /\ DOMAIN E = DOMAIN D
             /\ \A e \in DOMAIN D : E[e] = IF e = d THEN x ELSE D[e]
<1> DEFINE E == [D EXCEPT ![d] = x]
<1>1. DOMAIN E = DOMAIN D /\ E = [e \in DOMAIN E |-> E[e]]
      /\ \A e \in DOMAIN D : E[e] = IF e = d THEN x ELSE D[e]
  OBVIOUS
<1> HIDE DEF E
<1>2. E \in Vector
  BY <1>1, VectorIs
<1> QED
  BY <1>1, <1>2 DEF E

ScanRecord ==
  [devs : Vector, waiting : Seq(Devices), left : 0..Timeout, event : BOOLEAN,
   timeout : {0, Timeout}, scan : {"off", "timed", "forever"},
   synced : BOOLEAN, get : {"idle", "begin", "wait"}, notified : BOOLEAN, own : BOOLEAN]

LEMMA ScanIs == Scan = ScanRecord
BY DEF Scan, ScanRecord, Vector

LEMMA ScanTyped ==
  ASSUME NEW s \in Scan
  PROVE  /\ s.devs \in Vector /\ s.waiting \in Seq(Devices)
         /\ s.left \in 0..Timeout /\ s.event \in BOOLEAN /\ s.timeout \in {0, Timeout}
         /\ s.scan \in {"off", "timed", "forever"} /\ s.synced \in BOOLEAN
         /\ s.get \in {"idle", "begin", "wait"} /\ s.notified \in BOOLEAN /\ s.own \in BOOLEAN
         /\ s.left \in Int /\ s.timeout \in Int
BY ScanIs, Timeouts DEF ScanRecord

\* Everything but the devices, the list and its timer.
Rest(s) == <<s.scan, s.timeout, s.synced, s.get, s.notified, s.own>>

LEMMA EmptyList == << >> \in Seq(Devices)
OBVIOUS

LEMMA ListSet ==
  ASSUME NEW s \in Scan, NEW W \in Seq(Devices)
  PROVE  LET t == [s EXCEPT !.waiting = W]
         IN  /\ t \in Scan /\ t.devs = s.devs /\ t.waiting = W
             /\ t.left = s.left /\ t.event = s.event /\ Rest(t) = Rest(s)
BY ScanIs DEF ScanRecord, Rest

LEMMA DevsSet ==
  ASSUME NEW s \in Scan, NEW D \in Vector
  PROVE  LET t == [s EXCEPT !.devs = D]
         IN  /\ t \in Scan /\ t.devs = D /\ t.waiting = s.waiting
             /\ t.left = s.left /\ t.event = s.event /\ Rest(t) = Rest(s)
BY ScanIs DEF ScanRecord, Rest

LEMMA LeftSet ==
  ASSUME NEW s \in Scan, NEW n \in 0..Timeout
  PROVE  LET t == [s EXCEPT !.left = n]
         IN  /\ t \in Scan /\ t.devs = s.devs /\ t.waiting = s.waiting
             /\ t.left = n /\ t.event = s.event /\ Rest(t) = Rest(s)
BY ScanIs DEF ScanRecord, Rest

LEMMA EventSet ==
  ASSUME NEW s \in Scan, NEW b \in BOOLEAN
  PROVE  LET t == [s EXCEPT !.event = b]
         IN  /\ t \in Scan /\ t.devs = s.devs /\ t.waiting = s.waiting
             /\ t.left = s.left /\ t.event = b /\ Rest(t) = Rest(s)
BY ScanIs DEF ScanRecord, Rest

-----------------------------------------------------------------------------
(* The list.                                                               *)

LEMMA ListShorter ==
  ASSUME NEW D, NEW W, ListOK(D, W), NEW d
  PROVE  LET R == RemoveFirst(W, d)
         IN  ListOK(D, R) /\ ToSet(R) = ToSet(W) \ {d}
BY RemoveFirstLemma DEF ListOK

LEMMA ListRemoved ==
  ASSUME NEW D, NEW W, ListOK(D, W), Ordered(D, W), NEW d
  PROVE  LET R == RemoveFirst(W, d)
         IN  ListOK(D, R) /\ Ordered(D, R) /\ ToSet(R) = ToSet(W) \ {d}
<1> DEFINE R == RemoveFirst(W, d)
<1>1. \A i, j \in 1..Len(R) :
        i < j => \E m, n \in 1..Len(W) : m < n /\ R[i] = W[m] /\ R[j] = W[n]
  BY RemoveFirstLemma DEF ListOK
<1>2. ListOK(D, R) /\ ToSet(R) = ToSet(W) \ {d}
  BY ListShorter
<1> HIDE DEF R
<1>3. Ordered(D, R)
  <2> SUFFICES ASSUME NEW i \in 1..Len(R), NEW j \in 1..Len(R), i < j
               PROVE  D[R[i]].age >= D[R[j]].age
    BY DEF Ordered
  <2>1. PICK m \in 1..Len(W), n \in 1..Len(W) : m < n /\ R[i] = W[m] /\ R[j] = W[n]
    BY <1>1
  <2> QED
    BY <2>1 DEF Ordered
<1> QED
  BY <1>2, <1>3 DEF R

LEMMA ListAppended ==
  ASSUME NEW D, NEW W, ListOK(D, W), Ordered(D, W),
         NEW d \in Devices, d \in DOMAIN D, D[d].scannable, d \notin ToSet(W),
         \A e \in ToSet(W) : D[e].age >= D[d].age
  PROVE  LET R == Append(W, d)
         IN  ListOK(D, R) /\ Ordered(D, R) /\ ToSet(R) = ToSet(W) \cup {d}
<1> DEFINE R == Append(W, d)
<1>1. /\ R \in Seq(Devices) /\ IsInjective(R) /\ ToSet(R) = ToSet(W) \cup {d}
      /\ Len(R) = Len(W) + 1 /\ R[Len(W) + 1] = d
      /\ \A i \in 1..Len(W) : R[i] = W[i]
  BY AppendLemma DEF ListOK
<1> HIDE DEF R
<1>2. ListOK(D, R)
  BY <1>1 DEF ListOK
<1>3. Len(W) \in Nat /\ \A i \in 1..Len(W) : W[i] \in ToSet(W)
  BY Members DEF ListOK
<1>4. Ordered(D, R)
  <2> SUFFICES ASSUME NEW i \in 1..Len(R), NEW j \in 1..Len(R), i < j
               PROVE  D[R[i]].age >= D[R[j]].age
    BY DEF Ordered
  <2>1. i \in 1..Len(W) /\ R[i] = W[i]
    BY <1>1, <1>3
  <2>2. CASE j = Len(W) + 1
    BY <1>1, <1>3, <2>1, <2>2
  <2>3. CASE j # Len(W) + 1
    <3>1. j \in 1..Len(W) /\ R[j] = W[j]
      BY <1>1, <1>3, <2>3
    <3> QED
      BY <2>1, <3>1 DEF Ordered
  <2> QED
    BY <2>2, <2>3
<1> QED
  BY <1>1, <1>2, <1>4 DEF R

\* The devices change and the list does not.
LEMMA ListStays ==
  ASSUME NEW D, NEW W, ListOK(D, W), Ordered(D, W), NEW E,
         \A d \in ToSet(W) : d \in DOMAIN E /\ E[d].scannable = D[d].scannable,
         \A d, e \in ToSet(W) : D[d].age >= D[e].age => E[d].age >= E[e].age
  PROVE  ListOK(E, W) /\ Ordered(E, W)
<1>1. \A i \in 1..Len(W) : W[i] \in ToSet(W)
  BY Members DEF ListOK
<1> QED
  BY <1>1 DEF ListOK, Ordered

-----------------------------------------------------------------------------
(* The methods.                                                            *)

LEMMA StopTimerIs ==
  ASSUME NEW s \in Scan
  PROVE  LET t == StopTimer(s)
         IN  t \in Scan /\ t.devs = s.devs /\ t.waiting = s.waiting /\ Rest(t) = Rest(s)
<1> DEFINE u == [s EXCEPT !.left = 0]
<1>1. 0 \in 0..Timeout
  BY Timeouts
<1>2. StopTimer(s) = [u EXCEPT !.event = FALSE]
  BY DEF StopTimer
<1>3. /\ u \in Scan /\ u.devs = s.devs /\ u.waiting = s.waiting /\ Rest(u) = Rest(s)
  BY <1>1, LeftSet
<1> HIDE DEF u
<1> QED
  BY <1>2, <1>3, EventSet

\* The head of the list is in the vector.
LEMMA HeadIsStored ==
  ASSUME NEW s \in Scan, ListOK(s.devs, s.waiting), s.waiting # << >>
  PROVE  /\ Head(s.waiting) \in ToSet(s.waiting) /\ Head(s.waiting) \in DOMAIN s.devs
         /\ s.devs[Head(s.waiting)] \in Device
BY ScanTyped, HeadIsMember, VectorIs DEF ListOK

LEMMA ResetTimerIs ==
  ASSUME NEW s \in Scan, ListOK(s.devs, s.waiting)
  PROVE  LET t == ResetTimer(s)
         IN  /\ t \in Scan /\ t.devs = s.devs /\ t.waiting = s.waiting /\ Rest(t) = Rest(s)
             /\ Timed(t)
<1> DEFINE t == ResetTimer(s)
<1>1. CASE s.timeout = 0 \/ s.waiting = << >>
  <2>1. t = StopTimer(s)
    BY <1>1 DEF ResetTimer
  <2> QED
    BY <1>1, <2>1, StopTimerIs DEF Timed, Rest
<1>2. CASE s.timeout # 0 /\ s.waiting # << >>
  <2> DEFINE age == s.devs[Head(s.waiting)].age
             n == IF age >= s.timeout THEN 1 ELSE s.timeout - age
  <2>1. age \in 0..Timeout /\ s.timeout = Timeout
    BY <1>2, HeadIsStored, DeviceIs, ScanTyped
  <2>2. n \in 0..Timeout /\ n \in Int /\ n > 0 /\ (n = 1 \/ age + n <= s.timeout)
    BY <2>1, Timeouts
  <2>3. t = [s EXCEPT !.left = n]
    BY <1>2 DEF ResetTimer
  <2> HIDE DEF n
  <2>4. /\ t \in Scan /\ t.devs = s.devs /\ t.waiting = s.waiting
        /\ t.left = n /\ Rest(t) = Rest(s)
    BY <2>2, <2>3, LeftSet
  <2> QED
    BY <2>2, <2>4 DEF Timed, Rest
<1> QED
  BY <1>1, <1>2

LEMMA RemoveWaitingIs ==
  ASSUME NEW s \in Scan, ListOK(s.devs, s.waiting), NEW d
  PROVE  LET t == RemoveWaiting(s, d)
         IN  /\ t \in Scan /\ t.devs = s.devs /\ Rest(t) = Rest(s)
             /\ t.waiting = RemoveFirst(s.waiting, d)
             /\ Timed(s) \/ s.waiting = << >> \/ Head(s.waiting) = d => Timed(t)
<1> DEFINE t == RemoveWaiting(s, d)
           R == RemoveFirst(s.waiting, d)
           removed == [s EXCEPT !.waiting = R]
<1>1. /\ R \in Seq(Devices) /\ ListOK(s.devs, R)
      /\ s.waiting # << >> /\ Head(s.waiting) # d => R # << >> /\ Head(R) = Head(s.waiting)
      /\ s.waiting # << >> /\ Head(s.waiting) = d => Len(R) = Len(s.waiting) - 1
      /\ s.waiting = << >> => R = << >>
  <2>1. s.waiting = << >> => R = << >>
    BY DEF RemoveFirst
  <2> QED
    BY <2>1, ListShorter, RemoveFirstLemma DEF ListOK
<1>2. /\ removed \in Scan /\ removed.devs = s.devs /\ removed.waiting = R
      /\ removed.left = s.left /\ removed.event = s.event /\ Rest(removed) = Rest(s)
  BY <1>1, ListSet
<1>3. t = IF s.waiting # << >> /\ Head(s.waiting) = d /\ Len(s.waiting) > 1
          THEN ResetTimer(removed) ELSE removed
  BY DEF RemoveWaiting
<1> HIDE DEF R, removed, t
<1>4. CASE s.waiting # << >> /\ Head(s.waiting) = d /\ Len(s.waiting) > 1
  BY <1>1, <1>2, <1>3, <1>4, ResetTimerIs DEF R, t
<1>5. CASE ~(s.waiting # << >> /\ Head(s.waiting) = d /\ Len(s.waiting) > 1)
  <2>1. t = removed
    BY <1>3, <1>5
  <2>2. CASE s.waiting = << >>
    BY <1>1, <1>2, <2>1, <2>2 DEF Timed, R, t
  <2>3. CASE s.waiting # << >> /\ Head(s.waiting) = d
    <3>1. R = << >>
      BY <1>1, <1>5, <2>3, ScanTyped
    <3> QED
      BY <1>2, <2>1, <3>1 DEF Timed, R, t
  <2>4. CASE s.waiting # << >> /\ Head(s.waiting) # d
    <3>1. Timed(s) => Timed(t)
      BY <1>1, <1>2, <2>1, <2>4 DEF Timed, Rest
    <3> QED
      BY <1>2, <2>1, <2>4, <3>1 DEF R, t
  <2> QED
    BY <2>2, <2>3, <2>4
<1> QED
  BY <1>4, <1>5

LEMMA AddWaitingIs ==
  ASSUME NEW s \in Scan, NEW d \in Devices
  PROVE  LET t == AddWaiting(s, d)
         IN  /\ t \in Scan /\ t.devs = s.devs /\ Rest(t) = Rest(s)
             /\ t.waiting = IF d \in ToSet(s.waiting) THEN s.waiting ELSE Append(s.waiting, d)
             /\ s.waiting # << >> /\ Timed(s) => Timed(t)
<1>1. IsWaiting(s, d) <=> d \in ToSet(s.waiting)
  BY ScanTyped, Members DEF IsWaiting
<1>2. CASE d \in ToSet(s.waiting)
  BY <1>1, <1>2 DEF AddWaiting
<1>3. CASE d \notin ToSet(s.waiting)
  <2> DEFINE W == Append(s.waiting, d)
             t == AddWaiting(s, d)
  <2>1. W \in Seq(Devices) /\ (s.waiting # << >> => Head(W) = Head(s.waiting))
    BY ScanTyped
  <2>2. t = [s EXCEPT !.waiting = W]
    BY <1>1, <1>3 DEF AddWaiting
  <2> HIDE DEF W, t
  <2>3. /\ t \in Scan /\ t.devs = s.devs /\ t.waiting = W
        /\ t.left = s.left /\ t.event = s.event /\ Rest(t) = Rest(s)
    BY <2>1, <2>2, ListSet
  <2>4. s.waiting # << >> /\ Timed(s) => Timed(t)
    BY <2>1, <2>3 DEF Timed, Rest
  <2> QED
    BY <1>3, <2>3, <2>4 DEF W, t
<1> QED
  BY <1>2, <1>3

-----------------------------------------------------------------------------
(* Methods and calls keep what is good.                                    *)

\* A step that leaves the devices and the list alone, and the head timed.
LEMMA GoodAgain ==
  ASSUME NEW h, NEW s, Good(s, h), NEW t \in Scan,
         t.devs = s.devs, t.waiting = s.waiting, TimedOK(s, h) => TimedOK(t, h)
  PROVE  Good(t, h)
BY DEF Good, Listed

\* The head keeps its time if it gets no older.
LEMMA TimedAgain ==
  ASSUME NEW s \in Scan, NEW t \in Scan, t.waiting = s.waiting,
         s.waiting # << >> => /\ s.devs[Head(s.waiting)].age \in Int
                              /\ t.devs[Head(s.waiting)].age \in Int
                              /\ t.devs[Head(s.waiting)].age <= s.devs[Head(s.waiting)].age,
         t.left = s.left, t.event = s.event, t.timeout = s.timeout
  PROVE  Timed(s) => Timed(t)
BY ScanTyped DEF Timed

\* Nothing but the procedure, the tasks and the link to the host changes.
LEMMA GoodOther ==
  ASSUME NEW h, NEW s, Good(s, h), NEW t \in Scan,
         t.devs = s.devs, t.waiting = s.waiting, t.left = s.left,
         t.event = s.event, t.timeout = s.timeout
  PROVE  Good(t, h)
<1>1. Timed(s) => Timed(t)
  BY DEF Timed
<1> QED
  BY <1>1, GoodAgain DEF TimedOK

\* The handler goes on, and holds no device before and after.
LEMMA GoodMoved ==
  ASSUME NEW s, NEW h, NEW k, Good(s, h), Held(s.devs, h) = {}, Held(s.devs, k) = {},
         h.pc = "flush" => k.pc = "flush" \/ s.waiting = << >>,
         k.pc = "ended" => s.waiting = << >>
  PROVE  Good(s, k)
BY DEF Good, Listed, HeldOK, SeenOK, TimedOK, Timed

\* Nothing is stored.
LEMMA GoodEmpty ==
  ASSUME opt \in Settings, NEW h, NEW t \in Scan, t.devs = << >>, t.waiting = << >>
  PROVE  Good(t, h)
<1>1. DOMAIN t.devs = {} /\ t.devs \in Vector
  BY ScanTyped
<1>2. StoredOK(t.devs)
  BY <1>1, FS_EmptySet, Timeouts DEF StoredOK, Setting
<1>3. ToSet(t.waiting) = {} /\ Len(t.waiting) = 0 /\ IsInjective(t.waiting)
  BY DEF ToSet, IsInjective
<1>4. ListOK(t.devs, t.waiting) /\ Ordered(t.devs, t.waiting) /\ OwesOK(t.devs, t.waiting)
  BY <1>3, ScanTyped DEF ListOK, Ordered, OwesOK
<1>5. HeldOK(t.devs, t.waiting, h) /\ SeenOK(t.devs, t.waiting, h)
  BY <1>1 DEF HeldOK, SeenOK, Held
<1>6. TimedOK(t, h)
  BY DEF TimedOK, Timed
<1> QED
  BY <1>2, <1>4, <1>5, <1>6 DEF Good, Listed

\* The same devices, but for what says that they were seen.
SameButSeen(E, D) ==
  /\ E \in Vector /\ DOMAIN E = DOMAIN D
  /\ \A d \in DOMAIN D : /\ E[d].sent = D[d].sent /\ E[d].age = D[d].age
                         /\ E[d].scannable = D[d].scannable /\ E[d].seen = FALSE

LEMMA UnseenIs ==
  ASSUME NEW s \in Scan
  PROVE  SameButSeen(Unseen(s), s.devs)
<1>1. /\ DOMAIN Unseen(s) = DOMAIN s.devs /\ Unseen(s) = [d \in DOMAIN Unseen(s) |-> Unseen(s)[d]]
      /\ \A d \in DOMAIN s.devs : Unseen(s)[d] = [s.devs[d] EXCEPT !.seen = FALSE]
  BY DEF Unseen, Stored
<1>2. s.devs \in Vector
  BY ScanTyped
<1>3. \A x \in Device : LET y == [x EXCEPT !.seen = FALSE]
                        IN  /\ y \in Device /\ y.sent = x.sent /\ y.age = x.age
                            /\ y.scannable = x.scannable /\ y.seen = FALSE
  BY DEF Device
<1>4. ASSUME NEW d \in DOMAIN s.devs
      PROVE  LET y == Unseen(s)[d]
             IN  /\ y \in Device /\ y.sent = s.devs[d].sent /\ y.age = s.devs[d].age
                 /\ y.scannable = s.devs[d].scannable /\ y.seen = FALSE
  <2>1. s.devs[d] \in Device
    BY <1>2, VectorIs
  <2>2. Unseen(s)[d] = [s.devs[d] EXCEPT !.seen = FALSE]
    BY <1>1
  <2> QED
    BY <1>3, <2>1, <2>2
<1>5. DOMAIN s.devs \subseteq Devices
  BY <1>2, VectorIs
<1>6. Unseen(s) \in Vector
  BY <1>1, <1>4, <1>5, VectorIs
<1> QED
  BY <1>1, <1>4, <1>6 DEF SameButSeen

\* A list that is cleared when nothing seen is left.
LEMMA GoodCleared ==
  ASSUME NEW h, NEW s, Good(s, h), NEW t \in Scan,
         SameButSeen(t.devs, s.devs), t.waiting = << >>
  PROVE  Good(t, h)
<1>1. StoredOK(t.devs)
  BY DEF Good, Listed, StoredOK, SameButSeen
<1>2. ToSet(t.waiting) = {} /\ Len(t.waiting) = 0 /\ IsInjective(t.waiting)
  BY DEF ToSet, IsInjective
<1>3. ListOK(t.devs, t.waiting) /\ Ordered(t.devs, t.waiting) /\ OwesOK(t.devs, t.waiting)
  BY <1>2, ScanTyped DEF ListOK, Ordered, OwesOK
<1>4. Held(t.devs, h) = Held(s.devs, h) /\ Held(s.devs, h) \subseteq DOMAIN s.devs
  BY DEF Held, SameButSeen
<1>5. HeldOK(t.devs, t.waiting, h)
  BY <1>2, <1>4 DEF Good, Listed, HeldOK, SameButSeen, Unreported
<1>6. SeenOK(t.devs, t.waiting, h)
  BY DEF SeenOK, SameButSeen
<1>7. TimedOK(t, h)
  BY DEF TimedOK, Timed
<1> QED
  BY <1>1, <1>3, <1>5, <1>6, <1>7 DEF Good, Listed

LEMMA ClearIs ==
  ASSUME opt \in Settings, NEW h, NEW s, Good(s, h)
  PROVE  /\ Good(Clear(s), h) /\ Rest(Clear(s)) = Rest(s)
         /\ s.waiting = << >> => Clear(s).waiting = << >>
<1>0. s \in Scan
  BY DEF Good
<1>1. CASE s.scan # "off"
  BY <1>1 DEF Clear
<1>2. CASE s.scan = "off"
  <2> DEFINE u == StopTimer(s)
             v == [u EXCEPT !.waiting = << >>]
             t == [v EXCEPT !.devs = << >>]
  <2>1. Clear(s) = t
    BY <1>2 DEF Clear, ClearWaiting
  <2>2. u \in Scan /\ Rest(u) = Rest(s)
    BY <1>0, StopTimerIs
  <2> HIDE DEF u
  <2>3. v \in Scan /\ v.waiting = << >> /\ Rest(v) = Rest(u)
    BY <2>2, EmptyList, ListSet
  <2> HIDE DEF v
  <2>4. << >> \in Vector
    <3>1. DOMAIN << >> = {} /\ << >> = [d \in {} |-> << >>[d]]
      OBVIOUS
    <3> QED
      BY <3>1, VectorIs
  <2>5. t \in Scan /\ t.waiting = << >> /\ t.devs = << >> /\ Rest(t) = Rest(v)
    BY <2>3, <2>4, DevsSet
  <2> HIDE DEF t
  <2> QED
    BY <2>1, <2>2, <2>3, <2>5, GoodEmpty
<1> QED
  BY <1>1, <1>2

LEMMA ReleaseIs ==
  ASSUME NEW h, NEW s, Good(s, h)
  PROVE  Good(ReleaseTask(s), h) /\ ReleaseTask(s).waiting = s.waiting /\ ReleaseTask(s).scan = s.scan
<1> DEFINE t == ReleaseTask(s)
<1>1. /\ t \in Scan /\ t.devs = s.devs /\ t.waiting = s.waiting /\ t.scan = s.scan
      /\ t.left = s.left /\ t.event = s.event /\ t.timeout = s.timeout
  BY ScanIs DEF Good, ReleaseTask, ScanRecord
<1> HIDE DEF t
<1>2. TimedOK(s, h) => TimedOK(t, h)
  BY <1>1 DEF TimedOK, Timed
<1> QED
  BY <1>1, <1>2, GoodAgain DEF t

LEMMA StopIs ==
  ASSUME opt \in Settings, NEW h, NEW s, Good(s, h)
  PROVE  Good(Stop(s), h) /\ (s.waiting = << >> => Stop(s).waiting = << >>)
<1> DEFINE a == [s EXCEPT !.scan = "off", !.own = FALSE]
           b == [a EXCEPT !.devs = Unseen(s)]
           c == StopTimer(b)
           cancelled == [c EXCEPT !.waiting = << >>]
<1>0. s \in Scan
  BY DEF Good
<1>1. Stop(s) = ReleaseTask(IF opt.max = 0 THEN Clear(cancelled) ELSE cancelled)
  BY DEF Stop, ClearWaiting
<1>2. a \in Scan
  BY <1>0, ScanIs DEF ScanRecord
<1> HIDE DEF a
<1>3. b \in Scan /\ b.devs = Unseen(s)
  BY <1>0, <1>2, UnseenIs, DevsSet DEF SameButSeen
<1> HIDE DEF b
<1>4. c \in Scan /\ c.devs = Unseen(s)
  BY <1>3, StopTimerIs
<1> HIDE DEF c
<1>5. cancelled \in Scan /\ cancelled.devs = Unseen(s) /\ cancelled.waiting = << >>
  BY <1>4, EmptyList, ListSet
<1> HIDE DEF cancelled
<1>6. Good(cancelled, h)
  BY <1>0, <1>5, UnseenIs, GoodCleared
<1>7. Good(Clear(cancelled), h) /\ Clear(cancelled).waiting = << >>
  BY <1>5, <1>6, ClearIs
<1>8. CASE opt.max = 0
  <2>1. Stop(s) = ReleaseTask(Clear(cancelled))
    BY <1>1, <1>8
  <2> QED
    BY <1>7, <2>1, ReleaseIs
<1>9. CASE opt.max # 0
  <2>1. Stop(s) = ReleaseTask(cancelled)
    BY <1>1, <1>9
  <2> QED
    BY <1>5, <1>6, <2>1, ReleaseIs
<1> QED
  BY <1>8, <1>9

LEMMA PrepareIs ==
  ASSUME opt \in Settings, NEW h, NEW s, Good(s, h), NEW isContinue, NEW restart
  PROVE  Good(Prepare(s, isContinue, restart), h)
BY StopIs, ClearIs DEF Prepare

LEMMA DiscoveryIs ==
  ASSUME NEW h, NEW s, Good(s, h), NEW duration \in {"timed", "forever"}
  PROVE  Good(Discovery(s, duration), h)
<1> DEFINE a == [s EXCEPT !.scan = duration]
           t == [a EXCEPT !.devs = Unseen(s)]
<1>0. s \in Scan
  BY DEF Good
<1>1. Discovery(s, duration) = IF s.scan # "off" THEN s ELSE t
  BY DEF Discovery
<1>2. /\ a \in Scan /\ a.waiting = s.waiting /\ a.left = s.left /\ a.event = s.event
      /\ a.timeout = s.timeout
  BY <1>0, ScanIs DEF ScanRecord
<1> HIDE DEF a
<1>3. SameButSeen(Unseen(s), s.devs)
  BY <1>0, UnseenIs
<1>4. /\ t \in Scan /\ t.devs = Unseen(s) /\ t.waiting = s.waiting /\ t.left = s.left
      /\ t.event = s.event /\ t.timeout = s.timeout
  BY <1>2, <1>3, DevsSet DEF SameButSeen, Rest
<1> HIDE DEF t
<1>5. StoredOK(t.devs)
  BY <1>3, <1>4 DEF Good, Listed, StoredOK, SameButSeen
<1>6. ListOK(t.devs, t.waiting) /\ Ordered(t.devs, t.waiting)
  BY <1>3, <1>4, ListStays DEF Good, Listed, SameButSeen, ListOK
<1>7. Held(t.devs, h) = Held(s.devs, h) /\ Held(s.devs, h) \subseteq DOMAIN s.devs
      /\ ToSet(s.waiting) \subseteq DOMAIN s.devs
  BY <1>3, <1>4 DEF Held, SameButSeen, Good, Listed, ListOK
<1>8. OwesOK(t.devs, t.waiting) /\ HeldOK(t.devs, t.waiting, h) /\ SeenOK(t.devs, t.waiting, h)
  BY <1>3, <1>4, <1>7 DEF Good, Listed, OwesOK, HeldOK, SeenOK, SameButSeen, Unreported
<1>9. Timed(s) => Timed(t)
  <2>1. s.waiting # << >> =>
          /\ s.devs[Head(s.waiting)].age \in Int
          /\ t.devs[Head(s.waiting)].age = s.devs[Head(s.waiting)].age
    BY <1>0, <1>3, <1>4, HeadIsStored, DeviceIs DEF Good, Listed, SameButSeen
  <2> QED
    BY <1>0, <1>4, <2>1, TimedAgain
<1>10. TimedOK(t, h)
  BY <1>4, <1>7, <1>9 DEF Good, TimedOK
<1> QED
  BY <1>1, <1>4, <1>5, <1>6, <1>8, <1>10 DEF Good, Listed

\* The list without d, which is not in a vector that is else the same.
LEMMA EraseIs ==
  ASSUME opt \in Settings, NEW h, NEW s, Good(s, h), NEW d
  PROVE  Good(Erase(s, d), h)
<1> DEFINE r == RemoveWaiting(s, d)
           E == [e \in DOMAIN s.devs \ {d} |-> s.devs[e]]
           t == [r EXCEPT !.devs = E]
           R == RemoveFirst(s.waiting, d)
<1>0. s \in Scan /\ s.devs \in Vector
  BY ScanTyped DEF Good
<1>1. /\ r \in Scan /\ r.devs = s.devs /\ Rest(r) = Rest(s) /\ r.waiting = R
      /\ Timed(s) \/ s.waiting = << >> \/ Head(s.waiting) = d => Timed(r)
  BY <1>0, RemoveWaitingIs DEF Good, Listed
<1>2. Erase(s, d) = t
  BY <1>1 DEF Erase
<1>3. DOMAIN E = DOMAIN s.devs \ {d} /\ \A e \in DOMAIN E : E[e] = s.devs[e]
  OBVIOUS
<1>3a. E = [e \in DOMAIN E |-> E[e]]
  OBVIOUS
<1> HIDE DEF r, E, R
<1>4. E \in Vector
  <2>1. DOMAIN s.devs \subseteq Devices /\ \A e \in DOMAIN s.devs : s.devs[e] \in Device
    BY <1>0, VectorIs
  <2>2. DOMAIN E \subseteq Devices /\ \A e \in DOMAIN E : E[e] \in Device
    BY <1>3, <2>1
  <2> QED
    BY <1>3a, <2>2, VectorIs
<1>5. /\ t \in Scan /\ t.devs = E /\ t.waiting = R
      /\ t.left = r.left /\ t.event = r.event /\ t.timeout = r.timeout
  BY <1>1, <1>4, DevsSet DEF Rest
<1> HIDE DEF t
<1>6. /\ ListOK(s.devs, R) /\ Ordered(s.devs, R) /\ ToSet(R) = ToSet(s.waiting) \ {d}
      /\ R \in Seq(Devices)
      /\ s.waiting # << >> /\ Head(s.waiting) # d => R # << >> /\ Head(R) = Head(s.waiting)
      /\ s.waiting = << >> => R = << >>
  <2>1. s.waiting = << >> => R = << >>
    BY DEF RemoveFirst, R
  <2> QED
    BY <2>1, ListRemoved, RemoveFirstLemma DEF Good, Listed, ListOK, R
<1>7. StoredOK(E)
  <2>1. IsFiniteSet(DOMAIN s.devs)
    BY DEF Good, Listed, StoredOK
  <2>2. /\ IsFiniteSet(DOMAIN E) /\ Cardinality(DOMAIN E) <= Cardinality(DOMAIN s.devs)
        /\ Cardinality(DOMAIN E) \in Nat /\ Cardinality(DOMAIN s.devs) \in Nat
    BY <1>3, <2>1, FS_Subset, FS_CardinalityType
  <2>3. opt.max \notin {0, Unlimited} => Cardinality(DOMAIN s.devs) <= opt.max
    BY DEF Good, Listed, StoredOK
  <2>4. opt.max \in Int
    BY Timeouts DEF Setting, Unlimited
  <2> QED
    BY <1>4, <2>2, <2>3, <2>4 DEF StoredOK
<1>8. ListOK(E, R) /\ Ordered(E, R)
  <2>1. \A e \in ToSet(R) : e \in DOMAIN E /\ E[e] = s.devs[e]
    BY <1>3, <1>6 DEF ListOK
  <2> QED
    BY <1>6, <2>1, ListStays
<1>9. Held(E, h) = Held(s.devs, h) \ {d}
  BY <1>3 DEF Held
<1>10. OwesOK(E, R) /\ HeldOK(E, R, h) /\ SeenOK(E, R, h)
  <2>1. ToSet(R) \subseteq DOMAIN E /\ Held(E, h) \subseteq DOMAIN E
    BY <1>3, <1>6 DEF Held, ListOK
  <2> QED
    BY <1>3, <1>6, <1>9, <2>1 DEF Good, Listed, OwesOK, HeldOK, SeenOK, Unreported
<1>11. Timed(r) => Timed(t)
  <2>1. r.waiting # << >> => /\ r.devs[Head(r.waiting)].age \in Int
                             /\ t.devs[Head(r.waiting)].age = r.devs[Head(r.waiting)].age
    BY <1>1, <1>3, <1>5, <1>6, HeadIsStored, DeviceIs
  <2> QED
    BY <1>1, <1>5, <2>1, TimedAgain
<1>12. TimedOK(t, h)
  <2>1. CASE h.kind # "rsp" /\ s.waiting # << >> /\ Head(s.waiting) \in Held(s.devs, h)
    BY <1>1, <1>5, <1>6, <1>9, <1>11, <2>1 DEF TimedOK
  <2> QED
    BY <1>1, <1>11, <2>1 DEF Good, TimedOK
<1>13. h.pc = "ended" => R = << >>
  BY <1>6 DEF Good
<1> QED
  BY <1>2, <1>5, <1>7, <1>8, <1>10, <1>12, <1>13 DEF Good, Listed

\* The head of the list is reported to onResult() without a response.
LEMMA ReportedIs ==
  ASSUME NEW h, NEW s \in Scan, Listed(s, h), s.waiting # << >>, Held(s.devs, h) = {},
         NEW k, Held(s.devs, k) = {}, k.pc # "ended"
  PROVE  Good([RemoveWaiting(s, Head(s.waiting)) EXCEPT !.devs[Head(s.waiting)].sent = 2], k)
<1> DEFINE d == Head(s.waiting)
           r == RemoveWaiting(s, d)
           x == [s.devs[d] EXCEPT !.sent = 2]
           E == [s.devs EXCEPT ![d] = x]
           t == [r EXCEPT !.devs = E]
           R == RemoveFirst(s.waiting, d)
<1>1. /\ r \in Scan /\ r.devs = s.devs /\ Rest(r) = Rest(s) /\ r.waiting = R /\ Timed(r)
  BY RemoveWaitingIs DEF Listed
<1>2. s.devs \in Vector /\ d \in DOMAIN s.devs /\ s.devs[d] \in Device /\ d \in ToSet(s.waiting)
  BY HeadIsStored, ScanTyped DEF Listed
<1>3. /\ x \in Device /\ x.age = s.devs[d].age /\ x.scannable = s.devs[d].scannable
      /\ x.sent = 2 /\ x.seen = s.devs[d].seen
  BY <1>2 DEF Device
<1>4. [r EXCEPT !.devs[d].sent = 2] = t
  BY <1>1
<1> HIDE DEF r, x, R
<1>5. /\ E \in Vector /\ DOMAIN E = DOMAIN s.devs
      /\ \A e \in DOMAIN E : E[e] = IF e = d THEN x ELSE s.devs[e]
  BY <1>2, <1>3, VectorExcept
<1> HIDE DEF E
<1>6. /\ t \in Scan /\ t.devs = E /\ t.waiting = R
      /\ t.left = r.left /\ t.event = r.event /\ t.timeout = r.timeout
  BY <1>1, <1>5, DevsSet DEF Rest
<1> HIDE DEF t
<1>7. ListOK(s.devs, R) /\ Ordered(s.devs, R) /\ ToSet(R) = ToSet(s.waiting) \ {d}
  BY ListRemoved DEF Listed, R
<1>8. StoredOK(E)
  BY <1>5 DEF Listed, StoredOK
<1>9. \A e \in ToSet(R) : e \in DOMAIN E /\ e \in DOMAIN s.devs /\ E[e] = s.devs[e]
  BY <1>5, <1>7 DEF ListOK
<1>10. ListOK(E, R) /\ Ordered(E, R)
  BY <1>7, <1>9, ListStays
<1>11. Held(E, k) = {}
  BY <1>5 DEF Held
<1>12. OwesOK(E, R) /\ HeldOK(E, R, k)
  BY <1>7, <1>9, <1>11 DEF Listed, OwesOK, HeldOK, Unreported
<1>13. SeenOK(E, R, k)
  <2> SUFFICES ASSUME NEW e \in DOMAIN E, E[e].seen, E[e].sent < 2
               PROVE  e \in ToSet(R)
    BY DEF SeenOK, Unreported
  <2>1. e # d
    BY <1>3, <1>5
  <2>2. E[e] = s.devs[e] /\ e \in ToSet(s.waiting)
    BY <1>5, <2>1 DEF Listed, SeenOK, Unreported
  <2> QED
    BY <1>7, <2>1, <2>2
<1>14. Timed(t)
  <2>1. r.waiting # << >> => /\ r.devs[Head(r.waiting)].age \in Int
                             /\ t.devs[Head(r.waiting)].age = r.devs[Head(r.waiting)].age
    BY <1>1, <1>6, <1>7, <1>9, HeadIsStored, DeviceIs
  <2> QED
    BY <1>1, <1>6, <2>1, TimedAgain
<1> QED
  BY <1>4, <1>6, <1>8, <1>10, <1>12, <1>13, <1>14 DEF Good, Listed, TimedOK, r

-----------------------------------------------------------------------------
(* The handler.                                                            *)

\* What it holds where it holds a device, and where it does not.
LEMMA HeldIs ==
  ASSUME NEW D, NEW h
  PROVE  /\ h.pc \in {"discover", "report"} => Held(D, h) = h.dev \cap DOMAIN D
         /\ h.pc \notin {"discover", "report"} => Held(D, h) = {}
BY DEF Held

LEMMA NewGood ==
  ASSUME ScanInv, hst.pc = "idle", NEW d \in Devices, NEW kind \in Report,
         d \notin Stored(sc), HasRoom(sc),
         NEW h, h.pc = "discover", h.dev = {d}, h.kind = kind
  PROVE  Good(New(sc, d, kind), h)
<1> DEFINE x == [scannable |-> kind = "scannable", sent |-> 0, age |-> 0, seen |-> TRUE]
           D == sc.devs
           W == sc.waiting
           E == [e \in DOMAIN D \cup {d} |-> IF e = d THEN x ELSE D[e]]
           t == [sc EXCEPT !.devs = E]
<1>0. sc \in Scan /\ D \in Vector /\ W \in Seq(Devices) /\ d \notin DOMAIN D
  BY ScanTyped DEF ScanInv, Good, Stored
<1>1. New(sc, d, kind) = t
  BY DEF New
<1>2. x \in Device /\ x.age = 0 /\ x.sent = 0
  BY Timeouts DEF Device
<1>3. DOMAIN E = DOMAIN D \cup {d} /\ \A e \in DOMAIN E : E[e] = IF e = d THEN x ELSE D[e]
  OBVIOUS
<1>4. E = [e \in DOMAIN E |-> E[e]]
  OBVIOUS
<1> HIDE DEF x, E, D, W
<1>5. \A e \in DOMAIN D : e \in Devices /\ D[e] \in Device
  BY <1>0, VectorIs
<1>6. E \in Vector
  <2>1. DOMAIN E \subseteq Devices /\ \A e \in DOMAIN E : E[e] \in Device
    BY <1>2, <1>3, <1>5
  <2> QED
    BY <1>4, <2>1, VectorIs
<1>7. /\ t \in Scan /\ t.devs = E /\ t.waiting = W
      /\ t.left = sc.left /\ t.event = sc.event /\ t.timeout = sc.timeout
  BY <1>0, <1>6, DevsSet DEF Rest, W
<1> HIDE DEF t
<1>8. Good(sc, hst) /\ Listed(sc, hst) /\ StoredOK(D) /\ ListOK(D, W) /\ Ordered(D, W)
      /\ OwesOK(D, W) /\ SeenOK(D, W, hst)
  BY DEF ScanInv, Good, Listed, D, W
<1>9. StoredOK(E)
  <2>1. IsFiniteSet(DOMAIN D)
    BY <1>8 DEF StoredOK
  <2>2. IsFiniteSet(DOMAIN E) /\ Cardinality(DOMAIN E) = Cardinality(DOMAIN D) + 1
        /\ Cardinality(DOMAIN D) \in Nat
    BY <1>0, <1>3, <2>1, FS_AddElement, FS_CardinalityType
  <2>3. opt.max \notin {0, Unlimited} => Cardinality(DOMAIN D) < opt.max
    BY DEF HasRoom, Stored, D
  <2>4. opt.max \in Int
    BY Timeouts DEF Setting, Unlimited, ScanInv
  <2> QED
    BY <1>6, <2>2, <2>3, <2>4 DEF StoredOK
<1>10. \A e \in ToSet(W) : e # d /\ e \in DOMAIN D /\ e \in DOMAIN E /\ E[e] = D[e]
  BY <1>0, <1>3, <1>8 DEF ListOK
<1>11. ListOK(E, W) /\ Ordered(E, W)
  BY <1>8, <1>10, ListStays
<1>12. Held(E, h) = {d} /\ Held(D, hst) = {}
  BY <1>3, HeldIs
<1>13. OwesOK(E, W)
  BY <1>8, <1>10 DEF OwesOK, Unreported
<1>14. HeldOK(E, W, h)
  <2>1. E[d] = x
    BY <1>3
  <2>2. \A e \in ToSet(W) : E[e].age >= 0
    BY <1>5, <1>10, DeviceIs
  <2> QED
    BY <1>2, <1>10, <1>12, <2>1, <2>2 DEF HeldOK, Unreported
<1>15. SeenOK(E, W, h)
  BY <1>3, <1>8, <1>12 DEF SeenOK, Unreported
<1>16. Timed(sc) => Timed(t)
  <2>1. sc.waiting # << >> => /\ sc.devs[Head(sc.waiting)].age \in Int
                              /\ t.devs[Head(sc.waiting)].age = sc.devs[Head(sc.waiting)].age
    BY <1>0, <1>7, <1>8, <1>10, HeadIsStored, DeviceIs DEF W, D
  <2> QED
    BY <1>0, <1>7, <2>1, TimedAgain DEF W
<1>17. TimedOK(t, h)
  BY <1>8, <1>12, <1>16 DEF Good, TimedOK, D
<1> QED
  BY <1>1, <1>7, <1>9, <1>11, <1>13, <1>14, <1>15, <1>17 DEF Good, Listed

\* A scan response.
LEMMA ResponseGood ==
  ASSUME ScanInv, hst.pc = "idle", NEW d \in DOMAIN sc.devs,
         NEW h, h.pc = "discover", h.dev = {d}, h.kind = "rsp"
  PROVE  Good(RemoveWaiting(sc, d), h)
<1> DEFINE t == RemoveWaiting(sc, d)
           R == RemoveFirst(sc.waiting, d)
<1>1. sc \in Scan /\ Good(sc, hst) /\ Listed(sc, hst) /\ Held(sc.devs, hst) = {}
  BY HeldIs DEF ScanInv, Good
<1>2. /\ t \in Scan /\ t.devs = sc.devs /\ t.waiting = R
      /\ Timed(sc) \/ sc.waiting = << >> \/ Head(sc.waiting) = d => Timed(t)
  BY <1>1, RemoveWaitingIs DEF Listed
<1>3. ListOK(sc.devs, R) /\ Ordered(sc.devs, R) /\ ToSet(R) = ToSet(sc.waiting) \ {d}
  BY <1>1, ListRemoved DEF Listed
<1> HIDE DEF t, R
<1>4. Held(sc.devs, h) = {d}
  BY HeldIs
<1>5. OwesOK(sc.devs, R) /\ HeldOK(sc.devs, R, h) /\ SeenOK(sc.devs, R, h)
  BY <1>1, <1>3, <1>4 DEF Listed, OwesOK, HeldOK, SeenOK
<1>6. TimedOK(t, h)
  BY <1>1, <1>2 DEF Good, TimedOK
<1> QED
  BY <1>1, <1>2, <1>3, <1>5, <1>6 DEF Good, Listed, t

\* An advertisement of a device that is stored: it has new data, and goes to the
\* tail of the list, where the youngest belongs.
LEMMA AgainGood ==
  ASSUME ScanInv, hst.pc = "idle", NEW d \in DOMAIN sc.devs, NEW kind \in Report, kind # "rsp",
         NEW h, h.pc = "discover", h.dev = {d}, h.kind = kind
  PROVE  Good(Update(sc, d, kind), h)
<1> DEFINE D == sc.devs
           W == sc.waiting
           x == [sc.devs[d] EXCEPT !.sent = 0, !.age = 0, !.seen = TRUE]
           E == [sc.devs EXCEPT ![d] = x]
           fresh == [sc EXCEPT !.devs = E]
           r == RemoveWaiting(fresh, d)
           R == RemoveFirst(W, d)
           t == AddWaiting(r, d)
<1>0. /\ sc \in Scan /\ D \in Vector /\ W \in Seq(Devices) /\ d \in Devices /\ D[d] \in Device
      /\ \A e \in DOMAIN D : D[e] \in Device
  BY ScanTyped, VectorIs DEF ScanInv, Good
<1>1. Good(sc, hst) /\ StoredOK(D) /\ ListOK(D, W) /\ Ordered(D, W) /\ OwesOK(D, W)
      /\ SeenOK(D, W, hst) /\ Held(D, hst) = {}
  BY HeldIs DEF ScanInv, Good, Listed
<1>2. x \in Device /\ x.sent = 0 /\ x.age = 0 /\ x.scannable = D[d].scannable
  <2>1. \A y \in Device :
          LET z == [y EXCEPT !.sent = 0, !.age = 0, !.seen = TRUE]
          IN  z \in Device /\ z.sent = 0 /\ z.age = 0 /\ z.scannable = y.scannable
    <3>1. 0 \in 0..Timeout /\ 0 \in 0..2 /\ TRUE \in BOOLEAN
      BY Timeouts
    <3> QED
      BY <3>1 DEF Device
  <2> QED
    BY <1>0, <2>1
<1>3. Update(sc, d, kind) = IF fresh.devs[d].scannable THEN t ELSE fresh
  BY DEF Update
<1> HIDE DEF x
<1>4. /\ E \in Vector /\ DOMAIN E = DOMAIN D
      /\ \A e \in DOMAIN D : E[e] = IF e = d THEN x ELSE D[e]
  BY <1>0, <1>2, VectorExcept
<1> HIDE DEF E
<1>5. /\ fresh \in Scan /\ fresh.devs = E /\ fresh.waiting = W
      /\ fresh.left = sc.left /\ fresh.event = sc.event /\ fresh.timeout = sc.timeout
  BY <1>0, <1>4, DevsSet DEF Rest
<1> HIDE DEF fresh
<1>6. StoredOK(E)
  BY <1>1, <1>4 DEF StoredOK
<1>7. ListOK(E, W)
  BY <1>1, <1>2, <1>4 DEF ListOK
<1>8. Held(E, h) = {d}
  BY <1>4, HeldIs
<1>9. \A e \in DOMAIN D : e \in DOMAIN E /\ E[e].age \in Int /\ D[e].age \in Int
                       /\ E[e].age >= 0 /\ E[e].age <= D[e].age
  BY <1>0, <1>2, <1>4, DeviceIs
<1>10. Timed(sc) => Timed(fresh)
  <2>1. sc.waiting # << >> => Head(sc.waiting) \in DOMAIN D
    BY <1>0, <1>1, HeadIsStored
  <2> QED
    BY <1>0, <1>5, <1>9, <2>1, TimedAgain
<1>11. E[d].age = 0 /\ E[d].sent = 0 /\ E[d].scannable = D[d].scannable
  BY <1>2, <1>4
<1>12. CASE ~D[d].scannable
  <2>1. Update(sc, d, kind) = fresh
    BY <1>3, <1>5, <1>11, <1>12
  <2>2. \A e \in ToSet(W) : e # d /\ e \in DOMAIN D /\ E[e] = D[e]
    BY <1>1, <1>4, <1>12 DEF ListOK
  <2>3. Ordered(E, W)
    BY <1>1, <1>4, <2>2, ListStays
  <2>4. OwesOK(E, W) /\ HeldOK(E, W, h) /\ SeenOK(E, W, h)
    BY <1>1, <1>4, <1>8, <1>9, <1>11, <2>2 DEF OwesOK, HeldOK, SeenOK, Unreported
  <2>5. TimedOK(fresh, h)
    BY <1>1, <1>10 DEF Good, TimedOK
  <2> QED
    BY <1>5, <1>6, <1>7, <2>1, <2>3, <2>4, <2>5 DEF Good, Listed
<1>13. CASE D[d].scannable
  <2>1. Update(sc, d, kind) = t
    BY <1>3, <1>5, <1>11, <1>13
  <2>2. /\ r \in Scan /\ r.devs = E /\ r.waiting = R
        /\ Timed(fresh) \/ W = << >> \/ Head(W) = d => Timed(r)
    BY <1>5, <1>7, RemoveWaitingIs
  <2>3. ListOK(D, R) /\ Ordered(D, R) /\ ToSet(R) = ToSet(W) \ {d} /\ R \in Seq(Devices)
    BY <1>1, ListRemoved DEF ListOK
  <2> DEFINE V == Append(R, d)
  <2> HIDE DEF r, R
  <2>4. /\ t \in Scan /\ t.devs = E /\ t.waiting = V
        /\ R # << >> /\ Timed(r) => Timed(t)
    BY <1>0, <2>2, <2>3, AddWaitingIs
  <2>5. Head(V) = IF R = << >> THEN d ELSE Head(R)
    BY <1>0, <2>3
  <2> HIDE DEF V, t
  <2>6. \A e \in ToSet(R) : e # d /\ e \in DOMAIN D /\ E[e] = D[e] /\ E[e].age >= E[d].age
    BY <1>4, <1>9, <1>11, <2>3 DEF ListOK
  <2>7. ListOK(E, R) /\ Ordered(E, R)
    BY <1>4, <2>3, <2>6, ListStays
  <2>8. ListOK(E, V) /\ Ordered(E, V) /\ ToSet(V) = ToSet(R) \cup {d}
    <3>1. d \in DOMAIN E /\ E[d].scannable /\ d \notin ToSet(R)
      BY <1>4, <1>11, <1>13, <2>3
    <3>2. \A e \in ToSet(R) : E[e].age >= E[d].age
      BY <2>6
    <3> QED
      BY <1>0, <2>7, <3>1, <3>2, ListAppended DEF V
  <2>9. V # << >> /\ V \in Seq(Devices)
    BY <1>0, <2>3 DEF V
  <2>10. OwesOK(E, V)
    BY <1>1, <1>11, <2>3, <2>6, <2>8 DEF OwesOK, Unreported
  <2>11. HeldOK(E, V, h)
    BY <1>8, <1>11, <2>6, <2>8 DEF HeldOK, Unreported
  <2>12. SeenOK(E, V, h)
    BY <1>1, <1>4, <1>8, <2>3, <2>8 DEF SeenOK, Unreported
  <2>13. TimedOK(t, h)
    <3>1. CASE R = << >>
      BY <1>8, <2>4, <2>5, <2>9, <3>1 DEF TimedOK
    <3>2. CASE R # << >>
      BY <1>1, <1>10, <2>2, <2>4, <3>2 DEF Good, TimedOK
    <3> QED
      BY <3>1, <3>2
  <2> QED
    BY <1>6, <2>1, <2>4, <2>8, <2>10, <2>11, <2>12, <2>13 DEF Good, Listed
<1> QED
  BY <1>12, <1>13

LEMMA AdvertisedGood ==
  ASSUME ScanInv, NEW d \in Devices, NEW kind \in Report, Advertised(d, kind)
  PROVE  Good(sc', hst')
<1>1. hst'.pc = "discover" /\ hst'.dev = {d} /\ hst'.kind = kind
  BY DEF Advertised
<1>2. CASE d \notin Stored(sc)
  BY <1>1, <1>2, NewGood DEF Advertised
<1>3. CASE d \in Stored(sc) /\ kind = "rsp"
  BY <1>1, <1>3, ResponseGood DEF Advertised, Update, Stored
<1>4. CASE d \in Stored(sc) /\ kind # "rsp"
  BY <1>1, <1>4, AgainGood DEF Advertised, Stored
<1> QED
  BY <1>2, <1>3, <1>4

\* The handler counts what it reported.
SetSent(s, d, n) == [s EXCEPT !.devs[d].sent = n]

LEMMA SentIs ==
  ASSUME NEW h, NEW s, Good(s, h), NEW d \in DOMAIN s.devs, NEW n \in 0..2
  PROVE  LET t == SetSent(s, d, n)
         IN  /\ t \in Scan /\ t.waiting = s.waiting /\ DOMAIN t.devs = DOMAIN s.devs
             /\ t.devs[d].sent = n
             /\ \A e \in DOMAIN s.devs :
                  /\ e # d => t.devs[e] = s.devs[e]
                  /\ t.devs[e].age = s.devs[e].age /\ t.devs[e].seen = s.devs[e].seen
             /\ StoredOK(t.devs) /\ ListOK(t.devs, s.waiting) /\ Ordered(t.devs, s.waiting)
             /\ Timed(s) => Timed(t)
<1> DEFINE x == [s.devs[d] EXCEPT !.sent = n]
           E == [s.devs EXCEPT ![d] = x]
           t == [s EXCEPT !.devs = E]
<1>1. /\ s \in Scan /\ s.devs \in Vector /\ StoredOK(s.devs)
      /\ ListOK(s.devs, s.waiting) /\ Ordered(s.devs, s.waiting)
      /\ \A e \in DOMAIN s.devs : s.devs[e] \in Device
  BY ScanTyped, VectorIs DEF Good, Listed
<1>2. /\ x \in Device /\ x.sent = n /\ x.age = s.devs[d].age
      /\ x.scannable = s.devs[d].scannable /\ x.seen = s.devs[d].seen
  BY <1>1 DEF Device
<1>3. SetSent(s, d, n) = t
  BY DEF SetSent
<1> HIDE DEF x
<1>4. /\ E \in Vector /\ DOMAIN E = DOMAIN s.devs
      /\ \A e \in DOMAIN s.devs : E[e] = IF e = d THEN x ELSE s.devs[e]
  BY <1>1, <1>2, VectorExcept
<1> HIDE DEF E
<1>5. /\ t \in Scan /\ t.devs = E /\ t.waiting = s.waiting
      /\ t.left = s.left /\ t.event = s.event /\ t.timeout = s.timeout
  BY <1>1, <1>4, DevsSet DEF Rest
<1> HIDE DEF t
<1>6. \A e \in DOMAIN s.devs : /\ E[e].age = s.devs[e].age /\ E[e].seen = s.devs[e].seen
                              /\ E[e].scannable = s.devs[e].scannable
  BY <1>2, <1>4
<1>7. StoredOK(E) /\ ListOK(E, s.waiting) /\ Ordered(E, s.waiting)
  <2>1. \A e \in ToSet(s.waiting) : e \in DOMAIN s.devs
    BY <1>1 DEF ListOK
  <2> QED
    BY <1>1, <1>4, <1>6, <2>1, ListStays DEF StoredOK
<1>8. Timed(s) => Timed(t)
  <2>1. s.waiting # << >> => /\ s.devs[Head(s.waiting)].age \in Int
                             /\ t.devs[Head(s.waiting)].age = s.devs[Head(s.waiting)].age
    BY <1>1, <1>5, <1>6, HeadIsStored, DeviceIs
  <2> QED
    BY <1>1, <1>5, <2>1, TimedAgain
<1> QED
  BY <1>2, <1>3, <1>4, <1>5, <1>6, <1>7, <1>8

\* The device that the handler holds.
LEMMA HandlingIs ==
  ASSUME ScanInv, NEW d \in Devices, NEW from, NEW to, Handling(d, from, to)
  PROVE  /\ Good(sc, hst) /\ hst.pc = from /\ hst.dev = {d} /\ d \in DOMAIN sc.devs
         /\ sc \in Scan /\ sc.devs[d] \in Device
         /\ to = "idle" => hst' = Idle
         /\ to # "idle" => hst'.pc = to /\ hst'.dev = {d} /\ hst'.kind = hst.kind
<1>1. /\ Good(sc, hst) /\ hst.pc = from /\ hst.dev = {d} /\ d \in DOMAIN sc.devs
      /\ hst' = IF to = "idle" THEN Idle ELSE [hst EXCEPT !.pc = to]
      /\ hst \in HostTask /\ sc \in Scan
  BY DEF ScanInv, Good, Handling, Stored, HandlerOK
<1>2. sc.devs[d] \in Device
  BY <1>1, ScanTyped, VectorIs
<1> QED
  BY <1>1, <1>2 DEF HostTask

LEMMA DiscoverGood ==
  ASSUME ScanInv, NEW d \in Devices, Discover(d)
  PROVE  Good(sc', hst')
<1> DEFINE n == IF sc.devs[d].sent = 0 THEN 1 ELSE sc.devs[d].sent
<1>1. /\ Good(sc, hst) /\ hst.pc = "discover" /\ hst.dev = {d} /\ d \in DOMAIN sc.devs
      /\ sc.devs[d] \in Device
      /\ hst'.pc = "report" /\ hst'.dev = {d} /\ hst'.kind = hst.kind
  BY HandlingIs DEF Discover
<1>2. n \in 0..2 /\ n >= 1 /\ (n < 2 <=> sc.devs[d].sent < 2)
  BY <1>1, DeviceIs
<1>3. sc' = SetSent(sc, d, n)
  BY DEF Discover, SetSent
<1> HIDE DEF n
<1>4. /\ sc' \in Scan /\ sc'.waiting = sc.waiting /\ DOMAIN sc'.devs = DOMAIN sc.devs
      /\ sc'.devs[d].sent = n
      /\ \A e \in DOMAIN sc.devs :
           /\ e # d => sc'.devs[e] = sc.devs[e]
           /\ sc'.devs[e].age = sc.devs[e].age /\ sc'.devs[e].seen = sc.devs[e].seen
      /\ StoredOK(sc'.devs) /\ ListOK(sc'.devs, sc.waiting) /\ Ordered(sc'.devs, sc.waiting)
      /\ Timed(sc) => Timed(sc')
  BY <1>1, <1>2, <1>3, SentIs
<1>5. Held(sc.devs, hst) = {d} /\ Held(sc'.devs, hst') = {d}
  BY <1>1, <1>4, HeldIs
<1>6. \A e \in DOMAIN sc.devs : Unreported(sc'.devs, e) <=> Unreported(sc.devs, e)
  BY <1>2, <1>4 DEF Unreported
<1>7. ToSet(sc.waiting) \subseteq DOMAIN sc.devs
  BY <1>1 DEF Good, Listed, ListOK
<1>8. OwesOK(sc'.devs, sc.waiting) /\ SeenOK(sc'.devs, sc.waiting, hst')
  BY <1>1, <1>4, <1>5, <1>6, <1>7 DEF Good, Listed, OwesOK, SeenOK
<1>9. HeldOK(sc'.devs, sc.waiting, hst')
  BY <1>1, <1>2, <1>4, <1>5, <1>6, <1>7 DEF Good, Listed, HeldOK
<1>10. TimedOK(sc', hst')
  BY <1>1, <1>4, <1>5 DEF Good, TimedOK
<1> QED
  BY <1>1, <1>4, <1>8, <1>9, <1>10 DEF Good, Listed

LEMMA ReportNowGood ==
  ASSUME ScanInv, NEW d \in Devices, ReportNow(d)
  PROVE  Good(sc', hst')
<1>1. /\ Good(sc, hst) /\ hst.pc = "report" /\ hst.dev = {d} /\ d \in DOMAIN sc.devs
      /\ sc.devs[d] \in Device
      /\ hst'.pc = "drop" /\ hst'.dev = {d} /\ hst'.kind = hst.kind
  BY HandlingIs DEF ReportNow
<1>2. Held(sc.devs, hst) = {d}
  BY <1>1, HeldIs
<1>3. sc.devs[d].sent \in 1..2
  BY <1>1, <1>2, DeviceIs DEF Good, Listed, HeldOK
<1>4. Smaller(sc.devs[d].sent + 1, 2) = 2
  BY <1>3 DEF Smaller
<1>5. sc' = SetSent(sc, d, 2)
  BY <1>4 DEF ReportNow, SetSent
<1>6. /\ sc' \in Scan /\ sc'.waiting = sc.waiting /\ DOMAIN sc'.devs = DOMAIN sc.devs
      /\ sc'.devs[d].sent = 2
      /\ \A e \in DOMAIN sc.devs : e # d => sc'.devs[e] = sc.devs[e]
      /\ StoredOK(sc'.devs) /\ ListOK(sc'.devs, sc.waiting) /\ Ordered(sc'.devs, sc.waiting)
      /\ Timed(sc) => Timed(sc')
  BY <1>1, <1>5, SentIs
<1>7. Held(sc'.devs, hst') = {}
  BY <1>1, HeldIs
<1>8. opt.passive \/ d \notin ToSet(sc.waiting)
  BY <1>1, <1>2 DEF ReportNow, Complete, Good, Listed, HeldOK, ListOK
<1>9. ToSet(sc.waiting) \subseteq DOMAIN sc.devs
  BY <1>1 DEF Good, Listed, ListOK
<1>10. OwesOK(sc'.devs, sc.waiting)
  BY <1>1, <1>6, <1>8, <1>9 DEF Good, Listed, OwesOK, Unreported
<1>11. HeldOK(sc'.devs, sc.waiting, hst')
  BY <1>7 DEF HeldOK
<1>12. SeenOK(sc'.devs, sc.waiting, hst')
  BY <1>1, <1>2, <1>6 DEF Good, Listed, SeenOK, Unreported
<1>13. TimedOK(sc', hst')
  <2>1. sc.waiting # << >> => Head(sc.waiting) \in ToSet(sc.waiting)
    BY <1>1, HeadIsStored DEF Good, Listed
  <2> QED
    BY <1>1, <1>2, <1>6, <1>8, <2>1 DEF Good, TimedOK
<1> QED
  BY <1>1, <1>6, <1>10, <1>11, <1>12, <1>13 DEF Good, Listed

LEMMA AwaitResponseGood ==
  ASSUME ScanInv, NEW d \in Devices, AwaitResponse(d)
  PROVE  Good(sc', hst')
<1> DEFINE a == AddWaiting(sc, d)
           V == IF d \in ToSet(sc.waiting) THEN sc.waiting ELSE Append(sc.waiting, d)
<1>1. /\ Good(sc, hst) /\ hst.pc = "report" /\ hst.dev = {d} /\ d \in DOMAIN sc.devs
      /\ sc \in Scan /\ sc.devs[d] \in Device
      /\ hst'.pc = "drop" /\ hst'.dev = {d} /\ hst'.kind = hst.kind
  BY HandlingIs DEF AwaitResponse
<1>2. ~opt.passive /\ sc.devs[d].scannable /\ hst.kind # "rsp"
  BY DEF AwaitResponse, Complete
<1>3. Held(sc.devs, hst) = {d} /\ Held(sc.devs, hst') = {}
  BY <1>1, HeldIs
<1>4. /\ a \in Scan /\ a.devs = sc.devs /\ a.waiting = V
      /\ sc.waiting # << >> /\ Timed(sc) => Timed(a)
  BY <1>1, AddWaitingIs
<1>5. Unreported(sc.devs, d) /\ \A e \in ToSet(sc.waiting) : sc.devs[e].age >= sc.devs[d].age
  <2>1. \A e \in ToSet(sc.waiting) : sc.devs[e].age \in Int
    BY <1>1, ScanTyped, VectorIs, DeviceIs DEF Good, Listed, ListOK
  <2> QED
    BY <1>1, <1>2, <1>3, <2>1, DeviceIs DEF Good, Listed, HeldOK
<1>6. ListOK(sc.devs, V) /\ Ordered(sc.devs, V) /\ ToSet(V) = ToSet(sc.waiting) \cup {d}
  BY <1>1, <1>2, <1>5, ListAppended DEF Good, Listed
<1>7. /\ V # << >>
      /\ sc.waiting # << >> => Head(V) = Head(sc.waiting)
      /\ sc.waiting = << >> => Head(V) = d
  <2>1. sc.waiting \in Seq(Devices)
    BY <1>1, ScanTyped
  <2>2. CASE d \in ToSet(sc.waiting)
    BY <2>1, <2>2, Members
  <2>3. CASE d \notin ToSet(sc.waiting)
    BY <2>1, <2>3
  <2> QED
    BY <2>2, <2>3
<1>8. sc' = IF Head(a.waiting) = d THEN ResetTimer(a) ELSE a
  BY DEF AwaitResponse
<1> HIDE DEF a, V
<1>9. /\ sc' \in Scan /\ sc'.devs = sc.devs /\ sc'.waiting = V
      /\ Timed(a) \/ Head(V) = d => Timed(sc')
  BY <1>4, <1>6, <1>8, ResetTimerIs
<1>10. OwesOK(sc.devs, V) /\ HeldOK(sc.devs, V, hst') /\ SeenOK(sc.devs, V, hst')
  BY <1>1, <1>3, <1>5, <1>6 DEF Good, Listed, OwesOK, HeldOK, SeenOK
<1>11. TimedOK(sc', hst')
  BY <1>1, <1>2, <1>3, <1>4, <1>7, <1>9 DEF Good, TimedOK
<1> QED
  BY <1>1, <1>6, <1>9, <1>10, <1>11 DEF Good, Listed

LEMMA DropGood ==
  ASSUME ScanInv, NEW d \in Devices, Drop(d)
  PROVE  Good(sc', hst')
<1>1. Good(sc, hst) /\ hst.pc = "drop" /\ hst' = Idle
  BY HandlingIs DEF Drop
<1>2. Good(sc', hst)
  BY <1>1, EraseIs DEF Drop, ScanInv
<1>3. Held(sc'.devs, hst) = {} /\ Held(sc'.devs, hst') = {}
  BY <1>1, HeldIs DEF Idle
<1> QED
  BY <1>1, <1>2, <1>3, GoodMoved DEF Idle

-----------------------------------------------------------------------------
(* The timer and the end of the scan.                                      *)

\* All devices grow older by a tick, up to the timeout.
LEMMA TickGood ==
  ASSUME ScanInv, Tick
  PROVE  Good(sc', hst)
<1> DEFINE D == sc.devs
           W == sc.waiting
           E == Aged(sc.devs)
           n == IF sc.left = 0 THEN 0 ELSE sc.left - 1
           b == sc.event \/ sc.left = 1
           u == [sc EXCEPT !.devs = E]
           v == [u EXCEPT !.left = n]
           t == [v EXCEPT !.event = b]
<1>0. /\ Good(sc, hst) /\ sc \in Scan /\ D \in Vector /\ W \in Seq(Devices)
      /\ \A d \in DOMAIN D : d \in Devices /\ D[d] \in Device
      /\ sc.left \in 0..Timeout /\ sc.left \in Int /\ sc.event \in BOOLEAN /\ sc.timeout \in {0, Timeout}
  BY ScanTyped, VectorIs DEF ScanInv, Good
<1>1. sc' = t
  <2>1. sc' = [sc EXCEPT !.devs = E, !.left = n, !.event = b]
    BY DEF Tick
  <2> HIDE DEF E, n, b
  <2> QED
    BY <2>1
<1>2. DOMAIN E = DOMAIN D /\ \A d \in DOMAIN D : E[d] = [D[d] EXCEPT !.age = Smaller(D[d].age + 1, Timeout)]
  BY DEF Aged
<1>3. E = [d \in DOMAIN E |-> E[d]]
  BY DEF Aged
<1>4. n \in 0..Timeout /\ n \in Int /\ (sc.left > 0 => n = sc.left - 1)
  BY <1>0, Timeouts
<1>5. b \in BOOLEAN
  OBVIOUS
<1> HIDE DEF E, n
<1>6. ASSUME NEW d \in DOMAIN D
      PROVE  /\ E[d] \in Device /\ E[d].scannable = D[d].scannable /\ E[d].sent = D[d].sent
             /\ E[d].seen = D[d].seen /\ E[d].age = Smaller(D[d].age + 1, Timeout)
             /\ D[d].age \in 0..Timeout /\ D[d].age \in Int
  <2>1. D[d] \in Device /\ D[d].age \in 0..Timeout /\ D[d].age \in Int
    BY <1>0, DeviceIs
  <2>2. Smaller(D[d].age + 1, Timeout) \in 0..Timeout
    BY <2>1, Timeouts DEF Smaller
  <2>3. \A x \in Device, a \in 0..Timeout :
          LET y == [x EXCEPT !.age = a]
          IN  /\ y \in Device /\ y.scannable = x.scannable /\ y.sent = x.sent
              /\ y.seen = x.seen /\ y.age = a
    BY DEF Device
  <2>4. E[d] = [D[d] EXCEPT !.age = Smaller(D[d].age + 1, Timeout)]
    BY <1>2
  <2> HIDE DEF D
  <2> QED
    BY <2>1, <2>2, <2>3, <2>4
<1>7. E \in Vector
  <2>1. DOMAIN E \subseteq Devices /\ \A d \in DOMAIN E : E[d] \in Device
    BY <1>0, <1>2, <1>6
  <2> QED
    BY <1>3, <2>1, VectorIs
<1>8. u \in Scan /\ u.devs = E /\ u.waiting = W /\ u.left = sc.left /\ u.event = sc.event /\ Rest(u) = Rest(sc)
  BY <1>0, <1>7, DevsSet
<1> HIDE DEF u
<1>9. v \in Scan /\ v.devs = E /\ v.waiting = W /\ v.left = n /\ v.event = sc.event /\ Rest(v) = Rest(sc)
  BY <1>4, <1>8, LeftSet
<1> HIDE DEF v
<1>10. t \in Scan /\ t.devs = E /\ t.waiting = W /\ t.left = n /\ t.event = b /\ t.timeout = sc.timeout
  BY <1>5, <1>9, EventSet DEF Rest
<1> HIDE DEF t, b
<1>11. StoredOK(E)
  BY <1>0, <1>2, <1>7 DEF Good, Listed, StoredOK
<1>12. \A d \in ToSet(W) : d \in DOMAIN D
  BY <1>0 DEF Good, Listed, ListOK
<1>13. \A d, e \in DOMAIN D : D[d].age >= D[e].age => E[d].age >= E[e].age
  BY <1>6, Timeouts DEF Smaller
<1>14. ListOK(E, W) /\ Ordered(E, W)
  <2>1. ListOK(D, W) /\ Ordered(D, W)
    BY <1>0 DEF Good, Listed
  <2>2. \A d \in ToSet(W) : d \in DOMAIN E /\ E[d].scannable = D[d].scannable
    BY <1>2, <1>6, <1>12
  <2>3. \A d, e \in ToSet(W) : D[d].age >= D[e].age => E[d].age >= E[e].age
    BY <1>12, <1>13
  <2> HIDE DEF D, W
  <2> QED
    BY <2>1, <2>2, <2>3, ListStays
<1>15. Held(E, hst) = Held(D, hst) /\ Held(D, hst) \subseteq DOMAIN D
  BY <1>2 DEF Held
<1>16. OwesOK(E, W) /\ SeenOK(E, W, hst)
  BY <1>0, <1>2, <1>6, <1>12, <1>15 DEF Good, Listed, OwesOK, SeenOK, Unreported
<1>17. HeldOK(E, W, hst)
  <2>1. HeldOK(D, W, hst)
    BY <1>0 DEF Good, Listed
  <2>2. \A d \in Held(D, hst), e \in ToSet(W) : D[d].age <= D[e].age => E[d].age <= E[e].age
    BY <1>6, <1>12, <1>15, Timeouts DEF Smaller
  <2> HIDE DEF D, W
  <2> QED
    BY <1>6, <1>15, <2>1, <2>2 DEF HeldOK, Unreported
<1>18. Timed(sc) => Timed(t)
  <2> SUFFICES ASSUME Timed(sc), W # << >>, sc.timeout # 0
               PROVE  Timed(t)
    BY <1>10 DEF Timed
  <2>1. Head(W) \in DOMAIN D
    BY <1>0, HeadIsStored DEF Good, Listed
  <2> DEFINE a == D[Head(W)].age
  <2>2. a \in 0..Timeout /\ a \in Int /\ E[Head(W)].age = Smaller(a + 1, Timeout)
    BY <1>6, <2>1
  <2>3. CASE sc.event \/ sc.left = 1
    BY <1>10, <2>3 DEF Timed, b
  <2>4. CASE ~sc.event /\ sc.left # 1
    <3>1. sc.left > 0 /\ a + sc.left <= sc.timeout
      BY <2>4 DEF Timed
    <3>2. n = sc.left - 1 /\ n > 0
      BY <1>0, <1>4, <2>4, <3>1
    <3> HIDE DEF a
    <3>3. Smaller(a + 1, Timeout) + n <= sc.timeout
      BY <1>0, <2>2, <3>1, <3>2, Timeouts DEF Smaller
    <3> QED
      BY <1>10, <2>2, <3>2, <3>3 DEF Timed
  <2> QED
    BY <2>3, <2>4
<1>19. TimedOK(t, hst)
  BY <1>0, <1>10, <1>15, <1>18 DEF Good, TimedOK
<1> QED
  BY <1>0, <1>1, <1>10, <1>11, <1>14, <1>16, <1>17, <1>19 DEF Good, Listed

\* The timer's event is taken from the queue.
LEMMA TakenIs ==
  ASSUME NEW h, NEW s, Good(s, h)
  PROVE  LET t == [s EXCEPT !.event = FALSE]
         IN  t \in Scan /\ t.devs = s.devs /\ t.waiting = s.waiting /\ Listed(t, h)
BY EventSet DEF Good, Listed

LEMMA TimerEarlyGood ==
  ASSUME ScanInv, TimerEarly
  PROVE  Good(sc', hst)
<1> DEFINE taken == [sc EXCEPT !.event = FALSE]
<1>1. Good(sc, hst) /\ hst.pc = "idle"
  BY DEF ScanInv, TimerEarly
<1>2. taken \in Scan /\ taken.devs = sc.devs /\ taken.waiting = sc.waiting /\ Listed(taken, hst)
  BY <1>1, TakenIs
<1>3. sc' = IF sc.waiting = << >> THEN StopTimer(taken) ELSE ResetTimer(taken)
  BY DEF TimerEarly
<1> HIDE DEF taken
<1>4. sc' \in Scan /\ sc'.devs = sc.devs /\ sc'.waiting = sc.waiting /\ Timed(sc')
  <2>1. CASE sc.waiting = << >>
    BY <1>2, <1>3, <2>1, StopTimerIs DEF Timed
  <2>2. CASE sc.waiting # << >>
    BY <1>2, <1>3, <2>2, ResetTimerIs DEF Listed
  <2> QED
    BY <2>1, <2>2
<1> QED
  BY <1>1, <1>4, GoodAgain DEF TimedOK

LEMMA TimerExpiresGood ==
  ASSUME ScanInv, TimerExpires
  PROVE  Good(sc', hst')
<1> DEFINE taken == [sc EXCEPT !.event = FALSE]
           d == Head(sc.waiting)
<1>1. Good(sc, hst) /\ hst.pc = "idle" /\ sc.waiting # << >> /\ hst'.pc = "timedOut"
  BY DEF ScanInv, TimerExpires, HeadOverdue, Idle
<1>2. taken \in Scan /\ taken.devs = sc.devs /\ taken.waiting = sc.waiting /\ Listed(taken, hst)
  BY <1>1, TakenIs
<1>3. sc' = [RemoveWaiting(taken, Head(taken.waiting)) EXCEPT !.devs[Head(taken.waiting)].sent = 2]
  BY <1>2 DEF TimerExpires
<1> HIDE DEF taken
<1>4. Held(taken.devs, hst) = {} /\ Held(taken.devs, hst') = {} /\ hst'.pc # "ended"
  BY <1>1, HeldIs
<1> QED
  BY <1>1, <1>2, <1>3, <1>4, ReportedIs

LEMMA TimedOutGood ==
  ASSUME ScanInv, TimedOut
  PROVE  Good(sc', hst')
<1>1. Good(sc, hst) /\ hst.pc = "timedOut" /\ hst'.pc = "idle"
  BY DEF ScanInv, TimedOut, Idle
<1>2. Good(sc', hst)
  BY <1>1, EraseIs DEF TimedOut, ScanInv
<1>3. Held(sc'.devs, hst) = {} /\ Held(sc'.devs, hst') = {}
  BY <1>1, HeldIs
<1> QED
  BY <1>1, <1>2, <1>3, GoodMoved

\* The procedure is over, by its duration or because the host lost the controller.
LEMMA ScanExpiresGood ==
  ASSUME ScanInv, ScanExpires \/ HostReset
  PROVE  Good(sc', hst')
<1>1. /\ Good(sc, hst) /\ sc \in Scan /\ hst.pc = "idle"
      /\ hst' = hst \/ hst'.pc = "complete"
  BY DEF ScanInv, Good, ScanExpires, HostReset, Idle
<1>2. /\ sc' \in Scan /\ sc'.devs = sc.devs /\ sc'.waiting = sc.waiting
      /\ sc'.left = sc.left /\ sc'.event = sc.event /\ sc'.timeout = sc.timeout
  BY <1>1, ScanIs DEF ScanExpires, HostReset, ScanRecord
<1>3. Good(sc', hst)
  BY <1>1, <1>2, GoodOther
<1>4. Held(sc'.devs, hst) = {} /\ Held(sc'.devs, hst') = {}
  BY <1>1, HeldIs
<1> QED
  BY <1>1, <1>3, <1>4, GoodMoved

LEMMA DiscCompleteGood ==
  ASSUME ScanInv, DiscComplete
  PROVE  Good(sc', hst')
<1>1. Good(sc, hst) /\ sc \in Scan /\ hst.pc = "complete" /\ hst'.pc = "flush"
  BY DEF ScanInv, Good, DiscComplete, HandlerOK, HostTask
<1>2. sc' \in Scan /\ sc'.devs = sc.devs /\ sc'.waiting = sc.waiting
  BY <1>1, StopTimerIs DEF DiscComplete
<1>3. Held(sc'.devs, hst) = {} /\ Held(sc'.devs, hst') = {}
  BY <1>1, HeldIs
<1> QED
  BY <1>1, <1>2, <1>3 DEF Good, Listed, HeldOK, SeenOK, TimedOK

LEMMA FlushGood ==
  ASSUME ScanInv, Flush
  PROVE  Good(sc', hst)
<1>1. Good(sc, hst) /\ sc \in Scan /\ Listed(sc, hst) /\ hst.pc = "flush" /\ sc.waiting # << >>
  BY DEF ScanInv, Good, Flush
<1>2. sc' = [RemoveWaiting(sc, Head(sc.waiting)) EXCEPT !.devs[Head(sc.waiting)].sent = 2]
  BY DEF Flush
<1>3. Held(sc.devs, hst) = {}
  BY <1>1, HeldIs
<1> QED
  BY <1>1, <1>2, <1>3, ReportedIs

LEMMA EndScanGood ==
  ASSUME ScanInv, EndScan
  PROVE  Good(sc', hst')
<1>1. Good(sc, hst) /\ hst.pc = "flush" /\ sc.waiting = << >> /\ hst'.pc = "ended"
  BY DEF ScanInv, EndScan, HandlerOK, HostTask
<1>2. Good(sc', hst) /\ sc'.waiting = << >>
  BY <1>1, ClearIs DEF EndScan, ScanInv
<1>3. Held(sc'.devs, hst) = {} /\ Held(sc'.devs, hst') = {}
  BY <1>1, HeldIs
<1> QED
  BY <1>1, <1>2, <1>3, GoodMoved

LEMMA FinishGood ==
  ASSUME ScanInv, Finish
  PROVE  Good(sc', hst')
<1>1. Good(sc, hst) /\ hst.pc = "ended" /\ hst'.pc = "idle"
  BY DEF ScanInv, Finish, Idle
<1>2. Good(sc', hst)
  BY <1>1, ReleaseIs DEF Finish
<1>3. Held(sc'.devs, hst) = {} /\ Held(sc'.devs, hst') = {}
  BY <1>1, HeldIs
<1> QED
  BY <1>1, <1>2, <1>3, GoodMoved

LEMMA HostSyncGood ==
  ASSUME ScanInv, HostSync
  PROVE  Good(sc', hst')
<1>1. Good(sc, hst) /\ sc \in Scan /\ hst.pc = "idle" /\ hst'.pc = "synced"
  BY DEF ScanInv, Good, HostSync, HandlerOK, HostTask
<1>2. /\ sc' \in Scan /\ sc'.devs = sc.devs /\ sc'.waiting = sc.waiting
      /\ sc'.left = sc.left /\ sc'.event = sc.event /\ sc'.timeout = sc.timeout
  BY <1>1, ScanIs DEF HostSync, ScanRecord
<1>3. Good(sc', hst)
  BY <1>1, <1>2, GoodOther
<1>4. Held(sc'.devs, hst) = {} /\ Held(sc'.devs, hst') = {}
  BY <1>1, HeldIs
<1> QED
  BY <1>1, <1>3, <1>4, GoodMoved

LEMMA OnHostSyncGood ==
  ASSUME ScanInv, OnHostSync
  PROVE  Good(sc, hst')
<1>1. Good(sc, hst) /\ hst.pc = "synced" /\ hst'.pc = "idle"
  BY DEF ScanInv, OnHostSync, Idle
<1>2. Held(sc.devs, hst) = {} /\ Held(sc.devs, hst') = {}
  BY <1>1, HeldIs
<1> QED
  BY <1>1, <1>2, GoodMoved

-----------------------------------------------------------------------------
(* The calls.                                                              *)

LEMMA StartScanGood ==
  ASSUME ScanInv, NEW duration \in {"timed", "forever"}, NEW cont, NEW restart,
         StartScan(duration, cont, restart)
  PROVE  Good(sc', hst)
<1>1. Good(Prepare(sc, cont, restart), hst)
  BY PrepareIs DEF ScanInv
<1>2. Good(Discovery(Prepare(sc, cont, restart), duration), hst)
  BY <1>1, DiscoveryIs
<1> QED
  BY <1>1, <1>2 DEF StartScan

LEMMA SetTimeoutGood ==
  ASSUME ScanInv, NEW t \in {0, Timeout}, SetScanResponseTimeout(t)
  PROVE  Good(sc', hst)
<1> DEFINE set == [sc EXCEPT !.timeout = t]
<1>1. Good(sc, hst) /\ sc \in Scan
  BY DEF ScanInv, Good
<1>2. set \in Scan /\ set.devs = sc.devs /\ set.waiting = sc.waiting /\ set.timeout = t
  BY <1>1, ScanIs DEF ScanRecord
<1>3. sc' = IF t = 0 THEN StopTimer(set) ELSE ResetTimer(set)
  BY DEF SetScanResponseTimeout
<1> HIDE DEF set
<1>4. sc' \in Scan /\ sc'.devs = sc.devs /\ sc'.waiting = sc.waiting /\ Timed(sc')
  <2>1. CASE t = 0
    BY <1>2, <1>3, <2>1, StopTimerIs DEF Timed, Rest
  <2>2. CASE t # 0
    BY <1>1, <1>2, <1>3, <2>2, ResetTimerIs DEF Good, Listed
  <2> QED
    BY <2>1, <2>2
<1> QED
  BY <1>1, <1>4, GoodAgain DEF TimedOK

LEMMA GetBeginGood ==
  ASSUME ScanInv, GetBegin \/ GetReturn
  PROVE  Good(sc', hst)
<1>1. Good(sc, hst) /\ sc \in Scan
  BY DEF ScanInv, Good
<1>2. /\ sc' \in Scan /\ sc'.devs = sc.devs /\ sc'.waiting = sc.waiting
      /\ sc'.left = sc.left /\ sc'.event = sc.event /\ sc'.timeout = sc.timeout
  BY <1>1, ScanIs DEF GetBegin, GetReturn, ScanRecord
<1> QED
  BY <1>1, <1>2, GoodOther

LEMMA GetStartGood ==
  ASSUME ScanInv, NEW cont, GetStart(cont)
  PROVE  Good(sc', hst)
<1> DEFINE ready == Prepare(sc, cont, TRUE)
           begun == Discovery(ready, "timed")
<1>1. Good(ready, hst)
  BY PrepareIs DEF ScanInv
<1>2. Good(begun, hst)
  BY <1>1, DiscoveryIs
<1>3. \/ sc' = [begun EXCEPT !.get = "wait", !.own = TRUE]
      \/ sc' = [ready EXCEPT !.get = "idle"]
  BY DEF GetStart
<1> HIDE DEF ready, begun
<1>4. CASE sc' = [begun EXCEPT !.get = "wait", !.own = TRUE]
  <2>1. /\ sc' \in Scan /\ sc'.devs = begun.devs /\ sc'.waiting = begun.waiting
        /\ sc'.left = begun.left /\ sc'.event = begun.event /\ sc'.timeout = begun.timeout
    BY <1>2, <1>4, ScanIs DEF Good, ScanRecord
  <2> QED
    BY <1>2, <2>1, GoodOther
<1>5. CASE sc' = [ready EXCEPT !.get = "idle"]
  <2>1. /\ sc' \in Scan /\ sc'.devs = ready.devs /\ sc'.waiting = ready.waiting
        /\ sc'.left = ready.left /\ sc'.event = ready.event /\ sc'.timeout = ready.timeout
    BY <1>1, <1>5, ScanIs DEF Good, ScanRecord
  <2> QED
    BY <1>1, <2>1, GoodOther
<1> QED
  BY <1>3, <1>4, <1>5

-----------------------------------------------------------------------------
(* The invariant holds of every behaviour.                                 *)

LEMMA InitScanInv == Init => ScanInv
<1> SUFFICES ASSUME Init PROVE ScanInv
  OBVIOUS
<1>1. << >> \in Vector
  <2>1. DOMAIN << >> = {} /\ << >> = [d \in {} |-> << >>[d]]
    OBVIOUS
  <2> QED
    BY <2>1, VectorIs
<1>2. sc \in Scan /\ sc.devs = << >> /\ sc.waiting = << >>
  BY <1>1, EmptyList, Timeouts, ScanIs DEF Init, ScanRecord
<1>3. opt \in Settings /\ HandlerOK(hst)
  BY DEF Init, Idle, HandlerOK, HostTask, Report
<1> QED
  BY <1>2, <1>3, GoodEmpty DEF ScanInv

\* What is good stays good while the settings stay.
LEMMA StepScanInv ==
  ASSUME opt \in Settings, opt' = opt, HandlerOK(hst'), Good(sc', hst')
  PROVE  ScanInv'
BY DEF ScanInv, Good, Listed, StoredOK, OwesOK, TimedOK

LEMMA NextScanInv == ScanInv /\ [Next]_vars => ScanInv'
<1> SUFFICES ASSUME ScanInv, [Next]_vars PROVE ScanInv'
  OBVIOUS
<1>0. opt \in Settings /\ HandlerOK(hst) /\ hst \in HostTask /\ Good(sc, hst)
  BY DEF ScanInv, HandlerOK
<1>1. ASSUME NEW d \in Devices, NEW kind \in Report, Advertised(d, kind) PROVE ScanInv'
  <2>1. HandlerOK(hst') /\ opt' = opt
    BY <1>1 DEF Advertised, HandlerOK, HostTask
  <2> QED
    BY <1>0, <1>1, <2>1, AdvertisedGood, StepScanInv
<1>2. ASSUME NEW d \in Devices, HandlerStep(d) PROVE ScanInv'
  <2>1. HandlerOK(hst') /\ opt' = opt
    BY <1>0, <1>2 DEF HandlerStep, Discover, ReportNow, AwaitResponse, Drop, Handling,
                      HandlerOK, HostTask, Idle, Report
  <2> QED
    BY <1>0, <1>2, <2>1, DiscoverGood, ReportNowGood, AwaitResponseGood, DropGood, StepScanInv
       DEF HandlerStep
<1>3. CASE TimedOut
  <2>1. HandlerOK(hst') /\ opt' = opt
    BY <1>3 DEF TimedOut, HandlerOK, HostTask, Idle, Report
  <2> QED
    BY <1>0, <1>3, <2>1, TimedOutGood, StepScanInv
<1>4. CASE DiscComplete
  <2>1. HandlerOK(hst') /\ opt' = opt
    BY <1>0, <1>4 DEF DiscComplete, HandlerOK, HostTask
  <2> QED
    BY <1>0, <1>4, <2>1, DiscCompleteGood, StepScanInv
<1>5. CASE Flush
  BY <1>0, <1>5, FlushGood, StepScanInv DEF Flush
<1>6. CASE EndScan
  <2>1. HandlerOK(hst') /\ opt' = opt
    BY <1>0, <1>6 DEF EndScan, HandlerOK, HostTask
  <2> QED
    BY <1>0, <1>6, <2>1, EndScanGood, StepScanInv
<1>7. CASE Finish
  <2>1. HandlerOK(hst') /\ opt' = opt
    BY <1>7 DEF Finish, HandlerOK, HostTask, Idle, Report
  <2> QED
    BY <1>0, <1>7, <2>1, FinishGood, StepScanInv
<1>8. CASE Tick
  BY <1>0, <1>8, TickGood, StepScanInv DEF Tick
<1>9. CASE TimerEarly
  BY <1>0, <1>9, TimerEarlyGood, StepScanInv DEF TimerEarly
<1>10. CASE TimerExpires
  <2>1. Head(sc.waiting) \in Devices
    BY <1>0, <1>10, HeadIsStored, ScanTyped, VectorIs DEF TimerExpires, HeadOverdue, Good, Listed
  <2>2. HandlerOK(hst') /\ opt' = opt
    BY <1>10, <2>1 DEF TimerExpires, HandlerOK, HostTask, Idle, Report
  <2> QED
    BY <1>0, <1>10, <2>2, TimerExpiresGood, StepScanInv
<1>11. CASE ScanExpires \/ HostReset
  <2>1. HandlerOK(hst') /\ opt' = opt
    BY <1>0, <1>11 DEF ScanExpires, HostReset, HandlerOK, HostTask, Idle, Report
  <2> QED
    BY <1>0, <1>11, <2>1, ScanExpiresGood, StepScanInv
<1>12. CASE HostSync
  <2>1. HandlerOK(hst') /\ opt' = opt
    BY <1>0, <1>12 DEF HostSync, HandlerOK, HostTask
  <2> QED
    BY <1>0, <1>12, <2>1, HostSyncGood, StepScanInv
<1>13. ASSUME NEW duration \in {"timed", "forever"}, NEW cont \in BOOLEAN, NEW restart \in BOOLEAN,
              StartScan(duration, cont, restart)
       PROVE  ScanInv'
  BY <1>0, <1>13, StartScanGood, StepScanInv DEF StartScan, Call
<1>14. CASE StopScan
  BY <1>0, <1>14, StopIs, StepScanInv DEF StopScan, Call
<1>15. CASE ClearResults
  BY <1>0, <1>15, ClearIs, StepScanInv DEF ClearResults, Call
<1>16. ASSUME NEW d \in Devices, EraseDevice(d) PROVE ScanInv'
  BY <1>0, <1>16, EraseIs, StepScanInv DEF EraseDevice, Call
<1>17. ASSUME NEW t \in {0, Timeout}, SetScanResponseTimeout(t) PROVE ScanInv'
  BY <1>0, <1>17, SetTimeoutGood, StepScanInv DEF SetScanResponseTimeout, Call
<1>18. CASE GetBegin \/ GetReturn
  BY <1>0, <1>18, GetBeginGood, StepScanInv DEF GetBegin, GetReturn
<1>19. ASSUME NEW cont \in BOOLEAN, GetStart(cont) PROVE ScanInv'
  BY <1>0, <1>19, GetStartGood, StepScanInv DEF GetStart
<1>20. CASE UNCHANGED vars
  BY <1>0, <1>20, StepScanInv DEF vars
<1>21. CASE OnHostSync
  <2>1. HandlerOK(hst') /\ opt' = opt /\ sc' = sc
    BY <1>21 DEF OnHostSync, HandlerOK, HostTask, Idle, Report
  <2> QED
    BY <1>0, <1>21, <2>1, OnHostSyncGood, StepScanInv
<1> QED
  BY <1>1, <1>2, <1>3, <1>4, <1>5, <1>6, <1>7, <1>8, <1>9, <1>10, <1>11, <1>12, <1>13, <1>14,
     <1>15, <1>16, <1>17, <1>18, <1>19, <1>20, <1>21 DEF Next, HostStep, AppCall

\* The devices, the waiting list, its timer and the handler agree, in every state.
THEOREM ScanIsConsistent == Spec => []ScanInv
BY InitScanInv, NextScanInv, PTL DEF Spec

\* A device on the waiting list is on it once, is in the result vector, and in an
\* active scan still owes its onResult(): the list holds no deleted device.
THEOREM TheListIsOwed == Spec => []WaitingOwesResult
<1>1. ScanInv => WaitingOwesResult
  BY DEF ScanInv, Good, Listed, ListOK, OwesOK, Unreported, WaitingOwesResult, Stored
<1> QED
  BY <1>1, ScanIsConsistent, PTL

\* The state is typed, no more devices are stored than setMaxResults() allows, and
\* the list is in the order of the advertisements.
THEOREM TheListIsInOrder == Spec => []HeadIsOldest
<1>1. ScanInv => TypeOK
  BY DEF ScanInv, Good, Listed, StoredOK, HandlerOK, TypeOK
<1>2. ASSUME ScanInv
      PROVE  \A i, j \in DOMAIN sc.waiting :
               i < j => sc.devs[sc.waiting[i]].age >= sc.devs[sc.waiting[j]].age
  <2>1. sc.waiting \in Seq(Devices) /\ Ordered(sc.devs, sc.waiting)
    BY <1>2 DEF ScanInv, Good, Listed, ListOK
  <2>2. DOMAIN sc.waiting = 1..Len(sc.waiting)
    BY <2>1
  <2> QED
    BY <2>1, <2>2 DEF Ordered
<1>3. ScanInv => HeadIsOldest
  BY <1>1, <1>2 DEF HeadIsOldest
<1> QED
  BY <1>3, ScanIsConsistent, PTL

\* Between two events, and at onHostSync(), the head of an active scan's list is timed.
THEOREM TheHeadIsTimed == Spec => []HeadIsTimed
<1>1. ScanInv => HeadIsTimed
  BY HeldIs DEF ScanInv, Good, TimedOK, Timed, HeadIsTimed
<1> QED
  BY <1>1, ScanIsConsistent, PTL

\* When the handler ends a scan with onScanEnd() every device of the scan was reported
\* to onResult(); when onHostSync() calls it each is reported or on the list still.
THEOREM TheEndReportsAll == Spec => []ScanEndReportsAll
<1>1. ASSUME ScanInv, NEW d \in Stored(sc), sc.devs[d].seen
      PROVE  /\ hst.pc = "ended" => sc.devs[d].sent = 2
             /\ hst.pc = "synced" => sc.devs[d].sent = 2 \/ IsWaiting(sc, d)
  <2>1. /\ Good(sc, hst) /\ d \in DOMAIN sc.devs
        /\ hst.pc \in {"ended", "synced"} => Held(sc.devs, hst) = {}
        /\ hst.pc = "ended" => sc.waiting = << >>
    BY <1>1, HeldIs DEF ScanInv, Good, Stored
  <2>2. hst.pc \in {"ended", "synced"} /\ Unreported(sc.devs, d) => d \in ToSet(sc.waiting)
    BY <1>1, <2>1 DEF Good, Listed, SeenOK
  <2>3. sc.devs[d].sent = 2 \/ Unreported(sc.devs, d)
    <3>1. sc.devs[d].sent \in 0..2
      BY <2>1, ScanTyped, VectorIs, DeviceIs DEF Good
    <3> QED
      BY <3>1 DEF Unreported
  <2>4. sc.waiting = << >> => d \notin ToSet(sc.waiting)
    BY DEF ToSet
  <2> QED
    BY <2>1, <2>2, <2>3, <2>4 DEF IsWaiting, Contains, ToSet
<1>2. ScanInv => ScanEndReportsAll
  BY <1>1 DEF ScanEndReportsAll
<1> QED
  BY <1>2, ScanIsConsistent, PTL
===============================================================================
