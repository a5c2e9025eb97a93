------------------------------ MODULE NimBLEScan ------------------------------
(***************************************************************************)
(* The scanner: the result vector, the FIFO list of the devices that owe a *)
(* scan response, the timer for its head, the GAP event handler and the    *)
(* timer callback of the host task, and the calls that application tasks   *)
(* and user callbacks make.                                                *)
(*                                                                         *)
(* The handler is split where the user's callback runs, since the callback *)
(* (or another task) may call the scanner there.  Time is relative: each   *)
(* device has the age of its last advertisement, the timer what is left of *)
(* it.                                                                     *)
(***************************************************************************)
EXTENDS Integers, Sequences, FiniteSets, SequencesExt

CONSTANTS
  Devices,    \* the advertisers (address and set id)
  Timeout,    \* m_srTimeoutTicks, when scan responses time out
  Settings,   \* how the scanner is set up (see Setting)
  Calls       \* which API calls the application makes

Unlimited == 255

AllCalls == {"start", "stop", "clear", "erase", "timeout", "results", "reset"}

\* maxResults, active or passive, whether the controller reports duplicates,
\* and which calls are made while the handler holds a device.
Setting == [max : 0..Unlimited, passive : BOOLEAN, dups : BOOLEAN,
            midway : SUBSET AllCalls]

ASSUME ScanAssumption ==
  /\ Timeout \in Nat \ {0}
  /\ Settings \subseteq Setting
  /\ Calls \subseteq AllCalls

VARIABLES
  opt,   \* the settings
  sc,    \* the NimBLEScan object, and the discovery procedure of the stack
  hst    \* the host task: how far it got, with which device and report

vars == <<opt, sc, hst>>

\* sent: m_callbackSent, 2 standing for 2 and more; age: ticks since m_time,
\* at most Timeout; seen: reported by the controller in this scan (history).
Device == [scannable : BOOLEAN, sent : 0..2, age : 0..Timeout, seen : BOOLEAN]

Report == {"scannable", "other", "rsp"}

\* get: the task in getResults(duration), m_pTaskData # nullptr unless "idle";
\* own: the scan it started still runs (history).
Scan == [devs : UNION {[D -> Device] : D \in SUBSET Devices},
         waiting : Seq(Devices), left : 0..Timeout, event : BOOLEAN,
         timeout : {0, Timeout}, scan : {"off", "timed", "forever"},
         synced : BOOLEAN, get : {"idle", "begin", "wait"},
         notified : BOOLEAN, own : BOOLEAN]

HostTask == [pc : {"idle", "discover", "report", "drop", "timedOut",
                   "complete", "flush", "ended", "synced"},
             dev : SUBSET Devices, kind : Report]

\* The types; no more devices are stored than setMaxResults() allows.
TypeOK ==
  /\ opt \in Settings
  /\ sc \in Scan
  /\ hst \in HostTask
  /\ opt.max \notin {0, Unlimited} => Cardinality(DOMAIN sc.devs) <= opt.max

Idle == [pc |-> "idle", dev |-> {}, kind |-> "other"]

Init ==
  /\ opt \in Settings
  /\ sc = [devs |-> << >>, waiting |-> << >>, left |-> 0, event |-> FALSE,
           timeout |-> Timeout, scan |-> "off", synced |-> TRUE,
           get |-> "idle", notified |-> FALSE, own |-> FALSE]
  /\ hst = Idle

-----------------------------------------------------------------------------
(* The methods, as functions from the scanner's state to its next state.   *)

Smaller(a, b) == IF a < b THEN a ELSE b

\* The callout is stopped and its queued event removed.
StopTimer(s) == [s EXCEPT !.left = 0, !.event = FALSE]

\* resetWaitingTimer(): what remains for the head; a queued event stays queued.
ResetTimer(s) ==
  IF s.timeout = 0 \/ s.waiting = << >> THEN StopTimer(s)
  ELSE LET age == s.devs[Head(s.waiting)].age
       IN  [s EXCEPT !.left = IF age >= s.timeout THEN 1 ELSE s.timeout - age]

\* m_pNextWaiting # this
IsWaiting(s, d) == Contains(s.waiting, d)

AddWaiting(s, d) ==
  IF IsWaiting(s, d) THEN s ELSE [s EXCEPT !.waiting = Append(@, d)]

\* Mutant: the next head is left without a timer.
RemoveWaitingUntimed(s, d) == [s EXCEPT !.waiting = RemoveFirst(@, d)]

\* removeWaitingDevice(): the next head, if any, gets the timer.
RemoveWaiting(s, d) ==
  LET removed == [s EXCEPT !.waiting = RemoveFirst(@, d)]
  IN  IF s.waiting # << >> /\ Head(s.waiting) = d /\ Len(s.waiting) > 1
      THEN ResetTimer(removed)
      ELSE removed

ClearWaiting(s) == [StopTimer(s) EXCEPT !.waiting = << >>]

Stored(s) == DOMAIN s.devs

\* Mutant: a deleted device stays on the waiting list.
EraseKeepsWaiting(s, d) == [s EXCEPT !.devs = [e \in DOMAIN @ \ {d} |-> @[e]]]

\* erase() of a device that is (still) in the vector.
Erase(s, d) ==
  LET removed == RemoveWaiting(s, d)
  IN  [removed EXCEPT !.devs = [e \in DOMAIN @ \ {d} |-> @[e]]]

\* clearResults(), refused while a scan is active.
Clear(s) ==
  IF s.scan # "off" THEN s ELSE [ClearWaiting(s) EXCEPT !.devs = << >>]

\* taskRelease(*m_pTaskData), if a task is in getResults().
ReleaseTask(s) == [s EXCEPT !.notified = @ \/ s.get # "idle"]

\* The devices of s, none of them seen in the scan that begins or is given up.
Unseen(s) == [d \in Stored(s) |-> [s.devs[d] EXCEPT !.seen = FALSE]]

\* Mutant: stop() leaves the task in getResults() blocked.
StopSilent(s) ==
  LET cancelled == ClearWaiting([s EXCEPT !.scan = "off", !.own = FALSE,
                                          !.devs = Unseen(s)])
  IN  IF opt.max = 0 THEN Clear(cancelled) ELSE cancelled

\* stop(), when the controller accepts.
Stop(s) ==
  LET cancelled == ClearWaiting([s EXCEPT !.scan = "off", !.own = FALSE,
                                          !.devs = Unseen(s)])
  IN  ReleaseTask(IF opt.max = 0 THEN Clear(cancelled) ELSE cancelled)

\* start() up to the call of ble_gap_disc().
Prepare(s, isContinue, restart) ==
  LET stopped == IF s.scan # "off" /\ restart THEN Stop(s) ELSE s
  IN  IF isContinue THEN stopped ELSE Clear(stopped)

\* ble_gap_disc(): 0, or BLE_HS_EALREADY while a scan is active.
Discovery(s, duration) ==
  IF s.scan # "off" THEN s
  ELSE [s EXCEPT !.scan = duration, !.devs = Unseen(s)]

-----------------------------------------------------------------------------
(* The handler of BLE_GAP_EVENT_DISC.  A report of a connected peer, or of *)
(* a new device when the vector is full, changes nothing.                  *)

HasRoom(s) == opt.max \in {0, Unlimited} \/ Cardinality(Stored(s)) < opt.max

\* The device of this report, seen for the first time.
New(s, d, kind) ==
  [s EXCEPT !.devs = [e \in DOMAIN @ \cup {d} |->
     IF e = d THEN [scannable |-> kind = "scannable", sent |-> 0, age |-> 0,
                    seen |-> TRUE]
     ELSE @[e]]]

\* Mutant: a repeated advertisement restarts the device's time, not its place.
UpdateInPlace(s, d, kind) ==
  IF kind = "rsp" THEN RemoveWaiting(s, d)
  ELSE LET fresh == [s EXCEPT !.devs[d] = [@ EXCEPT !.sent = 0, !.age = 0, !.seen = TRUE]]
       IN  IF fresh.devs[d].scannable THEN AddWaiting(fresh, d) ELSE fresh

\* A scan response ends the wait; an advertisement moves the device to the
\* tail of the list, as data that is not reported yet.
Update(s, d, kind) ==
  IF kind = "rsp" THEN RemoveWaiting(s, d)
  ELSE LET fresh == [s EXCEPT !.devs[d] = [@ EXCEPT !.sent = 0, !.age = 0, !.seen = TRUE]]
       IN  IF fresh.devs[d].scannable
           THEN AddWaiting(RemoveWaiting(fresh, d), d)
           ELSE fresh

\* A controller that filters duplicates reports a device once in each scan.
Advertised(d, kind) ==
  /\ hst.pc = "idle" /\ sc.scan # "off"
  /\ \/ d \notin Stored(sc) /\ HasRoom(sc) /\ sc' = New(sc, d, kind)
     \/ /\ d \in Stored(sc)
        /\ kind = "rsp" \/ opt.dups \/ ~sc.devs[d].seen
        /\ sc' = Update(sc, d, kind)
  /\ hst' = [pc |-> "discover", dev |-> {d}, kind |-> kind]
  /\ UNCHANGED opt

\* The handler goes on with the device it holds, which must still exist.
Handling(d, from, to) ==
  /\ hst.pc = from /\ hst.dev = {d} /\ d \in Stored(sc)
  /\ hst' = IF to = "idle" THEN Idle ELSE [hst EXCEPT !.pc = to]
  /\ UNCHANGED opt

\* onDiscovered(), once for new data.
Discover(d) ==
  /\ Handling(d, "discover", "report")
  /\ sc' = [sc EXCEPT !.devs[d].sent = IF @ = 0 THEN 1 ELSE @]

Complete(d) == opt.passive \/ ~sc.devs[d].scannable \/ hst.kind = "rsp"

\* onResult(): no response is expected, or this is the response.
ReportNow(d) ==
  /\ Handling(d, "report", "drop")
  /\ Complete(d)
  /\ sc' = [sc EXCEPT !.devs[d].sent = Smaller(@ + 1, 2)]

\* Mutant: only a device that joins others is waited for with a timer.
AwaitResponseUntimed(d) ==
  /\ Handling(d, "report", "drop")
  /\ ~Complete(d)
  /\ sc' = AddWaiting(sc, d)

AwaitResponse(d) ==
  /\ Handling(d, "report", "drop")
  /\ ~Complete(d)
  /\ LET added == AddWaiting(sc, d)
     IN  sc' = IF Head(added.waiting) = d THEN ResetTimer(added) ELSE added

\* Nothing is stored when maxResults is 0.
Drop(d) ==
  /\ Handling(d, "drop", "idle")
  /\ sc' = IF opt.max = 0 /\ sc.devs[d].sent >= 2 THEN Erase(sc, d) ELSE sc

-----------------------------------------------------------------------------
(* The scan response timer and the end of the scan.                        *)

\* Each device a tick older.
Aged(devs) == [d \in DOMAIN devs |-> [devs[d] EXCEPT !.age = Smaller(@ + 1, Timeout)]]

\* Time passes: all ages grow, the timer may expire and queue its event.
Tick ==
  /\ sc' = [sc EXCEPT
       !.devs = Aged(@),
       !.left = IF @ = 0 THEN 0 ELSE @ - 1,
       !.event = @ \/ sc.left = 1]
  /\ UNCHANGED <<opt, hst>>

HeadOverdue ==
  IF sc.waiting = << >> THEN FALSE
  ELSE sc.devs[Head(sc.waiting)].age >= sc.timeout

\* srTimerCb() when there is nothing to report (yet).
TimerEarly ==
  /\ hst.pc = "idle" /\ sc.event
  /\ ~HeadOverdue
  /\ LET taken == [sc EXCEPT !.event = FALSE]
     IN  sc' = IF sc.waiting = << >> THEN StopTimer(taken) ELSE ResetTimer(taken)
  /\ UNCHANGED <<opt, hst>>

\* The head waited long enough: onResult() without a scan response.
TimerExpires ==
  /\ hst.pc = "idle" /\ sc.event
  /\ HeadOverdue
  /\ LET d == Head(sc.waiting)
         taken == RemoveWaiting([sc EXCEPT !.event = FALSE], d)
     IN  /\ sc' = [taken EXCEPT !.devs[d].sent = 2]
         /\ hst' = [Idle EXCEPT !.pc = "timedOut", !.dev = {d}]
  /\ UNCHANGED opt

\* After the callback; the device may be gone by now.
TimedOut ==
  /\ hst.pc = "timedOut"
  /\ sc' = IF opt.max = 0 /\ hst.dev \subseteq Stored(sc)
           THEN Erase(sc, CHOOSE d \in hst.dev : TRUE) ELSE sc
  /\ hst' = Idle
  /\ UNCHANGED opt

\* The stack's duration timer ends the procedure, then calls the handler.
ScanExpires ==
  /\ hst.pc = "idle" /\ sc.scan = "timed"
  /\ sc' = [sc EXCEPT !.scan = "off", !.own = FALSE]
  /\ hst' = [Idle EXCEPT !.pc = "complete"]
  /\ UNCHANGED opt

\* Mutant: the list is cleared, as in stop(), before it is reported.
DiscCompleteClears ==
  /\ hst.pc = "complete"
  /\ sc' = ClearWaiting(sc)
  /\ hst' = [hst EXCEPT !.pc = "flush"]
  /\ UNCHANGED opt

DiscComplete ==
  /\ hst.pc = "complete"
  /\ sc' = StopTimer(sc)
  /\ hst' = [hst EXCEPT !.pc = "flush"]
  /\ UNCHANGED opt

\* onResult() for each device that still waits, oldest first.
Flush ==
  /\ hst.pc = "flush" /\ sc.waiting # << >>
  /\ LET d == Head(sc.waiting)
     IN  sc' = [RemoveWaiting(sc, d) EXCEPT !.devs[d].sent = 2]
  /\ UNCHANGED <<opt, hst>>

\* onScanEnd()
EndScan ==
  /\ hst.pc = "flush" /\ sc.waiting = << >>
  /\ sc' = IF opt.max = 0 THEN Clear(sc) ELSE sc
  /\ hst' = [hst EXCEPT !.pc = "ended"]
  /\ UNCHANGED opt

Finish ==
  /\ hst.pc = "ended"
  /\ sc' = ReleaseTask(sc)
  /\ hst' = Idle
  /\ UNCHANGED opt

\* The host loses the controller; the stack may or may not report the end of
\* the scan.
HostReset ==
  /\ "reset" \in Calls /\ hst.pc = "idle" /\ sc.synced
  /\ sc' = [sc EXCEPT !.synced = FALSE, !.scan = "off", !.own = FALSE]
  /\ \/ hst' = hst
     \/ sc.scan # "off" /\ hst' = [Idle EXCEPT !.pc = "complete"]
  /\ UNCHANGED opt

\* The host is synchronised again: tasks may start a scan before onHostSync(), ...
HostSync ==
  /\ hst.pc = "idle" /\ ~sc.synced
  /\ sc' = [sc EXCEPT !.synced = TRUE]
  /\ hst' = [hst EXCEPT !.pc = "synced"]
  /\ UNCHANGED opt

\* ... which does nothing but call onScanEnd(): the list and the timer stay.
OnHostSync ==
  /\ hst.pc = "synced"
  /\ hst' = Idle
  /\ UNCHANGED <<opt, sc>>

-----------------------------------------------------------------------------
(* The calls, by a task or by a callback of the host task.                 *)

Call(c) ==
  /\ c \in Calls
  /\ hst.pc \in {"discover", "report", "drop"} => c \in opt.midway
  /\ UNCHANGED <<opt, hst>>

StartScan(duration, isContinue, restart) ==
  /\ Call("start")
  /\ LET ready == Prepare(sc, isContinue, restart)
     IN  \/ sc.synced /\ sc' = Discovery(ready, duration)
         \/ sc' = ready           \* BLE_HS_EBUSY, or not synchronised

StopScan == Call("stop") /\ sc' = Stop(sc)

ClearResults == Call("clear") /\ sc' = Clear(sc)

EraseDevice(d) == Call("erase") /\ d \in Stored(sc) /\ sc' = Erase(sc, d)

SetScanResponseTimeout(t) ==
  /\ Call("timeout")
  /\ LET set == [sc EXCEPT !.timeout = t]
     IN  sc' = IF t = 0 THEN StopTimer(set) ELSE ResetTimer(set)

\* getResults(duration): one call at a time, the second returns at once.
GetBegin ==
  /\ "results" \in Calls /\ sc.get = "idle"
  /\ sc' = [sc EXCEPT !.get = "begin"]
  /\ UNCHANGED <<opt, hst>>

GetStart(isContinue) ==
  /\ sc.get = "begin"
  /\ hst.pc \in {"discover", "report", "drop"} => "results" \in opt.midway
  /\ LET ready == Prepare(sc, isContinue, TRUE)
     IN  \/ /\ sc.synced
            /\ sc' = [Discovery(ready, "timed") EXCEPT !.get = "wait", !.own = TRUE]
         \/ sc' = [ready EXCEPT !.get = "idle"]
  /\ UNCHANGED <<opt, hst>>

\* taskWait() returns, at once if the notification is there already.
GetReturn ==
  /\ sc.get = "wait" /\ sc.notified
  /\ sc' = [sc EXCEPT !.get = "idle", !.notified = FALSE, !.own = FALSE]
  /\ UNCHANGED <<opt, hst>>

-----------------------------------------------------------------------------
HandlerStep(d) == Discover(d) \/ ReportNow(d) \/ AwaitResponse(d) \/ Drop(d)

HostStep ==
  \/ \E d \in Devices : HandlerStep(d)
  \/ TimedOut \/ DiscComplete \/ Flush \/ EndScan \/ Finish \/ OnHostSync

AppCall ==
  \/ \E dur \in {"timed", "forever"}, cont, restart \in BOOLEAN : StartScan(dur, cont, restart)
  \/ StopScan
  \/ ClearResults
  \/ \E d \in Devices : EraseDevice(d)
  \/ \E t \in {0, Timeout} : SetScanResponseTimeout(t)
  \/ GetBegin

Next ==
  \/ \E d \in Devices, kind \in Report : Advertised(d, kind)
  \/ HostStep
  \/ Tick \/ TimerEarly \/ TimerExpires
  \/ ScanExpires
  \/ HostReset \/ HostSync
  \/ AppCall
  \/ \E cont \in BOOLEAN : GetStart(cont)
  \/ GetReturn

Spec == Init /\ [][Next]_vars

\* Time passes, the host task runs, and serves its event queue in order: an
\* expired timer is not overtaken forever.  A task that is ready runs, and its
\* start() falls between two events in the end (see midway).
FairSpec ==
  /\ Spec
  /\ WF_vars(Tick)
  /\ WF_vars(HostStep)
  /\ SF_vars(TimerEarly \/ TimerExpires)
  /\ SF_vars(ScanExpires)
  /\ SF_vars(\E cont \in BOOLEAN : GetStart(cont))
  /\ WF_vars(GetReturn)

-----------------------------------------------------------------------------
(* Properties.                                                             *)

\* A device on the waiting list is on it once, is in the result vector (the
\* list holds no pointer to a deleted device) and, in an active scan, still owes
\* its onResult().  A passive scan puts a device that advertises again on the list
\* although it reports it at once (removeWaitingDevice(), erase(), clearResults()).
WaitingOwesResult ==
  /\ IsInjective(sc.waiting)
  /\ ToSet(sc.waiting) \subseteq Stored(sc)
  /\ ~opt.passive => \A d \in ToSet(sc.waiting) : sc.devs[d].sent < 2

\* The list is in the order in which the devices advertised: its head is the
\* first to time out ("FIFO timeout order matches advertisement order"); each state
\* is typed, its list within the devices.
HeadIsOldest ==
  /\ TypeOK
  /\ \A i, j \in DOMAIN sc.waiting :
       i < j => sc.devs[sc.waiting[i]].age >= sc.devs[sc.waiting[j]].age

\* Between two events, and when onHostSync() calls onScanEnd(), the head of an active
\* scan's list is always timed: the timer's event is queued, or the timer runs and
\* ends no later than the head is overdue (resetWaitingTimer()).
HeadIsTimed ==
  ~opt.passive /\ hst.pc \in {"idle", "synced"} /\ sc.waiting # << >> /\ sc.timeout # 0 =>
    \/ sc.event
    \/ sc.left > 0 /\ sc.devs[Head(sc.waiting)].age + sc.left <= sc.timeout
    \/ sc.left = 1

\* When the handler calls onScanEnd() at the end of a scan, every stored device that
\* was seen in the scan has been reported to onResult() with its latest data.  When
\* onHostSync() calls it, nothing has been reported before: then each device that is
\* not reported is on the waiting list still, and none is forgotten.
ScanEndReportsAll ==
  \A d \in Stored(sc) :
    sc.devs[d].seen =>
      /\ hst.pc = "ended" => sc.devs[d].sent = 2
      /\ hst.pc = "synced" => sc.devs[d].sent = 2 \/ IsWaiting(sc, d)

\* A blocking getResults() with a finite duration returns.
GetResultsReturns == sc.get = "begin" ~> sc.get = "idle"

\* A device that waits for a scan response is reported in the end, response or
\* not: with a timeout set it does not stay on the list.
WaitingIsReported == \A d \in Devices : IsWaiting(sc, d) ~> ~IsWaiting(sc, d)

===============================================================================
