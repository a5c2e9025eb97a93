---------------------------- MODULE NimBLEClient ----------------------------
(***************************************************************************)
(* The connection state machine of one NimBLEClient object that talks to   *)
(* one peer: the blocking calls that application tasks make, the GAP event *)
(* handler and the timer callback that the NimBLE host task runs, and the  *)
(* host stack underneath, as far as src/ can observe it.                   *)
(*                                                                         *)
(* A handler runs on one thread but is not atomic: the steps between which *)
(* an application task can run (the copy of m_pTaskData at entry, the user *)
(* callback, the final taskRelease) are separate actions.                  *)
(***************************************************************************)
EXTENDS Integers, FiniteSets

CONSTANTS
  Tasks,        \* the application tasks that call the client
  NoTask,       \* m_pTaskData == nullptr
  Handles,      \* connection handles the controller assigns
  NoHandle,     \* BLE_HS_CONN_HANDLE_NONE
  MaxRetries,   \* m_config.connectFailRetries
  Calls,        \* which API calls each task makes
  SelfDelete,   \* the initial values of deleteOnDisconnect, deleteOnConnectFail
  MaxConnects,  \* bound: calls of connect() in a behaviour
  MaxSecures    \* bound: unanswered asynchronous secureConnection() calls

AllCalls == {"connect", "connectAsync", "busyConnect", "secure", "secureAsync",
             "disconnect", "cancel", "delete"}

ASSUME ClientAssumption ==
  /\ NoTask \notin Tasks
  /\ NoHandle \notin Handles
  /\ MaxRetries \in 0..7          \* setConnectRetries() limits it to 7
  /\ Calls \in [Tasks -> SUBSET AllCalls]
  /\ SelfDelete \subseteq BOOLEAN \X BOOLEAN
  /\ MaxConnects \in Nat
  /\ MaxSecures \in Nat

VARIABLES
  clt,   \* the client object
  stk,   \* the host stack's view of the peer: procedure, link, security
  hst,   \* the host task: the event it handles and how far it got
  pc,    \* where each application task is
  td,    \* each task's NimBLETaskData: m_flags, and the notification bit
  hist   \* history: how often things happened

vars == <<clt, stk, hst, pc, td, hist>>

Status == {"CONNECTED", "DISCONNECTED", "CONNECTING", "DISCONNECTING"}

\* Return codes, as far as the code tells them apart.
RC == {"OK", "ENOTCONN", "ETIMEOUT", "EREJECT", "PINKEY", "FAIL", "ESTAB",
       "DROP", "RESET"}

Event == {"none", "connectOk", "connectFail", "disconnect", "termFail",
          "info", "mtu", "enc", "timer"}

Client ==
  [alive : BOOLEAN, status : Status, handle : Handles \cup {NoHandle},
   task : Tasks \cup {NoTask}, pending : BOOLEAN, timer : BOOLEAN,
   retries : 0..MaxRetries, termFails : Nat, asyncSecure : Nat,
   async : BOOLEAN, delDisc : BOOLEAN, delFail : BOOLEAN]

Stack ==
  [synced : BOOLEAN, proc : {"none", "connecting", "cancelled"},
   link : Handles \cup {NoHandle}, fresh : BOOLEAN, term : BOOLEAN,
   sec : BOOLEAN, enc : BOOLEAN, reset : BOOLEAN]

HostTask ==
  [pc : {"idle", "enter", "established", "body", "retry", "notify", "cleanup",
         "failed", "release"},
   ev : Event, task : Tasks \cup {NoTask}, rc : RC]

TaskPC == {"idle", "start", "arm", "wait", "done", "err",
           "secStart", "secWait", "secEval", "discSet"}

TaskData == [flags : RC, notified : BOOLEAN, tries : 0..1]

History == [connects : Nat, opened : Nat, owed : BOOLEAN]

\* The types; no retry is counted beyond connectFailRetries.
TypeOK ==
  /\ clt \in Client
  /\ stk \in Stack
  /\ hst \in HostTask
  /\ pc \in [Tasks -> TaskPC]
  /\ td \in [Tasks -> TaskData]
  /\ hist \in History

-----------------------------------------------------------------------------
Idle == [pc |-> "idle", ev |-> "none", task |-> NoTask, rc |-> "OK"]

Init ==
  /\ \E d \in SelfDelete :
       clt = [alive |-> TRUE, status |-> "DISCONNECTED", handle |-> NoHandle,
              task |-> NoTask, pending |-> FALSE, timer |-> FALSE, retries |-> 0,
              termFails |-> 0, asyncSecure |-> 0, async |-> FALSE,
              delDisc |-> d[1], delFail |-> d[2]]
  /\ stk = [synced |-> TRUE, proc |-> "none", link |-> NoHandle, fresh |-> FALSE,
            term |-> FALSE, sec |-> FALSE, enc |-> FALSE, reset |-> FALSE]
  /\ hst = Idle
  /\ pc = [t \in Tasks |-> "idle"]
  /\ td = [t \in Tasks |-> [flags |-> "OK", notified |-> FALSE, tries |-> 0]]
  /\ hist = [connects |-> 0, opened |-> 0, owed |-> FALSE]

-----------------------------------------------------------------------------
(* Pieces shared by the actions.                                           *)

Busy(t) == pc[t] # "idle"
Goto(t, l) == pc' = [pc EXCEPT ![t] = l]

\* Task t enters the API: a new NimBLETaskData on its stack.
Enter(t, l, flags) ==
  /\ pc[t] = "idle" /\ clt.alive
  /\ Goto(t, l)
  /\ td' = [td EXCEPT ![t].flags = flags]

\* taskRelease(): m_flags, if the NimBLETaskData the pointer was copied from
\* still exists, and the notification bit of the task in any case.
Release(t, rc) ==
  td' = IF t = NoTask THEN td
        ELSE [td EXCEPT ![t] = [flags |-> IF Busy(t) THEN rc ELSE @.flags,
                                 notified |-> TRUE, tries |-> @.tries]]

\* The call of task t ends, and its NimBLETaskData with it.
Leave(t) ==
  /\ Goto(t, "idle")
  /\ td' = [td EXCEPT ![t] = [flags |-> "OK", notified |-> @.notified, tries |-> 0]]

\* taskWait() ends with the notification; it clears the bit.
Woken(t) ==
  /\ td[t].notified
  /\ td' = [td EXCEPT ![t].notified = FALSE]

LinkIsMine == stk.link # NoHandle /\ clt.handle = stk.link

\* The stack after ble_gap_connect() accepted, after ble_gap_conn_cancel(),
\* and after ble_gap_terminate() of the client's handle.
CanConnect == stk.synced /\ stk.proc = "none" /\ stk.link = NoHandle
Connecting == [stk EXCEPT !.proc = "connecting"]
Cancelled == [stk EXCEPT !.proc = IF @ = "connecting" THEN "cancelled" ELSE @]

\* NimBLEDevice::deleteClient(): what it does to client c and to the stack.
Delete(c) ==
  CASE c.status = "DISCONNECTED" -> [c EXCEPT !.alive = FALSE, !.timer = FALSE]
    [] c.status = "CONNECTING" -> [c EXCEPT !.delFail = TRUE]
    [] OTHER -> [c EXCEPT !.delDisc = TRUE]
StackAfterDelete(c) == IF c.status = "CONNECTING" THEN Cancelled ELSE stk

\* ble_gap_security_initiate() on the client's handle.
StartSecurity(ok) ==
  /\ ok => LinkIsMine
  /\ stk' = IF ok THEN [stk EXCEPT !.sec = TRUE] ELSE stk

-----------------------------------------------------------------------------
(* connect(), by task t.                                                   *)

ConnectAllowed(t, async) ==
  IF clt.status = "DISCONNECTED"
  THEN (IF async THEN "connectAsync" ELSE "connect") \in Calls[t]
  ELSE "busyConnect" \in Calls[t]

\* The checks, then the fields of the new attempt.
ConnectBegin(t, async) ==
  /\ hist.connects < MaxConnects
  /\ ConnectAllowed(t, async)
  /\ hist' = [hist EXCEPT !.connects = @ + 1]
  /\ \/ /\ ~stk.synced
        /\ Enter(t, "err", "EREJECT")
        /\ UNCHANGED clt
     \/ /\ stk.synced
        /\ clt.status # "DISCONNECTED"
        /\ Enter(t, "err", "EREJECT")
        /\ UNCHANGED clt
     \/ /\ stk.synced
        /\ clt.status = "DISCONNECTED"
        /\ Enter(t, "start", "OK")
        /\ clt' = [clt EXCEPT !.status = "CONNECTING", !.async = async,
                              !.pending = FALSE, !.retries = 0]
  /\ UNCHANGED <<stk, hst>>

\* startConnectionAttempt(): accepted, or refused for any reason.
ConnectStart(t) ==
  /\ pc[t] = "start"
  /\ \/ /\ CanConnect
        /\ stk' = Connecting
        /\ Goto(t, IF clt.async THEN "idle" ELSE "arm")
        /\ hist' = [hist EXCEPT !.owed = clt.async]
        /\ UNCHANGED td
     \/ /\ td' = [td EXCEPT ![t].flags = "FAIL"]
        /\ Goto(t, "err")
        /\ UNCHANGED <<stk, hist>>
  /\ UNCHANGED <<clt, hst>>

\* m_pTaskData is set after the attempt was started.
ConnectArm(t) ==
  /\ pc[t] = "arm"
  /\ clt' = [clt EXCEPT !.task = t]
  /\ Goto(t, "wait")
  /\ UNCHANGED <<stk, hst, td, hist>>

ConnectWake(t) ==
  /\ pc[t] = "wait"
  /\ Woken(t)
  /\ Goto(t, "done")
  /\ UNCHANGED <<clt, stk, hst, hist>>

ConnectTimeout(t) ==
  /\ pc[t] = "wait"
  /\ ~td[t].notified
  /\ IF clt.status # "CONNECTED"
     THEN /\ stk' = Cancelled
          /\ td' = [td EXCEPT ![t].flags = "ETIMEOUT"]
     ELSE UNCHANGED <<stk, td>>
  /\ Goto(t, "done")
  /\ UNCHANGED <<clt, hst, hist>>

\* m_pTaskData = nullptr; rc = taskData.m_flags.
ConnectDone(t) ==
  /\ pc[t] = "done"
  /\ clt' = [clt EXCEPT !.task = NoTask]
  /\ IF td[t].flags = "OK" THEN Leave(t) ELSE Goto(t, "err") /\ UNCHANGED td
  /\ UNCHANGED <<stk, hst, hist>>

\* The error label: every failure, a refused call included, ends here.
ConnectError(t) ==
  /\ pc[t] = "err"
  /\ LET failed == [clt EXCEPT !.status = "DISCONNECTED"]
     IN clt' = IF clt.delFail THEN Delete(failed) ELSE failed
  /\ Leave(t)
  /\ UNCHANGED <<stk, hst, hist>>

-----------------------------------------------------------------------------
(* secureConnection(), disconnect(), cancelConnect(), deleteClient().      *)

SecureBegin(t) ==
  /\ "secure" \in Calls[t]
  /\ pc[t] = "idle" /\ clt.alive
  /\ Goto(t, "secStart")
  /\ td' = [td EXCEPT ![t] = [flags |-> "ENOTCONN", notified |-> @.notified, tries |-> 1]]
  /\ clt' = [clt EXCEPT !.task = t]
  /\ UNCHANGED <<stk, hst, hist>>

SecureStart(t) ==
  /\ pc[t] = "secStart"
  /\ \E ok \in BOOLEAN :
       /\ StartSecurity(ok)
       /\ Goto(t, IF ok THEN "secWait" ELSE "secEval")
  /\ UNCHANGED <<clt, hst, td, hist>>

SecureWake(t) ==
  /\ pc[t] = "secWait"
  /\ Woken(t)
  /\ Goto(t, "secEval")
  /\ UNCHANGED <<clt, stk, hst, hist>>

\* while (flags == PINKEY_MISSING && retryCount--)
SecureRetry(t) ==
  /\ pc[t] = "secEval"
  /\ td[t].flags = "PINKEY" /\ td[t].tries > 0
  /\ td' = [td EXCEPT ![t].tries = @ - 1]
  /\ Goto(t, "secStart")
  /\ UNCHANGED <<clt, stk, hst, hist>>

\* The call returns m_flags == 0.
SecureReturn(t) ==
  /\ pc[t] = "secEval"
  /\ ~(td[t].flags = "PINKEY" /\ td[t].tries > 0)
  /\ clt' = [clt EXCEPT !.task = NoTask]
  /\ Leave(t)
  /\ UNCHANGED <<stk, hst, hist>>

SecureAsync(t) ==
  /\ "secureAsync" \in Calls[t]
  /\ pc[t] = "idle" /\ clt.alive
  /\ clt.asyncSecure < MaxSecures
  /\ \E ok \in BOOLEAN :
       /\ StartSecurity(ok)
       /\ clt' = [clt EXCEPT !.asyncSecure = IF ok THEN @ + 1 ELSE 0]
  /\ UNCHANGED <<hst, pc, td, hist>>

\* ble_gap_terminate(): only rc 0 goes on to the assignment of the status.
Terminate(t) ==
  IF LinkIsMine /\ ~stk.term
  THEN stk' = [stk EXCEPT !.term = TRUE] /\ Goto(t, "discSet")
  ELSE UNCHANGED <<stk, pc>>

Disconnect(t) ==
  /\ "disconnect" \in Calls[t]
  /\ pc[t] = "idle" /\ clt.alive
  /\ Terminate(t)
  /\ UNCHANGED <<clt, hst, td, hist>>

DisconnectSet(t) ==
  /\ pc[t] = "discSet"
  /\ clt' = [clt EXCEPT !.status = "DISCONNECTING"]
  /\ Goto(t, "idle")
  /\ UNCHANGED <<stk, hst, td, hist>>

CancelConnect(t) ==
  /\ "cancel" \in Calls[t]
  /\ pc[t] = "idle" /\ clt.alive
  /\ stk' = Cancelled
  /\ UNCHANGED <<clt, hst, pc, td, hist>>

DeleteClient(t) ==
  /\ "delete" \in Calls[t]
  /\ pc[t] = "idle" /\ clt.alive
  /\ clt' = Delete(clt)
  /\ \/ /\ clt.status \in {"CONNECTED", "DISCONNECTING"}
        /\ Terminate(t)
     \/ /\ clt.status \in {"CONNECTING", "DISCONNECTED"}
        /\ stk' = StackAfterDelete(clt)
        /\ UNCHANGED pc
  /\ UNCHANGED <<hst, td, hist>>

-----------------------------------------------------------------------------
(* What the stack does (external): an event enters the handler, which      *)
(* copies m_pTaskData first.                                               *)

Deliver(ev, rc) ==
  /\ hst.pc = "idle"
  /\ hst' = [pc |-> "enter", ev |-> ev, task |-> clt.task, rc |-> rc]

LinkUp(h) ==
  /\ stk.proc # "none"
  /\ stk' = [stk EXCEPT !.proc = "none", !.link = h, !.fresh = TRUE,
                        !.term = FALSE, !.sec = FALSE, !.enc = FALSE]
  /\ Deliver("connectOk", "OK")
  /\ hist' = [hist EXCEPT !.opened = 0]
  /\ UNCHANGED <<clt, pc, td>>

AttemptFails ==
  /\ stk.proc # "none"
  /\ stk' = [stk EXCEPT !.proc = "none"]
  /\ Deliver("connectFail", "FAIL")
  /\ UNCHANGED <<clt, pc, td, hist>>

\* 0x3e (ESTAB) is reported only of a link that never carried a packet.
LinkDown(reason) ==
  /\ stk.link # NoHandle
  /\ reason = "ESTAB" => stk.fresh
  /\ stk.reset => reason = "RESET"
  /\ stk' = [stk EXCEPT !.link = NoHandle, !.fresh = FALSE, !.term = FALSE,
                        !.sec = FALSE, !.enc = FALSE, !.reset = FALSE]
  /\ Deliver("disconnect", reason)
  /\ UNCHANGED <<clt, pc, td, hist>>

TerminateFails ==
  /\ stk.term /\ ~stk.reset
  /\ stk' = [stk EXCEPT !.term = FALSE, !.fresh = FALSE]
  /\ Deliver("termFail", "OK")
  /\ UNCHANGED <<clt, pc, td, hist>>

\* "info": notification, parameter or PHY update, passkey request.
\* "mtu": MTU exchanged, or the peer's identity resolved.
LinkEvent(ev) ==
  /\ stk.link # NoHandle
  /\ stk' = [stk EXCEPT !.fresh = FALSE]
  /\ Deliver(ev, "OK")
  /\ UNCHANGED <<clt, pc, td, hist>>

SecurityEnds(status) ==
  /\ stk.sec
  /\ stk' = [stk EXCEPT !.sec = FALSE, !.enc = (status = "OK"), !.fresh = FALSE]
  /\ Deliver("enc", status)
  /\ UNCHANGED <<clt, pc, td, hist>>

TimerFires ==
  /\ clt.timer
  /\ clt' = [clt EXCEPT !.timer = FALSE]
  /\ stk' = [stk EXCEPT !.fresh = FALSE]
  /\ hst.pc = "idle"
  /\ hst' = [Idle EXCEPT !.pc = "enter", !.ev = "timer"]
  /\ UNCHANGED <<pc, td, hist>>

Synced ==
  /\ ~stk.synced /\ hst.pc = "idle"
  /\ stk' = [stk EXCEPT !.synced = TRUE]
  /\ UNCHANGED <<clt, hst, pc, td, hist>>

-----------------------------------------------------------------------------
(* handleGapEvent() and connectEstablishedTimerCb(), on the host task.     *)

Handling(ev) == hst.pc = "enter" /\ hst.ev = ev /\ clt.alive
Goes(l) == hst' = [hst EXCEPT !.pc = l]
Return == hst' = Idle

\* The client the event is for was deleted: the lookup of DISCONNECT finds
\* nothing; another event reads freed memory, here without effect.
ClientGone ==
  /\ hst.pc = "enter" /\ ~clt.alive
  /\ Return
  /\ UNCHANGED <<clt, stk, pc, td, hist>>

ConnectUnwanted ==
  /\ hst.pc = "enter" /\ hst.ev \in {"connectOk", "connectFail"} /\ clt.alive
  /\ clt.status # "CONNECTING"
  /\ stk' = IF hst.ev = "connectOk" THEN [stk EXCEPT !.term = TRUE] ELSE stk
  /\ Return
  /\ UNCHANGED <<clt, pc, td, hist>>

\* Mutant: no timer is started for the established link.
ConnectedNoTimer ==
  [clt EXCEPT !.status = "CONNECTED", !.handle = stk.link, !.pending = TRUE]
Connected == [clt EXCEPT !.status = "CONNECTED", !.handle = stk.link,
                         !.pending = TRUE, !.timer = TRUE]

\* The waiter is released, and onConnect called, once the link is established.
ConnectSucceeds ==
  /\ Handling("connectOk")
  /\ clt.status = "CONNECTING"
  /\ clt' = Connected
  /\ Return
  /\ UNCHANGED <<stk, pc, td, hist>>

\* Asynchronous: onConnectFail, then the client may delete itself.
ConnectFails ==
  /\ Handling("connectFail")
  /\ clt.status = "CONNECTING"
  /\ clt' = [clt EXCEPT !.status = "DISCONNECTED", !.handle = NoHandle,
                        !.pending = FALSE, !.timer = FALSE]
  /\ Goes(IF clt.async THEN "failed" ELSE "release")
  /\ hist' = [hist EXCEPT !.owed = FALSE]
  /\ UNCHANGED <<stk, pc, td>>

AfterConnectFail ==
  /\ hst.pc = "failed"
  /\ IF clt.alive /\ clt.delFail
     THEN clt' = Delete(clt) /\ stk' = StackAfterDelete(clt)
     ELSE UNCHANGED <<clt, stk>>
  /\ Goes("release")
  /\ UNCHANGED <<pc, td, hist>>

\* Mutant: the timer of the lost link is not stopped.
LinkLostTimerRuns ==
  [clt EXCEPT !.pending = FALSE, !.termFails = 0, !.asyncSecure = 0]
LinkLost ==
  [clt EXCEPT !.pending = FALSE, !.timer = FALSE, !.termFails = 0, !.asyncSecure = 0]

\* Mutant: one retry more than connectFailRetries.
MayRetryOnceMore == hst.rc = "ESTAB" /\ clt.retries <= MaxRetries
MayRetry == hst.rc = "ESTAB" /\ clt.retries < MaxRetries

\* Until the decision to retry; m_pTaskData is copied again.
Disconnected ==
  /\ Handling("disconnect")
  /\ clt' = IF MayRetry
            THEN [LinkLost EXCEPT !.handle = NoHandle, !.retries = @ + 1,
                                  !.status = "CONNECTING"]
            ELSE LinkLost
  /\ hst' = [hst EXCEPT !.task = clt.task,
                        !.pc = IF MayRetry THEN "retry" ELSE "notify"]
  /\ stk' = IF hst.rc = "RESET" THEN [stk EXCEPT !.synced = FALSE] ELSE stk
  /\ UNCHANGED <<pc, td, hist>>

RetryStarts ==
  /\ hst.pc = "retry"
  /\ CanConnect
  /\ stk' = Connecting
  /\ Return
  /\ UNCHANGED <<clt, pc, td, hist>>

\* Mutant: a refused retry leaves the status as it was.
RetryRefusedReturns ==
  /\ hst.pc = "retry"
  /\ Return
  /\ UNCHANGED <<clt, stk, pc, td, hist>>

\* The failure of the retry is reported like one without retry.
RetryRefused ==
  /\ hst.pc = "retry"
  /\ Goes("notify")
  /\ UNCHANGED <<clt, stk, pc, td, hist>>

\* onConnectFail or onDisconnect, before the client's state is cleared.
DisconnectCallback ==
  /\ hst.pc = "notify"
  /\ hist' = [hist EXCEPT !.owed = FALSE]
  /\ Goes("cleanup")
  /\ UNCHANGED <<clt, stk, pc, td>>

\* Mutant: the handle of the lost link stays.
DownKeepsHandle == [clt EXCEPT !.status = "DISCONNECTED"]
Down == [clt EXCEPT !.handle = NoHandle, !.status = "DISCONNECTED"]

\* A waiting task deletes the client itself, if the failure is 0x3e.
DisconnectCleanup ==
  /\ hst.pc = "cleanup"
  /\ LET estab == hst.rc = "ESTAB"
     IN clt' = IF ~(clt.delDisc \/ (estab /\ clt.delFail)) THEN Down
               ELSE IF estab /\ hst.task # NoTask THEN [Down EXCEPT !.delFail = TRUE]
               ELSE Delete(Down)
  /\ Goes("release")
  /\ UNCHANGED <<stk, pc, td, hist>>

TerminateRetry ==
  /\ Handling("termFail")
  /\ IF LinkIsMine
     THEN /\ clt' = [clt EXCEPT !.termFails = @ + 1]
          /\ stk' = IF clt.termFails + 1 > 2 THEN [stk EXCEPT !.reset = TRUE]
                    ELSE [stk EXCEPT !.term = TRUE]
     ELSE UNCHANGED <<clt, stk>>
  /\ Return
  /\ UNCHANGED <<pc, td, hist>>

\* An event of another handle returns; so does a timer that finds the client
\* no longer CONNECTED.
NotForMe ==
  /\ hst.pc = "enter" /\ clt.alive
  /\ \/ hst.ev \in {"info", "mtu", "enc"} /\ ~LinkIsMine
     \/ hst.ev = "timer" /\ clt.status # "CONNECTED"
  /\ Return
  /\ UNCHANGED <<clt, stk, pc, td, hist>>

\* Mutant: m_connectEstablishedPending is not cleared.
EstablishedAgain == [clt EXCEPT !.timer = FALSE, !.task = NoTask]
EstablishedClient == [clt EXCEPT !.pending = FALSE, !.timer = FALSE, !.task = NoTask]

\* Mutant: m_pTaskData is cleared without a release.
Forgotten == NoTask
Waiter == clt.task

\* completeConnectEstablished(): take the waiter, call onConnect ...
Establish ==
  /\ hst.pc = "enter" /\ clt.alive
  /\ \/ hst.ev \in {"info", "mtu", "enc"} /\ LinkIsMine
     \/ hst.ev = "timer" /\ clt.status = "CONNECTED"
  /\ IF clt.pending
     THEN /\ clt' = EstablishedClient
          /\ hst' = [hst EXCEPT !.pc = "established", !.task = Waiter]
          /\ hist' = [hist EXCEPT !.opened = @ + 1, !.owed = FALSE]
     ELSE Goes("body") /\ UNCHANGED <<clt, hist>>
  /\ UNCHANGED <<stk, pc, td>>

\* ... and release it; the rest of the handler has nobody to release.
Established ==
  /\ hst.pc = "established"
  /\ Release(hst.task, "OK")
  /\ hst' = [hst EXCEPT !.pc = "body", !.task = NoTask]
  /\ UNCHANGED <<clt, stk, pc, hist>>

HandleInfo ==
  /\ hst.pc = "body" /\ hst.ev \in {"info", "timer"}
  /\ Return
  /\ UNCHANGED <<clt, stk, pc, td, hist>>

HandleMTU ==
  /\ hst.pc = "body" /\ hst.ev = "mtu"
  /\ Goes("release")
  /\ UNCHANGED <<clt, stk, pc, td, hist>>

\* Mutant: the handler returns before the release.
HandleEncChangeReturns ==
  /\ hst.pc = "body" /\ hst.ev = "enc"
  /\ Return
  /\ UNCHANGED <<clt, stk, pc, td, hist>>

\* A missing key deletes the bond and, once, retries an asynchronous attempt.
HandleEncChange ==
  /\ hst.pc = "body" /\ hst.ev = "enc"
  /\ \E ok \in BOOLEAN :
       LET again == hst.rc = "PINKEY" /\ clt.asyncSecure = 1
       IN /\ IF again THEN StartSecurity(ok) ELSE ~ok /\ UNCHANGED stk
          /\ clt' = [clt EXCEPT !.asyncSecure =
                       IF hst.rc = "OK" \/ (again /\ ~ok) THEN 0
                       ELSE IF again THEN @ + 1 ELSE @]
  /\ Goes("release")
  /\ UNCHANGED <<pc, td, hist>>

FinalRelease ==
  /\ hst.pc = "release"
  /\ Release(hst.task, hst.rc)
  /\ Return
  /\ UNCHANGED <<clt, stk, pc, hist>>

-----------------------------------------------------------------------------
TaskStep(t) ==
  \/ ConnectStart(t) \/ ConnectArm(t) \/ ConnectWake(t) \/ ConnectTimeout(t)
  \/ ConnectDone(t) \/ ConnectError(t)
  \/ SecureStart(t) \/ SecureWake(t) \/ SecureRetry(t) \/ SecureReturn(t)
  \/ DisconnectSet(t)

TaskCall(t) ==
  \/ \E async \in BOOLEAN : ConnectBegin(t, async)
  \/ SecureBegin(t) \/ SecureAsync(t) \/ Disconnect(t) \/ CancelConnect(t)
  \/ DeleteClient(t)

StackStep ==
  \/ \E h \in Handles : LinkUp(h)
  \/ AttemptFails
  \/ \E reason \in {"ESTAB", "DROP", "RESET"} : LinkDown(reason)
  \/ TerminateFails
  \/ \E ev \in {"info", "mtu"} : LinkEvent(ev)
  \/ \E status \in {"OK", "PINKEY", "FAIL"} : SecurityEnds(status)
  \/ TimerFires
  \/ Synced

HostStep ==
  \/ ClientGone \/ ConnectUnwanted \/ ConnectSucceeds \/ ConnectFails
  \/ AfterConnectFail \/ Disconnected \/ RetryStarts \/ RetryRefused
  \/ DisconnectCallback \/ DisconnectCleanup \/ TerminateRetry \/ NotForMe
  \/ Establish \/ Established \/ HandleInfo \/ HandleMTU \/ HandleEncChange
  \/ FinalRelease

Next == HostStep \/ StackStep \/ \E t \in Tasks : TaskStep(t) \/ TaskCall(t)

Spec == Init /\ [][Next]_vars

\* Tasks and the host task keep running.  The stack ends what it started: an
\* attempt or a security procedure by its own timeout, a termination or reset
\* by an event; the event queue is served in order, so no event is overtaken
\* for ever (strong fairness).
Fairness ==
  /\ \A t \in Tasks : WF_vars(TaskStep(t))
  /\ WF_vars(HostStep)
  /\ SF_vars(AttemptFails \/ \E h \in Handles : LinkUp(h))
  /\ SF_vars(\E status \in {"OK", "PINKEY", "FAIL"} : SecurityEnds(status))
  /\ SF_vars((stk.term \/ stk.reset) /\
             (TerminateFails \/ \E r \in {"ESTAB", "DROP", "RESET"} : LinkDown(r)))
  /\ SF_vars(TimerFires)
  /\ SF_vars(Synced)

FairSpec == Spec /\ Fairness

-----------------------------------------------------------------------------
(* Properties.                                                             *)

\* handleGapEvent is past the statement that makes the client DISCONNECTED.
LosingLink == hst.ev = "disconnect" /\ hst.pc \in {"enter", "retry", "notify", "cleanup"}

\* The client's idea of its link agrees with the stack's whenever the handler
\* is not in the middle of a DISCONNECT event: a CONNECTED client has a
\* handle, and a handle it has is that of the live link, never a stale one
\* (getConnHandle(), isConnected(), every GATT call uses them).
ConnectedOwnsLink ==
  clt.alive /\ ~LosingLink =>
    /\ clt.status = "CONNECTED" => clt.handle # NoHandle
    /\ clt.handle # NoHandle => clt.handle = stk.link

\* The establishment timer never outlives the link it was started for, so it
\* cannot report a later link as established before its time.
TimerBelongsToLink ==
  clt.timer => stk.link # NoHandle \/ (hst.ev = "disconnect" /\ hst.pc = "enter")

\* Timer, notification, MTU, encryption ... : whichever event completes the
\* establishment first, onConnect is called at most once for a link.
OnConnectOnce == hist.opened <= 1

\* A task that waits without a timeout in secureConnection() and is not yet
\* notified can still be found by the handler that will release it.
WaiterNotForgotten ==
  \A t \in Tasks :
    pc[t] = "secWait" /\ ~td[t].notified => clt.task = t \/ hst.task = t

\* secureConnection(), which waits for ever, returns: the procedure ends, or
\* the link does, or the retry of a link that failed to establish ends.
SecureReturns == \A t \in Tasks : pc[t] = "secWait" ~> pc[t] # "secWait"

\* No client stays CONNECTING: every attempt, retries included, has an outcome.
ConnectingEnds == clt.status = "CONNECTING" ~> clt.status # "CONNECTING"

\* An asynchronous connect() that returned true is answered by onConnect,
\* onConnectFail or onDisconnect, or the application deleted the client.
AsyncConnectAnswered == hist.owed ~> ~hist.owed \/ ~clt.alive

\* secureConnection() does not return true on a live link that is not
\* encrypted (its doc: it blocks "until the connection is secured or the
\* client disconnects").
SecureTrueMeansSecured ==
  \A t \in Tasks : pc[t] = "secEval" /\ td[t].flags = "OK" /\ LinkIsMine => stk.enc
=============================================================================
