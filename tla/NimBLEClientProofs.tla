-------------------------- MODULE NimBLEClientProofs --------------------------
(***************************************************************************)
(* Proofs, for any number of tasks, handles, retries and calls, of what    *)
(* the runs of NimBLEClient check on small instances; and, in the last     *)
(* part, for any number of clients, addresses and handles, that the events *)
(* of NimBLEClientTable find the clients whose links they are about.       *)
(***************************************************************************)
EXTENDS NimBLEClient, NimBLEClientTable, FiniteSetTheorems, ListLemmas

USE ClientAssumption

\* The part of the handler that only a DISCONNECT event reaches.
HandlerPhase ==
  /\ hst.pc \in {"retry", "notify", "cleanup"} => hst.ev = "disconnect"
  /\ hst.pc = "retry" => clt.handle = NoHandle /\ clt.status # "CONNECTED"

\* One procedure at a time with the peer: connecting, or connected.
OneProcedure == stk.proc # "none" => stk.link = NoHandle

\* The event of a new link is handled before anything else can happen to it.
NewLink ==
  hst.pc = "enter" /\ hst.ev = "connectOk" => stk.link # NoHandle /\ hist.opened = 0

\* onConnect is still due for a link that is pending, and only for that.
Due == clt.pending => hist.opened = 0

\* Deleting the client stops its timer for good.
DeadHasNoTimer == ~clt.alive => ~clt.timer

IInv ==
  /\ TypeOK
  /\ HandlerPhase
  /\ OneProcedure
  /\ NewLink
  /\ Due
  /\ DeadHasNoTimer
  /\ ConnectedOwnsLink
  /\ TimerBelongsToLink
  /\ OnConnectOnce
-----------------------------------------------------------------------------
\* What deleteClient() does to any client: it may ask for the deletion later,
\* but it never gives the client a link, a timer or a status it had not.
LEMMA DeleteLemma ==
  ASSUME NEW c \in Client
  PROVE  /\ Delete(c) \in Client
         /\ Delete(c).handle = c.handle
         /\ Delete(c).status = c.status
         /\ Delete(c).pending = c.pending
         /\ Delete(c).timer => c.timer
         /\ Delete(c).alive => c.alive
         /\ ~Delete(c).alive /\ c.alive => ~Delete(c).timer
  BY DEF Delete, Client, Status

-----------------------------------------------------------------------------
\* No step takes a field out of its type.
LEMMA TypeStep == TypeOK /\ [Next]_vars => TypeOK'
<1> SUFFICES ASSUME TypeOK, [Next]_vars PROVE TypeOK'
  OBVIOUS
<1>1. ASSUME NEW t \in Tasks, TaskStep(t) PROVE TypeOK'
  <2>1. CASE ConnectStart(t)
    <3>1. stk' \in Stack
      BY <2>1 DEF TypeOK, ConnectStart, Connecting, Stack
    <3>2. pc' \in [Tasks -> TaskPC]
      BY <2>1 DEF TypeOK, ConnectStart, Goto, TaskPC
    <3>3. td' \in [Tasks -> TaskData]
      BY <2>1 DEF TypeOK, ConnectStart, TaskData, RC
    <3>4. hist' \in History
      BY <2>1 DEF TypeOK, ConnectStart, History, Client
    <3> QED
      BY <2>1, <3>1, <3>2, <3>3, <3>4 DEF TypeOK, ConnectStart
  <2>2. CASE ConnectArm(t)
    <3>1. clt' \in Client
      BY <2>2 DEF TypeOK, ConnectArm, Client, Status
    <3>2. pc' \in [Tasks -> TaskPC]
      BY <2>2 DEF TypeOK, ConnectArm, Goto, TaskPC
    <3> QED
      BY <2>2, <3>1, <3>2 DEF TypeOK, ConnectArm
  <2>3. CASE ConnectWake(t)
    <3>1. pc' \in [Tasks -> TaskPC]
      BY <2>3 DEF TypeOK, ConnectWake, Goto, TaskPC
    <3>2. td' \in [Tasks -> TaskData]
      BY <2>3 DEF TypeOK, ConnectWake, Woken, TaskData, RC
    <3> QED
      BY <2>3, <3>1, <3>2 DEF TypeOK, ConnectWake
  <2>4. CASE ConnectTimeout(t)
    <3>1. stk' \in Stack
      BY <2>4 DEF TypeOK, ConnectTimeout, Cancelled, Stack
    <3>2. pc' \in [Tasks -> TaskPC]
      BY <2>4 DEF TypeOK, ConnectTimeout, Goto, TaskPC
    <3>3. td' \in [Tasks -> TaskData]
      BY <2>4 DEF TypeOK, ConnectTimeout, TaskData, RC
    <3> QED
      BY <2>4, <3>1, <3>2, <3>3 DEF TypeOK, ConnectTimeout
  <2>5. CASE ConnectDone(t)
    <3>1. clt' \in Client
      BY <2>5 DEF TypeOK, ConnectDone, Client, Status
    <3>2. pc' \in [Tasks -> TaskPC]
      BY <2>5 DEF TypeOK, ConnectDone, Leave, Goto, TaskPC
    <3>3. td' \in [Tasks -> TaskData]
      BY <2>5 DEF TypeOK, ConnectDone, Leave, TaskData, RC
    <3> QED
      BY <2>5, <3>1, <3>2, <3>3 DEF TypeOK, ConnectDone
  <2>6. CASE ConnectError(t)
    <3>1. clt' \in Client
      BY <2>6, DeleteLemma DEF TypeOK, ConnectError, Client, Status
    <3>2. pc' \in [Tasks -> TaskPC]
      BY <2>6 DEF TypeOK, ConnectError, Leave, Goto, TaskPC
    <3>3. td' \in [Tasks -> TaskData]
      BY <2>6 DEF TypeOK, ConnectError, Leave, TaskData, RC
    <3> QED
      BY <2>6, <3>1, <3>2, <3>3 DEF TypeOK, ConnectError
  <2>7. CASE SecureStart(t)
    <3>1. stk' \in Stack
      BY <2>7 DEF TypeOK, SecureStart, StartSecurity, Stack
    <3>2. pc' \in [Tasks -> TaskPC]
      BY <2>7 DEF TypeOK, SecureStart, Goto, TaskPC
    <3> QED
      BY <2>7, <3>1, <3>2 DEF TypeOK, SecureStart
  <2>8. CASE SecureWake(t)
    <3>1. pc' \in [Tasks -> TaskPC]
      BY <2>8 DEF TypeOK, SecureWake, Goto, TaskPC
    <3>2. td' \in [Tasks -> TaskData]
      BY <2>8 DEF TypeOK, SecureWake, Woken, TaskData, RC
    <3> QED
      BY <2>8, <3>1, <3>2 DEF TypeOK, SecureWake
  <2>9. CASE SecureRetry(t)
    <3>1. pc' \in [Tasks -> TaskPC]
      BY <2>9 DEF TypeOK, SecureRetry, Goto, TaskPC
    <3>2. td' \in [Tasks -> TaskData]
      BY <2>9 DEF TypeOK, SecureRetry, TaskData, RC
    <3> QED
      BY <2>9, <3>1, <3>2 DEF TypeOK, SecureRetry
  <2>10. CASE SecureReturn(t)
    <3>1. clt' \in Client
      BY <2>10 DEF TypeOK, SecureReturn, Client, Status
    <3>2. pc' \in [Tasks -> TaskPC]
      BY <2>10 DEF TypeOK, SecureReturn, Leave, Goto, TaskPC
    <3>3. td' \in [Tasks -> TaskData]
      BY <2>10 DEF TypeOK, SecureReturn, Leave, TaskData, RC
    <3> QED
      BY <2>10, <3>1, <3>2, <3>3 DEF TypeOK, SecureReturn
  <2>11. CASE DisconnectSet(t)
    <3>1. clt' \in Client
      BY <2>11 DEF TypeOK, DisconnectSet, Client, Status
    <3>2. pc' \in [Tasks -> TaskPC]
      BY <2>11 DEF TypeOK, DisconnectSet, Goto, TaskPC
    <3> QED
      BY <2>11, <3>1, <3>2 DEF TypeOK, DisconnectSet
  <2> QED
    BY <1>1, <2>1, <2>2, <2>3, <2>4, <2>5, <2>6, <2>7, <2>8, <2>9, <2>10, <2>11 DEF TaskStep
<1>2. ASSUME NEW t \in Tasks, TaskCall(t) PROVE TypeOK'
  <2>1. ASSUME NEW async \in BOOLEAN, ConnectBegin(t, async) PROVE TypeOK'
    <3>1. clt' \in Client
      <4> DEFINE new == [clt EXCEPT !.status = "CONNECTING", !.async = async,
                                    !.pending = FALSE, !.retries = 0]
      <4>1. new \in Client
        <5>1. 0 \in 0..MaxRetries
          BY ClientAssumption DEF ClientAssumption
        <5> QED
          BY <5>1, <2>1 DEF TypeOK, Client, Status
      <4>2. clt' = clt \/ clt' = new
        BY <2>1 DEF ConnectBegin
      <4> QED
        BY <4>1, <4>2 DEF TypeOK
    <3>2. pc' \in [Tasks -> TaskPC]
      BY <2>1 DEF TypeOK, ConnectBegin, Enter, Goto, TaskPC
    <3>3. td' \in [Tasks -> TaskData]
      BY <2>1 DEF TypeOK, ConnectBegin, Enter, TaskData, RC
    <3>4. hist' \in History
      BY <2>1 DEF TypeOK, ConnectBegin, History
    <3> QED
      BY <2>1, <3>1, <3>2, <3>3, <3>4 DEF TypeOK, ConnectBegin, Enter
  <2>2. CASE SecureBegin(t)
    <3>1. clt' \in Client
      BY <2>2 DEF TypeOK, SecureBegin, Client, Status
    <3>2. pc' \in [Tasks -> TaskPC]
      BY <2>2 DEF TypeOK, SecureBegin, Goto, TaskPC
    <3>3. td' \in [Tasks -> TaskData]
      BY <2>2 DEF TypeOK, SecureBegin, TaskData, RC
    <3> QED
      BY <2>2, <3>1, <3>2, <3>3 DEF TypeOK, SecureBegin
  <2>3. CASE SecureAsync(t)
    <3>1. clt' \in Client
      BY <2>3 DEF TypeOK, SecureAsync, Client, Status
    <3>2. stk' \in Stack
      BY <2>3 DEF TypeOK, SecureAsync, StartSecurity, Stack
    <3> QED
      BY <2>3, <3>1, <3>2 DEF TypeOK, SecureAsync
  <2>4. CASE Disconnect(t)
    <3>1. stk' \in Stack
      BY <2>4 DEF TypeOK, Disconnect, Terminate, Stack
    <3>2. pc' \in [Tasks -> TaskPC]
      BY <2>4 DEF TypeOK, Disconnect, Terminate, Goto, TaskPC
    <3> QED
      BY <2>4, <3>1, <3>2 DEF TypeOK, Disconnect, Terminate
  <2>5. CASE CancelConnect(t)
    <3>1. stk' \in Stack
      BY <2>5 DEF TypeOK, CancelConnect, Cancelled, Stack
    <3> QED
      BY <2>5, <3>1 DEF TypeOK, CancelConnect
  <2>6. CASE DeleteClient(t)
    <3>1. clt' \in Client
      BY <2>6, DeleteLemma DEF TypeOK, DeleteClient, Client, Status
    <3>2. stk' \in Stack
      BY <2>6 DEF TypeOK, DeleteClient, StackAfterDelete, Cancelled, Terminate, Stack
    <3>3. pc' \in [Tasks -> TaskPC]
      BY <2>6 DEF TypeOK, DeleteClient, Terminate, Goto, TaskPC
    <3> QED
      BY <2>6, <3>1, <3>2, <3>3 DEF TypeOK, DeleteClient, Terminate
  <2> QED
    BY <1>2, <2>1, <2>2, <2>3, <2>4, <2>5, <2>6 DEF TaskCall
<1>3. CASE StackStep
  <2>1. ASSUME NEW h \in Handles, LinkUp(h) PROVE TypeOK'
    <3>1. stk' \in Stack
      BY <2>1 DEF TypeOK, LinkUp, Stack
    <3>2. hst' \in HostTask
      BY <2>1 DEF TypeOK, LinkUp, Deliver, HostTask, Event, RC, Client
    <3>3. hist' \in History
      BY <2>1 DEF TypeOK, LinkUp, History
    <3> QED
      BY <2>1, <3>1, <3>2, <3>3 DEF TypeOK, LinkUp, Deliver
  <2>2. CASE AttemptFails
    <3>1. stk' \in Stack
      BY <2>2 DEF TypeOK, AttemptFails, Stack
    <3>2. hst' \in HostTask
      BY <2>2 DEF TypeOK, AttemptFails, Deliver, HostTask, Event, RC, Client
    <3> QED
      BY <2>2, <3>1, <3>2 DEF TypeOK, AttemptFails, Deliver
  <2>3. ASSUME NEW reason \in {"ESTAB", "DROP", "RESET"}, LinkDown(reason) PROVE TypeOK'
    <3>1. stk' \in Stack
      BY <2>3 DEF TypeOK, LinkDown, Stack
    <3>2. hst' \in HostTask
      BY <2>3 DEF TypeOK, LinkDown, Deliver, HostTask, Event, RC, Client
    <3> QED
      BY <2>3, <3>1, <3>2 DEF TypeOK, LinkDown, Deliver
  <2>4. CASE TerminateFails
    <3>1. stk' \in Stack
      BY <2>4 DEF TypeOK, TerminateFails, Stack
    <3>2. hst' \in HostTask
      BY <2>4 DEF TypeOK, TerminateFails, Deliver, HostTask, Event, RC, Client
    <3> QED
      BY <2>4, <3>1, <3>2 DEF TypeOK, TerminateFails, Deliver
  <2>5. ASSUME NEW ev \in {"info", "mtu"}, LinkEvent(ev) PROVE TypeOK'
    <3>1. stk' \in Stack
      BY <2>5 DEF TypeOK, LinkEvent, Stack
    <3>2. hst' \in HostTask
      BY <2>5 DEF TypeOK, LinkEvent, Deliver, HostTask, Event, RC, Client
    <3> QED
      BY <2>5, <3>1, <3>2 DEF TypeOK, LinkEvent, Deliver
  <2>6. ASSUME NEW status \in {"OK", "PINKEY", "FAIL"}, SecurityEnds(status) PROVE TypeOK'
    <3>1. stk' \in Stack
      BY <2>6 DEF TypeOK, SecurityEnds, Stack
    <3>2. hst' \in HostTask
      BY <2>6 DEF TypeOK, SecurityEnds, Deliver, HostTask, Event, RC, Client
    <3> QED
      BY <2>6, <3>1, <3>2 DEF TypeOK, SecurityEnds, Deliver
  <2>7. CASE TimerFires
    <3>1. clt' \in Client
      BY <2>7 DEF TypeOK, TimerFires, Client, Status
    <3>2. stk' \in Stack
      BY <2>7 DEF TypeOK, TimerFires, Stack
    <3>3. hst' \in HostTask
      BY <2>7 DEF TypeOK, TimerFires, Idle, HostTask, Event, RC
    <3> QED
      BY <2>7, <3>1, <3>2, <3>3 DEF TypeOK, TimerFires
  <2>8. CASE Synced
    <3>1. stk' \in Stack
      BY <2>8 DEF TypeOK, Synced, Stack
    <3> QED
      BY <2>8, <3>1 DEF TypeOK, Synced
  <2> QED
    BY <1>3, <2>1, <2>2, <2>3, <2>4, <2>5, <2>6, <2>7, <2>8 DEF StackStep
<1>4. CASE HostStep
  <2>1. CASE ClientGone
    <3>1. hst' \in HostTask
      BY <2>1 DEF TypeOK, ClientGone, Return, Idle, HostTask, Event, RC
    <3> QED
      BY <2>1, <3>1 DEF TypeOK, ClientGone
  <2>2. CASE ConnectUnwanted
    <3>1. stk' \in Stack
      BY <2>2 DEF TypeOK, ConnectUnwanted, Stack
    <3>2. hst' \in HostTask
      BY <2>2 DEF TypeOK, ConnectUnwanted, Return, Idle, HostTask, Event, RC
    <3> QED
      BY <2>2, <3>1, <3>2 DEF TypeOK, ConnectUnwanted
  <2>3. CASE ConnectSucceeds
    <3>1. clt' \in Client
      BY <2>3 DEF TypeOK, ConnectSucceeds, Connected, Client, Status, Stack
    <3>2. hst' \in HostTask
      BY <2>3 DEF TypeOK, ConnectSucceeds, Return, Idle, HostTask, Event, RC
    <3> QED
      BY <2>3, <3>1, <3>2 DEF TypeOK, ConnectSucceeds
  <2>4. CASE ConnectFails
    <3>1. clt' \in Client
      BY <2>4 DEF TypeOK, ConnectFails, Client, Status
    <3>2. hst' \in HostTask
      BY <2>4 DEF TypeOK, ConnectFails, Goes, HostTask, Event, RC
    <3>3. hist' \in History
      BY <2>4 DEF TypeOK, ConnectFails, History
    <3> QED
      BY <2>4, <3>1, <3>2, <3>3 DEF TypeOK, ConnectFails
  <2>5. CASE AfterConnectFail
    <3>1. clt' \in Client
      BY <2>5, DeleteLemma DEF TypeOK, AfterConnectFail, Client, Status
    <3>2. stk' \in Stack
      BY <2>5 DEF TypeOK, AfterConnectFail, StackAfterDelete, Cancelled, Stack
    <3>3. hst' \in HostTask
      BY <2>5 DEF TypeOK, AfterConnectFail, Goes, HostTask, Event, RC
    <3> QED
      BY <2>5, <3>1, <3>2, <3>3 DEF TypeOK, AfterConnectFail
  <2>6. CASE Disconnected
    <3>1. clt' \in Client
      <4> DEFINE again == [LinkLost EXCEPT !.handle = NoHandle, !.retries = @ + 1,
                                           !.status = "CONNECTING"]
      <4>1. LinkLost \in Client /\ LinkLost.retries = clt.retries
        BY DEF TypeOK, LinkLost, Client, Status
      <4>2. MayRetry => clt.retries + 1 \in 0..MaxRetries
        BY ClientAssumption DEF ClientAssumption, TypeOK, MayRetry, Client
      <4>3. MayRetry => again \in Client
        BY <4>1, <4>2 DEF Client, Status
      <4>4. clt' = IF MayRetry THEN again ELSE LinkLost
        BY <2>6 DEF Disconnected
      <4> HIDE DEF again
      <4> QED
        BY <4>1, <4>3, <4>4
    <3>2. stk' \in Stack
      BY <2>6 DEF TypeOK, Disconnected, Stack
    <3>3. hst' \in HostTask
      BY <2>6 DEF TypeOK, Disconnected, MayRetry, HostTask, Event, RC, Client
    <3> QED
      BY <2>6, <3>1, <3>2, <3>3 DEF TypeOK, Disconnected
  <2>7. CASE RetryStarts
    <3>1. stk' \in Stack
      BY <2>7 DEF TypeOK, RetryStarts, Connecting, Stack
    <3>2. hst' \in HostTask
      BY <2>7 DEF TypeOK, RetryStarts, Return, Idle, HostTask, Event, RC
    <3> QED
      BY <2>7, <3>1, <3>2 DEF TypeOK, RetryStarts
  <2>8. CASE RetryRefused
    <3>1. hst' \in HostTask
      BY <2>8 DEF TypeOK, RetryRefused, Goes, HostTask, Event, RC
    <3> QED
      BY <2>8, <3>1 DEF TypeOK, RetryRefused
  <2>9. CASE DisconnectCallback
    <3>1. hst' \in HostTask
      BY <2>9 DEF TypeOK, DisconnectCallback, Goes, HostTask, Event, RC
    <3>2. hist' \in History
      BY <2>9 DEF TypeOK, DisconnectCallback, History
    <3> QED
      BY <2>9, <3>1, <3>2 DEF TypeOK, DisconnectCallback
  <2>10. CASE DisconnectCleanup
    <3>1. clt' \in Client
      BY <2>10, DeleteLemma DEF TypeOK, DisconnectCleanup, Down, Client, Status
    <3>2. hst' \in HostTask
      BY <2>10 DEF TypeOK, DisconnectCleanup, Goes, HostTask, Event, RC
    <3> QED
      BY <2>10, <3>1, <3>2 DEF TypeOK, DisconnectCleanup
  <2>11. CASE TerminateRetry
    <3>1. clt' \in Client
      BY <2>11 DEF TypeOK, TerminateRetry, Client, Status
    <3>2. stk' \in Stack
      BY <2>11 DEF TypeOK, TerminateRetry, Stack
    <3>3. hst' \in HostTask
      BY <2>11 DEF TypeOK, TerminateRetry, Return, Idle, HostTask, Event, RC
    <3> QED
      BY <2>11, <3>1, <3>2, <3>3 DEF TypeOK, TerminateRetry
  <2>12. CASE NotForMe
    <3>1. hst' \in HostTask
      BY <2>12 DEF TypeOK, NotForMe, Return, Idle, HostTask, Event, RC
    <3> QED
      BY <2>12, <3>1 DEF TypeOK, NotForMe
  <2>13. CASE Establish
    <3>1. clt' \in Client
      <4>1. clt' = EstablishedClient \/ clt' = clt
        BY <2>13 DEF Establish
      <4> QED
        BY <4>1 DEF TypeOK, EstablishedClient, Client, Status
    <3>2. hst' \in HostTask
      <4>1. \/ hst' = [hst EXCEPT !.pc = "established", !.task = clt.task]
           \/ hst' = [hst EXCEPT !.pc = "body"]
        BY <2>13 DEF Establish, Waiter, Goes
      <4>2. clt.task \in Tasks \cup {NoTask} /\ hst \in HostTask
        BY DEF TypeOK, Client
      <4> QED
        BY <4>1, <4>2 DEF HostTask, Event, RC
    <3>3. hist' \in History
      <4>1. hist' = [hist EXCEPT !.opened = @ + 1, !.owed = FALSE] \/ hist' = hist
        BY <2>13 DEF Establish
      <4>2. hist \in History /\ hist.opened + 1 \in Nat
        BY DEF TypeOK, History
      <4> QED
        BY <4>1, <4>2 DEF History
    <3> QED
      BY <2>13, <3>1, <3>2, <3>3 DEF TypeOK, Establish
  <2>14. CASE Established
    <3>1. td' \in [Tasks -> TaskData]
      BY <2>14 DEF TypeOK, Established, Release, TaskData, RC, HostTask
    <3>2. hst' \in HostTask
      BY <2>14 DEF TypeOK, Established, HostTask, Event, RC
    <3> QED
      BY <2>14, <3>1, <3>2 DEF TypeOK, Established
  <2>15. CASE HandleInfo
    <3>1. hst' \in HostTask
      BY <2>15 DEF TypeOK, HandleInfo, Return, Idle, HostTask, Event, RC
    <3> QED
      BY <2>15, <3>1 DEF TypeOK, HandleInfo
  <2>16. CASE HandleMTU
    <3>1. hst' \in HostTask
      BY <2>16 DEF TypeOK, HandleMTU, Goes, HostTask, Event, RC
    <3> QED
      BY <2>16, <3>1 DEF TypeOK, HandleMTU
  <2>17. CASE HandleEncChange
    <3>1. clt' \in Client
      BY <2>17 DEF TypeOK, HandleEncChange, Client, Status
    <3>2. stk' \in Stack
      BY <2>17 DEF TypeOK, HandleEncChange, StartSecurity, Stack
    <3>3. hst' \in HostTask
      BY <2>17 DEF TypeOK, HandleEncChange, Goes, HostTask, Event, RC
    <3> QED
      BY <2>17, <3>1, <3>2, <3>3 DEF TypeOK, HandleEncChange
  <2>18. CASE FinalRelease
    <3>1. td' \in [Tasks -> TaskData]
      BY <2>18 DEF TypeOK, FinalRelease, Release, TaskData, RC, HostTask
    <3>2. hst' \in HostTask
      BY <2>18 DEF TypeOK, FinalRelease, Return, Idle, HostTask, Event, RC
    <3> QED
      BY <2>18, <3>1, <3>2 DEF TypeOK, FinalRelease
  <2> QED
    BY <1>4, <2>1, <2>2, <2>3, <2>4, <2>5, <2>6, <2>7, <2>8, <2>9, <2>10, <2>11, <2>12, <2>13, <2>14, <2>15, <2>16, <2>17, <2>18 DEF HostStep
<1>5. CASE UNCHANGED vars
  BY <1>5 DEF vars, TypeOK
<1> QED
  BY <1>1, <1>2, <1>3, <1>4, <1>5 DEF Next

\* Every field of every variable of the client, the stack and the tasks keeps its type.
THEOREM TypeCorrect == Spec => []TypeOK
<1>1. Init => TypeOK
  BY DEF Init, Idle, TypeOK, Client, Stack, HostTask, TaskPC, TaskData, History, Status, RC, Event
<1>2. TypeOK /\ [Next]_vars => TypeOK'
  BY TypeStep
<1> QED
  BY <1>1, <1>2, PTL DEF Spec

-----------------------------------------------------------------------------
\* All that an application task can do to what IInv speaks of: it may give up
\* the status CONNECTED, delete the client, start an attempt when there is no
\* link.  It never takes part in the handling of an event.
Quiet ==
  /\ UNCHANGED hst
  /\ stk'.link = stk.link
  /\ stk'.proc # "none" => stk.proc # "none" \/ stk.link = NoHandle
  /\ clt'.handle = clt.handle
  /\ clt'.status = "CONNECTED" => clt.status = "CONNECTED"
  /\ clt'.pending => clt.pending
  /\ clt'.timer => clt.timer
  /\ clt'.alive => clt.alive
  /\ ~clt'.alive => ~clt'.timer
  /\ hist'.opened = hist.opened

\* A step that is quiet in this sense preserves the invariant.
LEMMA QuietPreserves == IInv /\ TypeOK' /\ Quiet => IInv'
  BY DEF IInv, Quiet, HandlerPhase, OneProcedure, NewLink, Due, DeadHasNoTimer,
         ConnectedOwnsLink, TimerBelongsToLink, OnConnectOnce, LosingLink

\* The calls of the application never disturb what the handler relies on,
\* whichever task makes them and at whichever step of the handler.
LEMMA TasksAreQuiet ==
  ASSUME TypeOK, DeadHasNoTimer, NEW t \in Tasks, TaskStep(t) \/ TaskCall(t)
  PROVE  Quiet
<1> USE DEF TypeOK, DeadHasNoTimer, Quiet, Client, Stack, History
<1>1. CASE ConnectStart(t)
  BY <1>1 DEF ConnectStart, CanConnect, Connecting
<1>2. CASE ConnectArm(t)
  BY <1>2 DEF ConnectArm
<1>3. CASE ConnectWake(t)
  BY <1>3 DEF ConnectWake
<1>4. CASE ConnectTimeout(t)
  BY <1>4 DEF ConnectTimeout, Cancelled
<1>5. CASE ConnectDone(t)
  BY <1>5 DEF ConnectDone
<1>6. CASE ConnectError(t)
  <2> DEFINE failed == [clt EXCEPT !.status = "DISCONNECTED"]
  <2>1. failed \in Client
    BY DEF Status
  <2>2. clt' = failed \/ clt' = Delete(failed)
    BY <1>6 DEF ConnectError
  <2>3. UNCHANGED <<stk, hst, hist>>
    BY <1>6 DEF ConnectError
  <2>4. /\ failed.handle = clt.handle /\ failed.status # "CONNECTED"
        /\ failed.pending = clt.pending /\ failed.timer = clt.timer
        /\ failed.alive = clt.alive
    OBVIOUS
  <2>5. /\ clt'.handle = clt.handle /\ clt'.status # "CONNECTED"
        /\ clt'.pending => clt.pending
        /\ clt'.timer => clt.timer
        /\ clt'.alive => clt.alive
        /\ ~clt'.alive => ~clt'.timer
    <3> HIDE DEF failed
    <3> QED
      BY <2>1, <2>2, <2>4, DeleteLemma
  <2> QED
    BY <2>3, <2>5
<1>7. CASE SecureStart(t)
  BY <1>7 DEF SecureStart, StartSecurity
<1>8. CASE SecureWake(t)
  BY <1>8 DEF SecureWake
<1>9. CASE SecureRetry(t)
  BY <1>9 DEF SecureRetry
<1>10. CASE SecureReturn(t)
  BY <1>10 DEF SecureReturn
<1>11. CASE DisconnectSet(t)
  BY <1>11 DEF DisconnectSet
<1>12. ASSUME NEW async \in BOOLEAN, ConnectBegin(t, async) PROVE Quiet
  BY <1>12 DEF ConnectBegin, Enter
<1>13. CASE SecureBegin(t)
  BY <1>13 DEF SecureBegin
<1>14. CASE SecureAsync(t)
  BY <1>14 DEF SecureAsync, StartSecurity
<1>15. CASE Disconnect(t)
  BY <1>15 DEF Disconnect, Terminate
<1>16. CASE CancelConnect(t)
  BY <1>16 DEF CancelConnect, Cancelled
<1>17. CASE DeleteClient(t)
  BY <1>17, DeleteLemma DEF DeleteClient, StackAfterDelete, Cancelled, Terminate
<1> QED
  BY <1>1, <1>2, <1>3, <1>4, <1>5, <1>6, <1>7, <1>8, <1>9, <1>10, <1>11, <1>12, <1>13, <1>14, <1>15, <1>16, <1>17 DEF TaskStep, TaskCall

\* Every event of the stack preserves the invariant.
LEMMA StackPreserves == IInv /\ TypeOK' /\ StackStep => IInv'
<1> SUFFICES ASSUME IInv, TypeOK', StackStep PROVE IInv'
  OBVIOUS
<1> USE DEF IInv, HandlerPhase, OneProcedure, NewLink, Due, DeadHasNoTimer,
            ConnectedOwnsLink, TimerBelongsToLink, OnConnectOnce, LosingLink,
            TypeOK, Client, Stack, HostTask, History
<1>1. ASSUME NEW h \in Handles, LinkUp(h) PROVE IInv'
  BY <1>1 DEF LinkUp, Deliver
<1>2. CASE AttemptFails
  BY <1>2 DEF AttemptFails, Deliver
<1>3. ASSUME NEW reason \in {"ESTAB", "DROP", "RESET"}, LinkDown(reason) PROVE IInv'
  BY <1>3 DEF LinkDown, Deliver
<1>4. CASE TerminateFails
  BY <1>4 DEF TerminateFails, Deliver
<1>5. ASSUME NEW ev \in {"info", "mtu"}, LinkEvent(ev) PROVE IInv'
  BY <1>5 DEF LinkEvent, Deliver
<1>6. ASSUME NEW status \in {"OK", "PINKEY", "FAIL"}, SecurityEnds(status) PROVE IInv'
  BY <1>6 DEF SecurityEnds, Deliver
<1>7. CASE TimerFires
  BY <1>7 DEF TimerFires, Idle
<1>8. CASE Synced
  BY <1>8 DEF Synced
<1> QED
  BY <1>1, <1>2, <1>3, <1>4, <1>5, <1>6, <1>7, <1>8 DEF StackStep

\* Every step of the GAP handler and of the timer callback preserves it.
LEMMA HostPreserves == IInv /\ TypeOK' /\ HostStep => IInv'
<1> SUFFICES ASSUME IInv, TypeOK', HostStep PROVE IInv'
  OBVIOUS
<1> USE DEF IInv, HandlerPhase, OneProcedure, NewLink, Due, DeadHasNoTimer,
            ConnectedOwnsLink, TimerBelongsToLink, OnConnectOnce, LosingLink,
            TypeOK, Client, Stack, HostTask, History
<1>1. CASE ClientGone
  BY <1>1 DEF ClientGone, Return, Idle
<1>2. CASE ConnectUnwanted
  BY <1>2 DEF ConnectUnwanted, Return, Idle
<1>3. CASE ConnectSucceeds
  BY <1>3 DEF ConnectSucceeds, Handling, Connected, Return, Idle
<1>4. CASE ConnectFails
  BY <1>4 DEF ConnectFails, Handling, Goes
<1>5. CASE AfterConnectFail
  BY <1>5, DeleteLemma DEF AfterConnectFail, StackAfterDelete, Cancelled, Goes
<1>6. CASE Disconnected
  BY <1>6 DEF Disconnected, Handling, LinkLost
<1>7. CASE RetryStarts
  BY <1>7 DEF RetryStarts, CanConnect, Connecting, Return, Idle
<1>8. CASE RetryRefused
  BY <1>8 DEF RetryRefused, Goes
<1>9. CASE DisconnectCallback
  BY <1>9 DEF DisconnectCallback, Goes
<1>10. CASE DisconnectCleanup
  <2>1. Down \in Client
    BY DEF Down, Status
  <2>2. /\ Down.handle = NoHandle /\ Down.status = "DISCONNECTED"
        /\ Down.pending = clt.pending /\ Down.timer = clt.timer
        /\ Down.alive = clt.alive
    BY DEF Down
  <2>3. \/ clt' = Down
        \/ clt' = [Down EXCEPT !.delFail = TRUE]
        \/ clt' = Delete(Down)
    BY <1>10 DEF DisconnectCleanup
  <2>4. /\ clt'.handle = NoHandle /\ clt'.status = "DISCONNECTED"
        /\ clt'.pending => clt.pending
        /\ clt'.timer => clt.timer
        /\ ~clt'.alive => ~clt'.timer
    BY <2>1, <2>2, <2>3, DeleteLemma
  <2>5. hst' = [hst EXCEPT !.pc = "release"] /\ UNCHANGED <<stk, hist>>
    BY <1>10 DEF DisconnectCleanup, Goes
  <2>6. hst.pc = "cleanup"
    BY <1>10 DEF DisconnectCleanup
  <2> QED
    BY <2>4, <2>5, <2>6
<1>11. CASE TerminateRetry
  BY <1>11 DEF TerminateRetry, Handling, Return, Idle
<1>12. CASE NotForMe
  BY <1>12 DEF NotForMe, Return, Idle
<1>13. CASE Establish
  <2>1. CASE clt.pending
    <3>1. clt' = EstablishedClient
      BY <1>13, <2>1 DEF Establish
    <3>2. hst' = [hst EXCEPT !.pc = "established", !.task = Waiter]
      BY <1>13, <2>1 DEF Establish
    <3>3. hist' = [hist EXCEPT !.opened = @ + 1, !.owed = FALSE] /\ UNCHANGED stk
      BY <1>13, <2>1 DEF Establish
    <3>4. hst.pc = "enter" /\ hst.ev # "disconnect"
      BY <1>13 DEF Establish
    <3>5. hist.opened = 0 /\ hist'.opened = 1
      BY <2>1, <3>3
    <3>6. hst'.pc = "established"
      BY <3>2
    <3>7. /\ clt'.handle = clt.handle /\ clt'.status = clt.status
          /\ ~clt'.pending /\ ~clt'.timer /\ clt'.alive = clt.alive
      BY <3>1 DEF EstablishedClient
    <3> QED
      BY <3>3, <3>4, <3>5, <3>6, <3>7
  <2>2. CASE ~clt.pending
    BY <1>13, <2>2 DEF Establish, Goes
  <2> QED
    BY <2>1, <2>2
<1>14. CASE Established
  BY <1>14 DEF Established
<1>15. CASE HandleInfo
  BY <1>15 DEF HandleInfo, Return, Idle
<1>16. CASE HandleMTU
  BY <1>16 DEF HandleMTU, Goes
<1>17. CASE HandleEncChange
  BY <1>17 DEF HandleEncChange, StartSecurity, Goes
<1>18. CASE FinalRelease
  BY <1>18 DEF FinalRelease, Return, Idle
<1> QED
  BY <1>1, <1>2, <1>3, <1>4, <1>5, <1>6, <1>7, <1>8, <1>9, <1>10, <1>11, <1>12, <1>13, <1>14, <1>15, <1>16, <1>17, <1>18 DEF HostStep

-----------------------------------------------------------------------------
\* IInv is an inductive invariant of the specification.
THEOREM Invariance == Spec => []IInv
<1>1. Init => IInv
  BY DEF Init, Idle, IInv, TypeOK, Client, Stack, HostTask, TaskPC, TaskData,
         History, Status, RC, Event, HandlerPhase, OneProcedure, NewLink, Due,
         DeadHasNoTimer, ConnectedOwnsLink, TimerBelongsToLink, OnConnectOnce
<1>2. IInv /\ [Next]_vars => IInv'
  <2> SUFFICES ASSUME IInv, [Next]_vars PROVE IInv'
    OBVIOUS
  <2>1. TypeOK'
    BY TypeStep DEF IInv
  <2>2. ASSUME NEW t \in Tasks, TaskStep(t) \/ TaskCall(t) PROVE IInv'
    BY <2>1, <2>2, TasksAreQuiet, QuietPreserves DEF IInv
  <2>3. CASE StackStep
    BY <2>1, <2>3, StackPreserves
  <2>4. CASE HostStep
    BY <2>1, <2>4, HostPreserves
  <2>5. CASE UNCHANGED vars
    BY <2>5 DEF vars, IInv, TypeOK, HandlerPhase, OneProcedure, NewLink, Due,
                DeadHasNoTimer, ConnectedOwnsLink, TimerBelongsToLink,
                OnConnectOnce, LosingLink
  <2> QED
    BY <2>2, <2>3, <2>4, <2>5 DEF Next
<1> QED
  BY <1>1, <1>2, PTL DEF Spec

\* Whatever the number of tasks, retries and calls: outside the handling of a
\* DISCONNECT event the client's handle is that of the live link or none, and
\* a CONNECTED client has one.
THEOREM ClientOwnsItsLink == Spec => []ConnectedOwnsLink
<1>1. IInv => ConnectedOwnsLink
  BY DEF IInv
<1> QED
  BY <1>1, Invariance, PTL

\* The establishment timer of a link is stopped before the link's end has been
\* handled, or has expired: it never runs into a later connection.
THEOREM TimerEndsWithLink == Spec => []TimerBelongsToLink
<1>1. IInv => TimerBelongsToLink
  BY DEF IInv
<1> QED
  BY <1>1, Invariance, PTL

\* onConnect is called at most once for each link, by whichever of the timer
\* and the seven event handlers comes first.
THEOREM OneOnConnectPerLink == Spec => []OnConnectOnce
<1>1. IInv => OnConnectOnce
  BY DEF IInv
<1> QED
  BY <1>1, Invariance, PTL

-----------------------------------------------------------------------------
(* The waiter of secureConnection().  That m_pTaskData has room for one    *)
(* task is no restriction of the model: two tasks that block in the client *)
(* do lose one another.  What follows is about the use the client is made  *)
(* for, where one task makes the calls that block; the others disconnect,  *)
(* cancel, delete and secure asynchronously as they like.                  *)

BlockingCalls == {"connect", "connectAsync", "busyConnect", "secure"}
Blockers == {t \in Tasks : Calls[t] \cap BlockingCalls # {}}
OneTaskBlocks == \A t, u \in Blockers : t = u

Securing(t) == pc[t] \in {"secStart", "secWait", "secEval"}

\* A task in secureConnection() is the client's waiter; or the handler took it to
\* release it after onConnect; or it was released so, and does not try again.
CanBeReleased(t) ==
  \/ clt.task = t
  \/ clt.task = NoTask /\ hst.pc = "established" /\ hst.task = t
  \/ /\ clt.task = NoTask /\ hst.task = NoTask
     /\ td[t].flags = "OK"
     /\ pc[t] = "secEval" \/ td[t].notified

WaiterInv ==
  /\ \A t \in Tasks : t \notin Blockers => pc[t] \in {"idle", "discSet"}
  /\ \A t \in Tasks : Securing(t) => CanBeReleased(t)

\* A step of the host or the stack that has nobody in its hands to release.
Calm ==
  /\ pc' = pc /\ td' = td /\ clt'.task = clt.task
  /\ hst.pc # "established"
  /\ hst'.task \in {hst.task, clt.task, NoTask}

LEMMA CalmKeeps == TypeOK /\ WaiterInv /\ Calm => WaiterInv'
<1> SUFFICES ASSUME TypeOK, WaiterInv, Calm PROVE WaiterInv'
  OBVIOUS
<1>1. ASSUME NEW t \in Tasks, Securing(t)' PROVE CanBeReleased(t)'
  <2>1. Securing(t)
    BY <1>1 DEF Securing, Calm
  <2>2. CanBeReleased(t)
    BY <2>1 DEF WaiterInv
  <2> QED
    BY <2>2 DEF CanBeReleased, Calm
<1> QED
  BY <1>1 DEF WaiterInv, Calm

LEMMA DeleteKeepsTask == ASSUME NEW c \in Client PROVE Delete(c).task = c.task
  BY DEF Delete, Client

LEMMA StackIsCalm == TypeOK /\ StackStep => Calm
<1> SUFFICES ASSUME TypeOK, StackStep PROVE Calm
  OBVIOUS
<1>1. ASSUME NEW ev, NEW rc, Deliver(ev, rc), UNCHANGED <<clt, pc, td>> PROVE Calm
  BY <1>1 DEF Deliver, Calm
<1>2. ASSUME NEW h \in Handles, LinkUp(h) PROVE Calm
  BY <1>1, <1>2 DEF LinkUp
<1>3. CASE AttemptFails
  BY <1>1, <1>3 DEF AttemptFails
<1>4. ASSUME NEW r \in {"ESTAB", "DROP", "RESET"}, LinkDown(r) PROVE Calm
  BY <1>1, <1>4 DEF LinkDown
<1>5. CASE TerminateFails
  BY <1>1, <1>5 DEF TerminateFails
<1>6. ASSUME NEW ev \in {"info", "mtu"}, LinkEvent(ev) PROVE Calm
  BY <1>1, <1>6 DEF LinkEvent
<1>7. ASSUME NEW s \in {"OK", "PINKEY", "FAIL"}, SecurityEnds(s) PROVE Calm
  BY <1>1, <1>7 DEF SecurityEnds
<1>8. CASE TimerFires
  BY <1>8 DEF TimerFires, Idle, Calm, TypeOK, Client
<1>9. CASE Synced
  BY <1>9 DEF Synced, Calm
<1> QED
  BY <1>2, <1>3, <1>4, <1>5, <1>6, <1>7, <1>8, <1>9 DEF StackStep

\* What a handler does between its entry and its last statement.
LEMMA HandlerIsCalm ==
  ASSUME TypeOK, HostStep PROVE Calm \/ Establish \/ Established \/ FinalRelease
<1> USE DEF Calm, Return, Goes, Idle
<1>1. clt \in Client /\ hst \in HostTask
  BY DEF TypeOK
<1>2. CASE ClientGone
  BY <1>2 DEF ClientGone
<1>3. CASE ConnectUnwanted
  BY <1>3 DEF ConnectUnwanted
<1>4. CASE ConnectSucceeds
  BY <1>1, <1>4 DEF ConnectSucceeds, Handling, Connected, Client
<1>5. CASE ConnectFails
  <2>1. clt'.task = clt.task
    BY <1>1, <1>5 DEF ConnectFails, Client
  <2> QED
    BY <1>1, <1>5, <2>1 DEF ConnectFails, Handling, HostTask
<1>6. CASE AfterConnectFail
  <2>1. clt'.task = clt.task
    BY <1>1, <1>6, DeleteKeepsTask DEF AfterConnectFail
  <2> QED
    BY <1>1, <1>6, <2>1 DEF AfterConnectFail, HostTask
<1>7. CASE Disconnected
  <2>1. clt'.task = clt.task
    BY <1>1, <1>7 DEF Disconnected, LinkLost, Client
  <2>2. hst'.task = clt.task
    BY <1>1, <1>7 DEF Disconnected, HostTask
  <2> QED
    BY <1>7, <2>1, <2>2 DEF Disconnected, Handling
<1>8. CASE RetryStarts \/ RetryRefused
  BY <1>1, <1>8 DEF RetryStarts, RetryRefused, HostTask
<1>9. CASE DisconnectCallback
  BY <1>1, <1>9 DEF DisconnectCallback, HostTask
<1>10. CASE DisconnectCleanup
  <2>1. Down \in Client /\ Down.task = clt.task
    BY <1>1 DEF Down, Client, Status
  <2>2. clt'.task = clt.task
    BY <1>10, <2>1, DeleteKeepsTask DEF DisconnectCleanup, Client
  <2> QED
    BY <1>1, <1>10, <2>2 DEF DisconnectCleanup, HostTask
<1>11. CASE TerminateRetry
  BY <1>1, <1>11 DEF TerminateRetry, Handling, Client
<1>12. CASE NotForMe
  BY <1>12 DEF NotForMe
<1>13. CASE HandleInfo \/ HandleMTU
  BY <1>1, <1>13 DEF HandleInfo, HandleMTU, HostTask
<1>14. CASE HandleEncChange
  <2>1. clt'.task = clt.task
    BY <1>1, <1>14 DEF HandleEncChange, Client
  <2> QED
    BY <1>1, <1>14, <2>1 DEF HandleEncChange, HostTask
<1> QED
  BY <1>2, <1>3, <1>4, <1>5, <1>6, <1>7, <1>8, <1>9, <1>10, <1>11, <1>12, <1>13, <1>14
  DEF HostStep

LEMMA ReleasesKeep ==
  ASSUME TypeOK, WaiterInv, Establish \/ Established \/ FinalRelease PROVE WaiterInv'
<1>1. /\ pc' = pc
      /\ clt \in Client /\ hst \in HostTask /\ td \in [Tasks -> TaskData]
      /\ NoTask \notin Tasks
  BY ClientAssumption DEF TypeOK, Establish, Established, FinalRelease, ClientAssumption
<1>2. ASSUME NEW t \in Tasks, Securing(t)' PROVE CanBeReleased(t)'
  <2>1. Securing(t) /\ Busy(t)
    BY <1>1, <1>2 DEF Securing, Busy
  <2>2. CanBeReleased(t)
    BY <2>1 DEF WaiterInv
  <2>3. CASE Establish
    <3>1. CASE ~clt.pending
      BY <1>1, <2>2, <2>3, <3>1 DEF Establish, Goes, CanBeReleased, HostTask
    <3>2. CASE clt.pending
      <4>1. /\ clt'.task = NoTask /\ td' = td /\ hst.pc = "enter"
            /\ hst'.pc = "established" /\ hst'.task = clt.task
        BY <1>1, <2>3, <3>2 DEF Establish, EstablishedClient, Waiter, Client, HostTask
      <4> QED
        BY <1>1, <2>2, <4>1 DEF CanBeReleased
    <3> QED
      BY <3>1, <3>2
  <2>4. CASE Established
    <3>1. clt' = clt /\ hst.pc = "established" /\ hst'.task = NoTask
      BY <1>1, <2>4 DEF Established, HostTask
    <3>2. hst.task = t => td'[t].flags = "OK" /\ td'[t].notified
      BY <1>1, <2>1, <2>4 DEF Established, Release, TaskData
    <3>3. hst.task = NoTask => td' = td
      BY <2>4 DEF Established, Release
    <3> QED
      BY <1>1, <2>2, <3>1, <3>2, <3>3 DEF CanBeReleased
  <2>5. CASE FinalRelease
    <3>1. clt' = clt /\ hst.pc = "release" /\ hst'.task = NoTask
      BY <2>5 DEF FinalRelease, Return, Idle
    <3>2. hst.task = NoTask => td' = td
      BY <2>5 DEF FinalRelease, Release
    <3> QED
      BY <1>1, <2>2, <3>1, <3>2 DEF CanBeReleased
  <2> QED
    BY <2>3, <2>4, <2>5
<1> QED
  BY <1>1, <1>2 DEF WaiterInv

\* The calls that do not block leave the waiter alone.
LEMMA OtherCallsKeep ==
  ASSUME TypeOK, WaiterInv, NEW u \in Tasks,
         \/ DisconnectSet(u) \/ SecureAsync(u) \/ Disconnect(u) \/ CancelConnect(u)
         \/ DeleteClient(u)
  PROVE  WaiterInv'
<1>1. clt \in Client /\ pc \in [Tasks -> TaskPC]
  BY DEF TypeOK
<1>2. UNCHANGED <<hst, td>> /\ clt'.task = clt.task
  BY <1>1, DeleteKeepsTask
  DEF DisconnectSet, SecureAsync, Disconnect, CancelConnect, DeleteClient, Client
<1>3. pc[u] \in {"idle", "discSet"} /\ (pc' = pc \/ \E l \in {"idle", "discSet"} : Goto(u, l))
  BY DEF DisconnectSet, SecureAsync, Disconnect, CancelConnect, DeleteClient, Terminate
<1>4. pc'[u] \in {"idle", "discSet"} /\ \A t \in Tasks \ {u} : pc'[t] = pc[t]
  BY <1>1, <1>3 DEF Goto
<1>5. ASSUME NEW t \in Tasks, Securing(t)' PROVE CanBeReleased(t)'
  <2>1. Securing(t) /\ pc'[t] = pc[t]
    BY <1>4, <1>5 DEF Securing
  <2> QED
    BY <1>2, <2>1 DEF WaiterInv, CanBeReleased
<1> QED
  BY <1>4, <1>5 DEF WaiterInv

\* Who makes a call that blocks is the one that may, so that no other waits.
BlockingStep(t) ==
  \/ \E async \in BOOLEAN : ConnectBegin(t, async)
  \/ ConnectStart(t) \/ ConnectArm(t) \/ ConnectWake(t) \/ ConnectTimeout(t)
  \/ ConnectDone(t) \/ ConnectError(t)
  \/ SecureBegin(t) \/ SecureStart(t) \/ SecureWake(t) \/ SecureRetry(t) \/ SecureReturn(t)

LEMMA BlockingIsOne ==
  ASSUME OneTaskBlocks, TypeOK, WaiterInv, NEW u \in Tasks, BlockingStep(u)
  PROVE  /\ u \in Blockers
         /\ \A t \in Tasks \ {u} : t \notin Blockers /\ pc'[t] = pc[t] /\ ~Securing(t)'
<1>1. pc \in [Tasks -> TaskPC]
  BY DEF TypeOK
<1>2. u \in Blockers
  <2>1. CASE pc[u] \in {"idle", "discSet"}
    <3>1. Calls[u] \cap BlockingCalls # {}
      BY <2>1
      DEF BlockingStep, ConnectBegin, ConnectAllowed, ConnectStart, ConnectArm, ConnectWake,
          ConnectTimeout, ConnectDone, ConnectError, SecureBegin, SecureStart, SecureWake,
          SecureRetry, SecureReturn, BlockingCalls
    <3> QED
      BY <3>1 DEF Blockers
  <2>2. CASE pc[u] \notin {"idle", "discSet"}
    BY <2>2 DEF WaiterInv
  <2> QED
    BY <2>1, <2>2
<1>3. \E l : pc' = [pc EXCEPT ![u] = l]
  BY DEF BlockingStep, ConnectBegin, ConnectStart, ConnectArm, ConnectWake, ConnectTimeout,
         ConnectDone, ConnectError, SecureBegin, SecureStart, SecureWake, SecureRetry,
         SecureReturn, Enter, Leave, Goto
<1>4. \A t \in Tasks \ {u} : pc'[t] = pc[t]
  BY <1>1, <1>3
<1>5. ASSUME NEW t \in Tasks \ {u} PROVE t \notin Blockers /\ ~Securing(t)'
  <2>1. t \notin Blockers
    BY <1>2, <1>5 DEF OneTaskBlocks, Blockers
  <2> QED
    BY <1>4, <1>5, <2>1 DEF WaiterInv, Securing
<1> QED
  BY <1>2, <1>4, <1>5

LEMMA BlockingKeeps ==
  ASSUME OneTaskBlocks, TypeOK, WaiterInv, NEW u \in Tasks, BlockingStep(u)
  PROVE  WaiterInv'
<1>1. /\ clt \in Client /\ pc \in [Tasks -> TaskPC] /\ td \in [Tasks -> TaskData]
      /\ hst' = hst
  BY DEF TypeOK, BlockingStep, ConnectBegin, ConnectStart, ConnectArm, ConnectWake,
         ConnectTimeout, ConnectDone, ConnectError, SecureBegin, SecureStart, SecureWake,
         SecureRetry, SecureReturn
<1>2. ASSUME Securing(u)' PROVE CanBeReleased(u)'
  <2>1. CASE \/ \E async \in BOOLEAN : ConnectBegin(u, async)
             \/ ConnectStart(u) \/ ConnectArm(u) \/ ConnectWake(u) \/ ConnectTimeout(u)
             \/ ConnectDone(u) \/ ConnectError(u) \/ SecureReturn(u)
    <3>1. \E l \in {"start", "err", "idle", "arm", "wait", "done"} : pc' = [pc EXCEPT ![u] = l]
      BY <2>1 DEF ConnectBegin, ConnectStart, ConnectArm, ConnectWake, ConnectTimeout,
                  ConnectDone, ConnectError, SecureReturn, Enter, Leave, Goto
    <3> QED
      BY <1>1, <1>2, <3>1 DEF Securing
  <2>2. CASE SecureBegin(u)
    BY <1>1, <2>2 DEF SecureBegin, CanBeReleased, Client
  <2>3. CASE SecureStart(u)
    <3>1. Securing(u) /\ pc[u] = "secStart" /\ UNCHANGED <<clt, td>>
      BY <2>3 DEF SecureStart, Securing
    <3> QED
      BY <1>1, <3>1 DEF WaiterInv, CanBeReleased
  <2>4. CASE SecureWake(u)
    <3>1. Securing(u) /\ UNCHANGED clt
      BY <2>4 DEF SecureWake, Securing
    <3>2. pc'[u] = "secEval" /\ td'[u].flags = td[u].flags
      BY <1>1, <2>4 DEF SecureWake, Woken, Goto, TaskData
    <3> QED
      BY <1>1, <3>1, <3>2 DEF WaiterInv, CanBeReleased
  <2>5. CASE SecureRetry(u)
    <3>1. Securing(u) /\ td[u].flags = "PINKEY" /\ UNCHANGED clt
      BY <2>5 DEF SecureRetry, Securing
    <3> QED
      BY <1>1, <3>1 DEF WaiterInv, CanBeReleased
  <2> QED
    BY <2>1, <2>2, <2>3, <2>4, <2>5 DEF BlockingStep
<1> QED
  BY <1>2, BlockingIsOne DEF WaiterInv

LEMMA NextWaiterInv ==
  ASSUME OneTaskBlocks, TypeOK, WaiterInv, [Next]_vars PROVE WaiterInv'
<1>1. CASE HostStep
  BY <1>1, HandlerIsCalm, CalmKeeps, ReleasesKeep
<1>2. CASE StackStep
  BY <1>2, StackIsCalm, CalmKeeps
<1>3. ASSUME NEW t \in Tasks, TaskStep(t) \/ TaskCall(t) PROVE WaiterInv'
  <2>1. \/ BlockingStep(t)
        \/ DisconnectSet(t) \/ SecureAsync(t) \/ Disconnect(t) \/ CancelConnect(t)
        \/ DeleteClient(t)
    BY <1>3 DEF TaskStep, TaskCall, BlockingStep
  <2> QED
    BY <2>1, BlockingKeeps, OtherCallsKeep
<1>4. CASE UNCHANGED vars
  BY <1>4 DEF vars, WaiterInv, Securing, CanBeReleased
<1> QED
  BY <1>1, <1>2, <1>3, <1>4 DEF Next

\* If one task makes the calls that block, then a task that waits in
\* secureConnection(), which has no timeout, and has not been notified, is in
\* m_pTaskData or in the hands of the handler that will release it: it is neither
\* taken out of the client without its release nor left waiting by a retry.
THEOREM TheWaiterIsKnown ==
  ASSUME OneTaskBlocks PROVE Spec => []WaiterNotForgotten
<1>1. Init => WaiterInv
  BY DEF Init, WaiterInv, Securing
<1>2. TypeOK /\ WaiterInv /\ [Next]_vars => WaiterInv'
  BY NextWaiterInv
<1>3. WaiterInv => WaiterNotForgotten
  BY DEF WaiterInv, Securing, CanBeReleased, WaiterNotForgotten
<1> QED
  BY <1>1, <1>2, <1>3, TypeCorrect, PTL DEF Spec
-----------------------------------------------------------------------------
(* The clients of a device, and the table in which they are found.         *)

Places == 1..TableSize

\* The table and the live clients are the same, each in one place.
Placed ==
  /\ \A i \in Places : table[i] # NoClient => Lives(table[i])
  /\ \A i, j \in Places : table[i] = table[j] /\ table[i] # NoClient => i = j
  /\ \A c \in Clients : Lives(c) => \E i \in Places : table[i] = c

\* A client that is not there yet, or any more, has nothing.
DeadIsBare ==
  \A c \in Clients : ~Lives(c) => obj[c].status = "DISCONNECTED" /\ obj[c].handle = NoConn

\* A handle is that of a link of its client, though it may have strayed.
HandlesAreOwn == \A c \in Clients : obj[c].handle # NoConn => obj[c].handle \in LinksOf(c)

\* What the stack has of a client that has not strayed.
Knows(c) ==
  /\ HasAttempt(c) => obj[c].status = "CONNECTING"
  /\ \A h \in LinksOf(c) : obj[c].handle = h
  /\ LinksOf(c) # {} => obj[c].status \in {"CONNECTED", "DISCONNECTING"}
  /\ obj[c].status = "CONNECTED" => LinksOf(c) # {}

StackKnows == \A c \in Clients \ strayed : Knows(c)

TypesOK ==
  /\ obj \in [Clients -> ClientObject]
  /\ table \in [Places -> Clients \cup {NoClient}]
  /\ gap \in [attempt : GapAttempt, links : [Conns -> GapLink]]
  /\ strayed \in SUBSET Clients

TableInv == TypesOK /\ Placed /\ DeadIsBare /\ HandlesAreOwn /\ StackKnows

TableSpec == TableInit /\ [][TableNext]_tableVars

-----------------------------------------------------------------------------
(* The lookups.                                                            *)

\* A lookup that finds a client finds one of the table and of the set.
LEMMA FirstInIs ==
  ASSUME NEW S
  PROVE  \/ FirstIn(S) = NoClient /\ \A i \in Places : table[i] \notin S
         \/ \E i \in Places : table[i] = FirstIn(S) /\ table[i] \in S
<1> DEFINE at == {i \in 1..TableSize : table[i] \in S}
           first == CHOOSE i \in at : \A j \in at : i <= j
<1>1. FirstIn(S) = IF at = {} THEN NoClient ELSE table[first]
  BY DEF FirstIn
<1>2. at \subseteq Nat /\ TableSize \in Nat
  BY TableAssumption DEF TableAssumption
<1>3. at # {} => \E i \in at : \A j \in at : i <= j
  <2> HIDE DEF at
  <2> QED
    BY <1>2, LeastIs
<1>4. at # {} => first \in at
  <2> HIDE DEF at
  <2> QED
    BY <1>3
<1> QED
  BY <1>1, <1>4 DEF Places

\* A set with one client of the table: that is found.
LEMMA OneIsFound ==
  ASSUME TableInv, NEW c \in Clients, Lives(c), NEW S, c \in S,
         \A d \in Clients : d \in S => d = c, NoClient \notin S
  PROVE  FirstIn(S) = c
<1>1. PICK i \in Places : table[i] = c
  BY DEF TableInv, Placed
<1>2. \A j \in Places : table[j] \in Clients \cup {NoClient}
  BY DEF TableInv, TypesOK
<1> QED
  BY <1>1, <1>2, FirstInIs

\* A handle finds its client, and nobody else has it.
LEMMA HandleIsFound ==
  ASSUME TableInv, NEW c \in Clients, NEW h \in Conns, obj[c].handle = h
  PROVE  /\ ClientByHandle(h) = c /\ Lives(c) /\ h \in LinksOf(c)
         /\ \A d \in Clients : obj[d].handle = h => d = c
<1>1. h # NoConn
  BY TableAssumption DEF TableAssumption
<1>2. Lives(c) /\ h \in LinksOf(c)
  BY <1>1 DEF TableInv, DeadIsBare, HandlesAreOwn
<1>3. \A d \in Clients : obj[d].handle = h => d = c
  BY <1>1, <1>2 DEF TableInv, HandlesAreOwn, LinksOf
<1>4. NoClient \notin {d \in Clients : obj[d].handle = h}
  BY TableAssumption DEF TableAssumption
<1>5. ClientByHandle(h) = c
  <2> DEFINE S == {d \in Clients : obj[d].handle = h}
  <2>1. c \in S /\ NoClient \notin S /\ \A d \in Clients : d \in S => d = c
    BY <1>3, <1>4
  <2> HIDE DEF S
  <2>2. FirstIn(S) = c
    BY <1>2, <2>1, OneIsFound
  <2> QED
    BY <2>2 DEF ClientByHandle, S
<1> QED
  BY <1>2, <1>3, <1>5

\* The client of an event is a live one.
LEMMA FoundLives ==
  ASSUME TableInv, NEW h, NEW a, FindClient(h, a) # NoClient
  PROVE  FindClient(h, a) \in Clients /\ Lives(FindClient(h, a))
<1>1. ASSUME NEW S, FirstIn(S) # NoClient PROVE FirstIn(S) \in Clients /\ Lives(FirstIn(S))
  <2>1. PICK i \in Places : table[i] = FirstIn(S)
    BY <1>1, FirstInIs
  <2> QED
    BY <1>1, <2>1 DEF TableInv, TypesOK, Placed
<1> QED
  BY <1>1 DEF FindClient, ClientByHandle, ClientByPeerAddress

-----------------------------------------------------------------------------
(* The objects and the table.                                              *)

LEMMA SomeAddressIs == SomeAddress \in Addresses
BY TableAssumption DEF TableAssumption, SomeAddress

LEMMA NewIs ==
  ASSUME NEW a \in Addresses
  PROVE  /\ NewClient(a) \in ClientObject
         /\ NewClient(a).state = "live" /\ NewClient(a).status = "DISCONNECTED"
         /\ NewClient(a).handle = NoConn
BY DEF NewClient, ClientObject

LEMMA DeletedIs ==
  /\ DeletedClient \in ClientObject
  /\ DeletedClient.state = "deleted" /\ DeletedClient.status = "DISCONNECTED"
  /\ DeletedClient.handle = NoConn
BY SomeAddressIs, NewIs DEF DeletedClient, ClientObject

\* What a call or event that ends with Becomes() leaves of objects and table.
LEMMA BecomesIs ==
  ASSUME TableInv, NEW c \in Clients, Lives(c), NEW o \in ClientObject, o.state = "live",
         NEW delete \in BOOLEAN, Becomes(c, o, delete)
  PROVE  /\ obj' \in [Clients -> ClientObject]
         /\ table' \in [Places -> Clients \cup {NoClient}]
         /\ obj'[c] = IF delete THEN DeletedClient ELSE o
         /\ \A d \in Clients \ {c} : obj'[d] = obj[d]
         /\ Placed' /\ DeadIsBare'
<1>1. obj' = [obj EXCEPT ![c] = IF delete THEN DeletedClient ELSE o]
  BY DEF Becomes
<1>2. obj \in [Clients -> ClientObject] /\ table \in [Places -> Clients \cup {NoClient}]
  BY DEF TableInv, TypesOK
<1>3. /\ obj' \in [Clients -> ClientObject]
      /\ obj'[c] = IF delete THEN DeletedClient ELSE o
      /\ \A d \in Clients \ {c} : obj'[d] = obj[d]
  BY <1>1, <1>2, DeletedIs
<1>4. DeadIsBare'
  <2>1. \A d \in Clients \ {c} : (Lives(d))' <=> Lives(d)
    BY <1>3 DEF Lives
  <2> QED
    BY <1>3, <2>1, DeletedIs DEF TableInv, DeadIsBare, Lives
<1>5. c # NoClient
  BY TableAssumption DEF TableAssumption
<1>6. table' \in [Places -> Clients \cup {NoClient}] /\ Placed'
  <2>1. CASE ~delete
    <3>1. table' = table /\ \A d \in Clients : (Lives(d))' <=> Lives(d)
      BY <1>3, <2>1 DEF Becomes, Lives
    <3>2. \A i \in Places : table[i] # NoClient => table[i] \in Clients
      BY <1>2
    <3> QED
      BY <1>2, <3>1, <3>2 DEF TableInv, Placed
  <2>2. CASE delete
    <3>1. table' = [i \in Places |-> IF table[i] = c THEN NoClient ELSE table[i]]
      BY <2>2 DEF Becomes, Places
    <3>2. \A d \in Clients : (Lives(d))' <=> Lives(d) /\ d # c
      BY <1>3, <2>2, DeletedIs DEF Lives
    <3>3. table' \in [Places -> Clients \cup {NoClient}]
      BY <1>2, <3>1
    <3>4. \A i \in Places : table[i] # NoClient => table[i] \in Clients
      BY <1>2
    <3>5. \A i \in Places : table'[i] # NoClient => table'[i] = table[i] /\ table[i] # c
      BY <3>1
    <3>6. \A d \in Clients : (Lives(d))' => \E i \in Places : table'[i] = d
      BY <3>1, <3>2 DEF TableInv, Placed
    <3> QED
      BY <3>2, <3>3, <3>4, <3>5, <3>6 DEF TableInv, Placed
  <2> QED
    BY <2>1, <2>2
<1> QED
  BY <1>3, <1>4, <1>6

\* Only the object of a live client changes, and it stays.
LEMMA ChangesIs ==
  ASSUME TableInv, NEW c \in Clients, Lives(c), NEW o \in ClientObject, o.state = "live",
         obj' = [obj EXCEPT ![c] = o], table' = table
  PROVE  /\ obj' \in [Clients -> ClientObject]
         /\ table' \in [Places -> Clients \cup {NoClient}]
         /\ obj'[c] = o
         /\ \A d \in Clients \ {c} : obj'[d] = obj[d]
         /\ Placed' /\ DeadIsBare'
<1>1. Becomes(c, o, FALSE)
  BY DEF Becomes
<1> QED
  BY <1>1, BecomesIs

\* The links of a client depend on the stack alone.
LEMMA StackIs ==
  ASSUME TableInv
  PROVE  /\ gap.attempt \in GapAttempt /\ gap.links \in [Conns -> GapLink]
         /\ \A c \in Clients : LinksOf(c) \subseteq Conns
         /\ \A c, d \in Clients, h \in Conns : h \in LinksOf(c) /\ h \in LinksOf(d) => c = d
         /\ \A c, d \in Clients : HasAttempt(c) /\ HasAttempt(d) => c = d
         /\ NoAttempt \in GapAttempt /\ FreeLink \in GapLink
         /\ \A c \in Clients : NoAttempt.arg # c
<1>1. NoAttempt \in GapAttempt /\ FreeLink \in GapLink
  BY SomeAddressIs DEF NoAttempt, FreeLink, GapAttempt, GapLink, LinkState
<1>2. \A c \in Clients : NoAttempt.arg # c
  BY TableAssumption DEF TableAssumption, NoAttempt
<1> QED
  BY <1>1, <1>2 DEF TableInv, TypesOK, LinksOf, HasAttempt

\* Who is known still, after a step that keeps what the stack has of him.
LEMMA StaysKnown ==
  ASSUME TableInv, NEW d \in Clients, obj'[d] = obj[d], d \notin strayed' => d \notin strayed,
         (LinksOf(d))' = LinksOf(d), (HasAttempt(d))' => HasAttempt(d)
  PROVE  /\ obj'[d].handle # NoConn => obj'[d].handle \in (LinksOf(d))'
         /\ d \notin strayed' => (Knows(d))'
BY DEF TableInv, HandlesAreOwn, StackKnows, Knows

\* A step is that of one client, or of one link.
LEMMA StepKeeps ==
  ASSUME TableInv, NEW c \in Clients, TypesOK', Placed', DeadIsBare',
         \A d \in Clients \ {c} :
           /\ obj'[d] = obj[d] /\ (LinksOf(d))' = LinksOf(d)
           /\ (HasAttempt(d))' => HasAttempt(d)
           /\ d \notin strayed' => d \notin strayed,
         obj'[c].handle # NoConn => obj'[c].handle \in (LinksOf(c))',
         c \notin strayed' => (Knows(c))'
  PROVE  TableInv'
<1>1. ASSUME NEW d \in Clients
      PROVE  /\ obj'[d].handle # NoConn => obj'[d].handle \in (LinksOf(d))'
             /\ d \notin strayed' => (Knows(d))'
  BY StaysKnown
<1> QED
  BY <1>1 DEF TableInv, HandlesAreOwn, StackKnows

LEMMA StraysIs ==
  ASSUME TableInv, NEW c \in Clients, Strays(c)
  PROVE  /\ strayed' \in SUBSET Clients
         /\ c \notin strayed' => c \notin strayed /\ ~HasAttempt(c) /\ LinksOf(c) = {}
         /\ \A d \in Clients : d \notin strayed' => d \notin strayed
BY DEF Strays, TableInv, TypesOK

-----------------------------------------------------------------------------
(* The application's calls.                                                *)

LEMMA CreateClientKeeps ==
  ASSUME TableInv, NEW c \in Clients, NEW a \in Addresses, CreateClient(c, a)
  PROVE  TableInv'
<1>1. PICK i \in Places : /\ table[i] = NoClient /\ table' = [table EXCEPT ![i] = c]
                          /\ obj' = [obj EXCEPT ![c] = NewClient(a)] /\ UNCHANGED <<gap, strayed>>
                          /\ obj[c].state = "none"
  BY DEF CreateClient, Places
<1>2. obj \in [Clients -> ClientObject] /\ table \in [Places -> Clients \cup {NoClient}]
  BY DEF TableInv, TypesOK
<1>3. TypesOK'
  <2>1. NewClient(a) \in ClientObject
    BY NewIs
  <2>2. obj' \in [Clients -> ClientObject] /\ table' \in [Places -> Clients \cup {NoClient}]
    BY <1>1, <1>2, <2>1
  <2> QED
    BY <1>1, <2>2 DEF TableInv, TypesOK
<1>4. /\ obj'[c] = NewClient(a) /\ \A d \in Clients \ {c} : obj'[d] = obj[d]
      /\ table'[i] = c /\ \A j \in Places \ {i} : table'[j] = table[j]
  BY <1>1, <1>2
<1>5. ~Lives(c) /\ (Lives(c))' /\ \A d \in Clients \ {c} : (Lives(d))' <=> Lives(d)
  BY <1>1, <1>4, NewIs DEF Lives
<1>6. c # NoClient /\ \A j \in Places : table[j] # NoClient => table[j] \in Clients
  BY <1>2, TableAssumption DEF TableAssumption
<1>7. Placed'
  <2>1. \A j \in Places : table[j] # NoClient => Lives(table[j]) /\ table[j] # c
    BY <1>5 DEF TableInv, Placed
  <2>2. \A d \in Clients : Lives(d) => (Lives(d))'
    BY <1>5
  <2>3. ASSUME NEW j \in Places, table'[j] # NoClient
        PROVE  obj'[table'[j]].state = "live"
    <3>1. CASE j = i
      BY <1>4, <1>5, <3>1 DEF Lives
    <3>2. CASE j # i
      <4>1. table'[j] = table[j] /\ table[j] # NoClient
        BY <1>4, <2>3, <3>2
      <4>2. table[j] \in Clients /\ Lives(table[j])
        BY <1>6, <2>1, <4>1
      <4>3. \A d \in Clients : Lives(d) => obj'[d].state = "live"
        BY <2>2 DEF Lives
      <4> QED
        BY <4>1, <4>2, <4>3
    <3> QED
      BY <3>1, <3>2
  <2>4. \A j, k \in Places : table'[j] = table'[k] /\ table'[j] # NoClient => j = k
    BY <1>4, <2>1 DEF TableInv, Placed
  <2>5. ASSUME NEW d \in Clients, (Lives(d))' PROVE \E j \in Places : table'[j] = d
    <3>1. CASE d = c
      BY <1>4, <3>1
    <3>2. CASE d # c
      <4>1. PICK j \in Places : table[j] = d
        BY <1>5, <2>5, <3>2 DEF TableInv, Placed
      <4>2. d # NoClient
        BY TableAssumption DEF TableAssumption
      <4> QED
        BY <1>1, <1>4, <4>1, <4>2
    <3> QED
      BY <3>1, <3>2
  <2> QED
    BY <2>3, <2>4, <2>5 DEF Placed, Lives
<1>8. DeadIsBare'
  BY <1>4, <1>5 DEF TableInv, DeadIsBare
<1>9. ASSUME NEW d \in Clients
      PROVE  /\ obj'[d].handle # NoConn => obj'[d].handle \in (LinksOf(d))'
             /\ d \notin strayed' => (Knows(d))'
  <2>1. (LinksOf(d))' = LinksOf(d) /\ ((HasAttempt(d))' <=> HasAttempt(d)) /\ strayed' = strayed
    BY <1>1 DEF LinksOf, HasAttempt
  <2>2. CASE d = c
    <3>1. obj'[c].status = obj[c].status /\ obj'[c].handle = obj[c].handle
      BY <1>4, <1>5, NewIs DEF TableInv, DeadIsBare
    <3> QED
      BY <2>1, <2>2, <3>1 DEF TableInv, HandlesAreOwn, StackKnows, Knows
  <2>3. CASE d # c
    BY <1>4, <2>1, <2>3, StaysKnown
  <2> QED
    BY <2>2, <2>3
<1> QED
  BY <1>3, <1>7, <1>8, <1>9 DEF TableInv, HandlesAreOwn, StackKnows

LEMMA SetPeerAddressKeeps ==
  ASSUME TableInv, NEW c \in Clients, NEW a \in Addresses, SetPeerAddress(c, a)
  PROVE  TableInv'
<1> DEFINE o == [obj[c] EXCEPT !.addr = a]
<1>1. obj[c] \in ClientObject
  BY DEF TableInv, TypesOK
<1>2. /\ o \in ClientObject /\ o.state = obj[c].state /\ o.status = obj[c].status
      /\ o.handle = obj[c].handle
  BY <1>1 DEF ClientObject
<1>3. Lives(c) /\ obj' = [obj EXCEPT ![c] = o] /\ UNCHANGED <<table, gap, strayed>>
  BY DEF SetPeerAddress
<1> HIDE DEF o
<1>4. TypesOK' /\ Placed' /\ DeadIsBare' /\ obj'[c] = o /\ \A d \in Clients \ {c} : obj'[d] = obj[d]
  BY <1>2, <1>3, ChangesIs DEF Lives, TableInv, TypesOK
<1>5. \A d \in Clients : (LinksOf(d))' = LinksOf(d) /\ ((HasAttempt(d))' <=> HasAttempt(d))
  BY <1>3 DEF LinksOf, HasAttempt
<1>6. /\ obj'[c].handle # NoConn => obj'[c].handle \in (LinksOf(c))'
      /\ c \notin strayed' => (Knows(c))'
  BY <1>2, <1>3, <1>4, <1>5 DEF TableInv, HandlesAreOwn, StackKnows, Knows
<1> QED
  BY <1>3, <1>4, <1>5, <1>6, StepKeeps

LEMMA SetSelfDeleteKeeps ==
  ASSUME TableInv, NEW c \in Clients, NEW flags \in DeleteFlags, SetSelfDelete(c, flags)
  PROVE  TableInv'
<1> DEFINE o == [obj[c] EXCEPT !.onLoss = flags[1], !.onFail = flags[2]]
<1>1. obj[c] \in ClientObject /\ obj \in [Clients -> ClientObject]
      /\ flags[1] \in BOOLEAN /\ flags[2] \in BOOLEAN
  BY TableAssumption DEF TableAssumption, TableInv, TypesOK
<1>2. /\ o \in ClientObject /\ o.state = obj[c].state /\ o.status = obj[c].status
      /\ o.handle = obj[c].handle
  BY <1>1 DEF ClientObject
<1>3. Lives(c) /\ obj' = [obj EXCEPT ![c] = o] /\ UNCHANGED <<table, gap, strayed>>
  BY <1>1 DEF SetSelfDelete
<1> HIDE DEF o
<1>4. TypesOK' /\ Placed' /\ DeadIsBare' /\ obj'[c] = o /\ \A d \in Clients \ {c} : obj'[d] = obj[d]
  BY <1>2, <1>3, ChangesIs DEF Lives, TableInv, TypesOK
<1>5. \A d \in Clients : (LinksOf(d))' = LinksOf(d) /\ ((HasAttempt(d))' <=> HasAttempt(d))
  BY <1>3 DEF LinksOf, HasAttempt
<1>6. /\ obj'[c].handle # NoConn => obj'[c].handle \in (LinksOf(c))'
      /\ c \notin strayed' => (Knows(c))'
  BY <1>2, <1>3, <1>4, <1>5 DEF TableInv, HandlesAreOwn, StackKnows, Knows
<1> QED
  BY <1>3, <1>4, <1>5, <1>6, StepKeeps

LEMMA AttemptKeeps ==
  ASSUME TableInv, NEW c \in Clients, NEW a \in Addresses, Attempt(c, a)
  PROVE  TableInv'
<1> DEFINE o == [obj[c] EXCEPT !.status = "CONNECTING", !.addr = a]
<1>1. obj[c] \in ClientObject /\ obj \in [Clients -> ClientObject]
  BY DEF TableInv, TypesOK
<1>2. /\ o \in ClientObject /\ o.state = obj[c].state /\ o.status = "CONNECTING"
      /\ o.handle = obj[c].handle
  BY <1>1 DEF ClientObject
<1>3. Lives(c) /\ obj' = [obj EXCEPT ![c] = o] /\ UNCHANGED <<table, strayed>>
  BY <1>1 DEF Attempt
<1> HIDE DEF o
<1>4. Placed' /\ DeadIsBare' /\ obj'[c] = o /\ obj' \in [Clients -> ClientObject]
      /\ \A d \in Clients \ {c} : obj'[d] = obj[d]
  BY <1>2, <1>3, ChangesIs DEF Lives
<1>5. gap' = [gap EXCEPT !.attempt = [arg |-> c, addr |-> a]] /\ obj[c].status = "DISCONNECTED"
  BY DEF Attempt
<1>6. TypesOK' /\ gap'.links = gap.links /\ gap'.attempt.arg = c
  BY <1>3, <1>4, <1>5 DEF TableInv, TypesOK, GapAttempt
<1>7. \A d \in Clients : (LinksOf(d))' = LinksOf(d) /\ ((HasAttempt(d))' <=> d = c)
  BY <1>6 DEF LinksOf, HasAttempt
<1>8. /\ obj'[c].handle # NoConn => obj'[c].handle \in (LinksOf(c))'
      /\ c \notin strayed' => (Knows(c))'
  BY <1>2, <1>3, <1>4, <1>5, <1>7 DEF TableInv, HandlesAreOwn, StackKnows, Knows
<1> QED
  BY <1>3, <1>4, <1>6, <1>7, <1>8, StepKeeps

\* A client that becomes DISCONNECTED, or is deleted, with neither attempt nor
\* link, or strays.
LEMMA DisconnectedKeeps ==
  ASSUME TableInv, NEW c \in Clients, Lives(c), NEW o \in ClientObject, o.state = "live",
         o.status = "DISCONNECTED", o.handle \in {obj[c].handle, NoConn},
         NEW delete \in BOOLEAN, Becomes(c, o, delete), Strays(c), UNCHANGED gap
  PROVE  TableInv'
<1>1. /\ obj' \in [Clients -> ClientObject]
      /\ table' \in [Places -> Clients \cup {NoClient}]
      /\ obj'[c] = IF delete THEN DeletedClient ELSE o
      /\ \A d \in Clients \ {c} : obj'[d] = obj[d]
      /\ Placed' /\ DeadIsBare'
  BY BecomesIs
<1>2. TypesOK'
  BY <1>1, StraysIs DEF TableInv, TypesOK
<1>3. \A d \in Clients : (LinksOf(d))' = LinksOf(d) /\ ((HasAttempt(d))' <=> HasAttempt(d))
  BY DEF LinksOf, HasAttempt
<1>4. obj'[c].status = "DISCONNECTED" /\ obj'[c].handle \in {obj[c].handle, NoConn}
  BY <1>1, DeletedIs
<1>5. c \notin strayed' => (Knows(c))'
  BY <1>3, <1>4, StraysIs DEF Knows
<1>6. obj'[c].handle # NoConn => obj'[c].handle \in (LinksOf(c))'
  BY <1>3, <1>4 DEF TableInv, HandlesAreOwn
<1> QED
  BY <1>1, <1>2, <1>3, <1>5, <1>6, StraysIs, StepKeeps

LEMMA ConnectIsRefusedKeeps ==
  ASSUME TableInv, NEW c \in Clients, NEW a \in Addresses, ConnectIsRefused(c, a)
  PROVE  TableInv'
<1> DEFINE o == IF obj[c].status = "DISCONNECTED" THEN [obj[c] EXCEPT !.addr = a]
                ELSE [obj[c] EXCEPT !.status = "DISCONNECTED"]
<1>1. obj[c] \in ClientObject /\ obj[c].onFail \in BOOLEAN
  BY DEF TableInv, TypesOK, ClientObject
<1>2. o \in ClientObject /\ o.state = obj[c].state /\ o.status = "DISCONNECTED" /\ o.handle = obj[c].handle
  BY <1>1 DEF ClientObject
<1>3. Lives(c) /\ Becomes(c, o, obj[c].onFail) /\ Strays(c) /\ UNCHANGED gap
  BY DEF ConnectIsRefused
<1> HIDE DEF o
<1> QED
  BY <1>1, <1>2, <1>3, DisconnectedKeeps DEF Lives

LEMMA ConnectTimesOutKeeps ==
  ASSUME TableInv, NEW c \in Clients, ConnectTimesOut(c)
  PROVE  TableInv'
<1> DEFINE o == [obj[c] EXCEPT !.status = "DISCONNECTED"]
<1>1. obj[c] \in ClientObject /\ obj[c].onFail \in BOOLEAN
  BY DEF TableInv, TypesOK, ClientObject
<1>2. o \in ClientObject /\ o.state = obj[c].state /\ o.status = "DISCONNECTED" /\ o.handle = obj[c].handle
  BY <1>1 DEF ClientObject
<1>3. Lives(c) /\ Becomes(c, o, obj[c].onFail) /\ Strays(c) /\ UNCHANGED gap
  BY DEF ConnectTimesOut
<1> HIDE DEF o
<1> QED
  BY <1>1, <1>2, <1>3, DisconnectedKeeps DEF Lives

\* disconnect(): the links stay, and whose they are.
LEMMA EndingIs ==
  ASSUME TableInv, NEW c \in Clients, Ending(c)
  PROVE  /\ gap' \in [attempt : GapAttempt, links : [Conns -> GapLink]]
         /\ \A d \in Clients : (LinksOf(d))' = LinksOf(d) /\ ((HasAttempt(d))' <=> HasAttempt(d))
         /\ \/ StatusAfterDisconnect(c) = obj[c].status
            \/ StatusAfterDisconnect(c) = "DISCONNECTING" /\ LinksOf(c) # {}
<1> DEFINE h == obj[c].handle
           ended == [gap EXCEPT !.links[h].state = "ending"]
<1>1. gap \in [attempt : GapAttempt, links : [Conns -> GapLink]]
  BY DEF TableInv, TypesOK
<1>2. CASE ~Terminates(c)
  <2>1. gap' = gap /\ StatusAfterDisconnect(c) = obj[c].status
    BY <1>2 DEF Ending, StatusAfterDisconnect
  <2>2. \A d \in Clients : (LinksOf(d))' = LinksOf(d) /\ ((HasAttempt(d))' <=> HasAttempt(d))
    BY <2>1 DEF LinksOf, HasAttempt
  <2>3. gap' \in [attempt : GapAttempt, links : [Conns -> GapLink]]
    BY <1>1, <2>1
  <2> QED
    BY <2>1, <2>2, <2>3
<1>3. CASE Terminates(c)
  <2>1. gap' = ended /\ StatusAfterDisconnect(c) = "DISCONNECTING"
    BY <1>3 DEF Ending, StatusAfterDisconnect
  <2>2. h \in LinksOf(c) /\ h \in Conns /\ gap.links[h].state = "open"
    BY <1>3 DEF Terminates, TableInv, HandlesAreOwn, LinksOf
  <2>3. gap.links[h] \in GapLink
    BY <1>1, <2>2
  <2> DEFINE l == [gap.links[h] EXCEPT !.state = "ending"]
  <2>4. l \in GapLink /\ l.state = "ending" /\ l.arg = gap.links[h].arg
        /\ l.unwanted = gap.links[h].unwanted
    BY <2>3 DEF GapLink, LinkState
  <2>5. gap' = [gap EXCEPT !.links = [gap.links EXCEPT ![h] = l]]
    BY <1>1, <2>1
  <2> HIDE DEF l
  <2>6. /\ gap' \in [attempt : GapAttempt, links : [Conns -> GapLink]]
        /\ gap'.attempt = gap.attempt /\ gap'.links[h] = l
        /\ \A k \in Conns \ {h} : gap'.links[k] = gap.links[k]
    BY <1>1, <2>2, <2>4, <2>5
  <2>7. \A d \in Clients : (LinksOf(d))' = LinksOf(d) /\ ((HasAttempt(d))' <=> HasAttempt(d))
    BY <2>2, <2>4, <2>6 DEF LinksOf, HasAttempt
  <2> QED
    BY <2>1, <2>2, <2>6, <2>7
<1> QED
  BY <1>2, <1>3

\* A client whose link is made to end, or that changes nothing but its flags.
LEMMA EndsKeeps ==
  ASSUME TableInv, NEW c \in Clients, Lives(c), NEW o \in ClientObject, o.state = "live",
         o.handle = obj[c].handle, o.status = StatusAfterDisconnect(c),
         obj' = [obj EXCEPT ![c] = o], Ending(c), UNCHANGED <<table, strayed>>
  PROVE  TableInv'
<1>1. /\ obj' \in [Clients -> ClientObject] /\ obj'[c] = o
      /\ \A d \in Clients \ {c} : obj'[d] = obj[d]
      /\ Placed' /\ DeadIsBare'
  BY ChangesIs
<1>2. TypesOK'
  BY <1>1, EndingIs DEF TableInv, TypesOK
<1>3. c \notin strayed' => (Knows(c))'
  <2>1. CASE o.status = obj[c].status
    BY <1>1, <2>1, EndingIs DEF TableInv, StackKnows, Knows
  <2>2. CASE o.status = "DISCONNECTING" /\ LinksOf(c) # {}
    BY <1>1, <2>2, EndingIs DEF TableInv, StackKnows, Knows
  <2> QED
    BY <2>1, <2>2, EndingIs
<1>4. obj'[c].handle # NoConn => obj'[c].handle \in (LinksOf(c))'
  BY <1>1, EndingIs DEF TableInv, HandlesAreOwn
<1> QED
  BY <1>1, <1>2, <1>3, <1>4, EndingIs, StepKeeps

LEMMA DisconnectClientKeeps ==
  ASSUME TableInv, NEW c \in Clients, DisconnectClient(c)
  PROVE  TableInv'
<1> DEFINE o == [obj[c] EXCEPT !.status = StatusAfterDisconnect(c)]
<1>1. obj[c] \in ClientObject
  BY DEF TableInv, TypesOK
<1>2. StatusAfterDisconnect(c) \in {"DISCONNECTED", "CONNECTING", "CONNECTED", "DISCONNECTING"}
  BY <1>1 DEF ClientObject, StatusAfterDisconnect
<1>3. o \in ClientObject /\ o.state = obj[c].state /\ o.handle = obj[c].handle
      /\ o.status = StatusAfterDisconnect(c)
  BY <1>1, <1>2 DEF ClientObject
<1>4. Lives(c) /\ obj' = [obj EXCEPT ![c] = o] /\ Ending(c) /\ UNCHANGED <<table, strayed>>
  BY DEF DisconnectClient
<1> HIDE DEF o
<1> QED
  BY <1>3, <1>4, EndsKeeps DEF Lives

LEMMA DeleteTheClientKeeps ==
  ASSUME TableInv, NEW c \in Clients, DeleteTheClient(c)
  PROVE  TableInv'
<1>1. obj[c] \in ClientObject /\ obj \in [Clients -> ClientObject] /\ Lives(c)
      /\ obj[c].status \in {"DISCONNECTED", "CONNECTING", "CONNECTED", "DISCONNECTING"}
  BY DEF TableInv, TypesOK, DeleteTheClient, ClientObject
<1>2. CASE obj[c].status \in {"CONNECTED", "DISCONNECTING"}
  <2> DEFINE o == [obj[c] EXCEPT !.onLoss = TRUE, !.status = StatusAfterDisconnect(c)]
  <2>1. StatusAfterDisconnect(c) \in {"DISCONNECTED", "CONNECTING", "CONNECTED", "DISCONNECTING"}
    BY <1>1 DEF ClientObject, StatusAfterDisconnect
  <2>2. o \in ClientObject /\ o.state = obj[c].state /\ o.handle = obj[c].handle
        /\ o.status = StatusAfterDisconnect(c)
    BY <1>1, <2>1 DEF ClientObject
  <2>3. Ending(c) /\ Becomes(c, o, FALSE) /\ UNCHANGED strayed
    BY <1>2 DEF DeleteTheClient
  <2> HIDE DEF o
  <2>4. obj' = [obj EXCEPT ![c] = o] /\ table' = table
    BY <2>3 DEF Becomes
  <2> QED
    BY <1>1, <2>2, <2>3, <2>4, EndsKeeps DEF Lives
<1>3. CASE obj[c].status = "CONNECTING"
  <2> DEFINE o == [obj[c] EXCEPT !.onFail = TRUE]
  <2>1. o \in ClientObject /\ o.state = obj[c].state /\ o.handle = obj[c].handle
        /\ o.status = obj[c].status
    BY <1>1 DEF ClientObject
  <2>2. Becomes(c, o, FALSE) /\ UNCHANGED <<gap, strayed>>
    BY <1>3 DEF DeleteTheClient
  <2> HIDE DEF o
  <2>3. /\ obj' \in [Clients -> ClientObject] /\ obj'[c] = o
        /\ table' \in [Places -> Clients \cup {NoClient}]
        /\ \A d \in Clients \ {c} : obj'[d] = obj[d]
        /\ Placed' /\ DeadIsBare'
    BY <1>1, <2>1, <2>2, BecomesIs DEF Lives
  <2>4. TypesOK'
    BY <2>2, <2>3 DEF TableInv, TypesOK
  <2>5. \A d \in Clients : (LinksOf(d))' = LinksOf(d) /\ ((HasAttempt(d))' <=> HasAttempt(d))
    BY <2>2 DEF LinksOf, HasAttempt
  <2>6. /\ obj'[c].handle # NoConn => obj'[c].handle \in (LinksOf(c))'
        /\ c \notin strayed' => (Knows(c))'
    BY <2>1, <2>2, <2>3, <2>5 DEF TableInv, HandlesAreOwn, StackKnows, Knows
  <2> QED
    BY <2>2, <2>3, <2>4, <2>5, <2>6, StepKeeps
<1>4. CASE obj[c].status = "DISCONNECTED"
  <2>1. Becomes(c, obj[c], TRUE) /\ Strays(c) /\ UNCHANGED gap
    BY <1>4 DEF DeleteTheClient
  <2> QED
    BY <1>1, <1>4, <2>1, DisconnectedKeeps DEF Lives
<1> QED
  BY <1>1, <1>2, <1>3, <1>4

-----------------------------------------------------------------------------
(* The events.                                                             *)

LEMMA ConnectEventKeeps ==
  ASSUME TableInv, NEW h \in Conns, ConnectEvent(h)
  PROVE  TableInv'
<1>9. PICK c : c = gap.attempt.arg
  OBVIOUS
<1> DEFINE wanted == obj[c].status = "CONNECTING"
           l == [state |-> IF wanted THEN "open" ELSE "ending", arg |-> c,
                 addr |-> gap.attempt.addr, unwanted |-> ~wanted]
           o == [obj[c] EXCEPT !.status = "CONNECTED", !.handle = h]
<1>1. /\ gap \in [attempt : GapAttempt, links : [Conns -> GapLink]]
      /\ obj \in [Clients -> ClientObject] /\ h # NoConn
  BY TableAssumption DEF TableInv, TypesOK, TableAssumption
<1>2. /\ c \in Clients /\ Lives(c) /\ gap.links[h].state = "free"
      /\ gap' = [attempt |-> NoAttempt, links |-> [gap.links EXCEPT ![h] = l]]
      /\ UNCHANGED <<table, strayed>>
  BY <1>1, <1>9 DEF ConnectEvent, GapAttempt
<1>3. IF wanted THEN obj' = [obj EXCEPT ![c] = o] ELSE obj' = obj
  BY <1>1, <1>2, <1>9 DEF ConnectEvent
<1>4. l \in GapLink /\ gap.attempt.addr \in Addresses
  <2>1. gap.attempt.addr \in Addresses
    BY <1>1 DEF GapAttempt
  <2> QED
    BY <1>2, <2>1 DEF GapLink, LinkState
<1>5. gap' \in [attempt : GapAttempt, links : [Conns -> GapLink]]
  BY <1>1, <1>2, <1>4, StackIs
<1>6. \A d \in Clients : ~(HasAttempt(d))'
  BY <1>2, StackIs DEF HasAttempt
<1>7. \A d \in Clients : h \notin LinksOf(d)
  BY <1>2 DEF LinksOf
<1>8. gap'.links[h] = l /\ \A k \in Conns \ {h} : gap'.links[k] = gap.links[k]
  BY <1>1, <1>2
<1>10. l.arg = c /\ (l.state # "free") /\ (l.unwanted <=> ~wanted)
  OBVIOUS
<1> HIDE DEF l
<1>11. \A d \in Clients \ {c} : (LinksOf(d))' = LinksOf(d)
  BY <1>2, <1>7, <1>8, <1>10 DEF LinksOf
<1>12. (LinksOf(c))' = IF wanted THEN LinksOf(c) \cup {h} ELSE LinksOf(c)
  BY <1>2, <1>7, <1>8, <1>10 DEF LinksOf
<1>13. obj[c] \in ClientObject
  BY <1>1, <1>2
<1>14. CASE wanted
  <2>1. /\ o \in ClientObject /\ o.state = obj[c].state /\ o.status = "CONNECTED" /\ o.handle = h
    BY <1>13 DEF ClientObject
  <2>2. obj' = [obj EXCEPT ![c] = o]
    BY <1>3, <1>14
  <2> HIDE DEF o
  <2>3. /\ obj' \in [Clients -> ClientObject] /\ obj'[c] = o
        /\ table' \in [Places -> Clients \cup {NoClient}]
        /\ \A d \in Clients \ {c} : obj'[d] = obj[d]
        /\ Placed' /\ DeadIsBare'
    BY <1>2, <2>1, <2>2, ChangesIs DEF Lives
  <2>4. TypesOK'
    BY <1>2, <1>5, <2>3 DEF TableInv, TypesOK
  <2>5. c \notin strayed' => (Knows(c))'
    <3>1. c \notin strayed' => LinksOf(c) = {}
      BY <1>2, <1>9, <1>14 DEF TableInv, StackKnows, Knows, HasAttempt
    <3> QED
      BY <1>6, <1>2, <1>12, <1>14, <2>1, <2>3, <3>1 DEF Knows
  <2>6. obj'[c].handle \in (LinksOf(c))'
    BY <1>12, <1>14, <2>1, <2>3
  <2> QED
    BY <1>2, <1>6, <1>11, <2>3, <2>4, <2>5, <2>6, StepKeeps
<1>15. CASE ~wanted
  <2>1. obj' = obj
    BY <1>3, <1>15
  <2>2. TypesOK'
    BY <1>2, <1>5, <2>1 DEF TableInv, TypesOK
  <2>3. Placed' /\ DeadIsBare'
    BY <1>2, <2>1 DEF TableInv, Placed, DeadIsBare, Lives
  <2>4. (LinksOf(c))' = LinksOf(c)
    BY <1>12, <1>15
  <2>5. /\ obj'[c].handle # NoConn => obj'[c].handle \in (LinksOf(c))'
        /\ c \notin strayed' => (Knows(c))'
    BY <1>2, <1>6, <2>1, <2>4, StaysKnown
  <2> QED
    BY <1>2, <1>6, <1>11, <2>1, <2>2, <2>3, <2>5, StepKeeps
<1> QED
  BY <1>14, <1>15

LEMMA ConnectFailEventKeeps ==
  ASSUME TableInv, ConnectFailEvent
  PROVE  TableInv'
<1>6. PICK c : c = gap.attempt.arg
  OBVIOUS
<1> DEFINE o == [obj[c] EXCEPT !.status = "DISCONNECTED", !.handle = NoConn]
<1>1. /\ gap \in [attempt : GapAttempt, links : [Conns -> GapLink]]
      /\ obj \in [Clients -> ClientObject]
  BY DEF TableInv, TypesOK
<1>2. /\ c \in Clients /\ Lives(c) /\ gap' = [gap EXCEPT !.attempt = NoAttempt]
      /\ UNCHANGED strayed
  BY <1>1, <1>6 DEF ConnectFailEvent, GapAttempt
<1>3. IF obj[c].status = "CONNECTING" THEN Becomes(c, o, obj[c].onFail) ELSE UNCHANGED <<obj, table>>
  BY <1>6 DEF ConnectFailEvent
<1>4. /\ gap' \in [attempt : GapAttempt, links : [Conns -> GapLink]]
      /\ gap'.attempt = NoAttempt /\ gap'.links = gap.links
  BY <1>1, <1>2, StackIs
<1>5. \A d \in Clients : (LinksOf(d))' = LinksOf(d) /\ ~(HasAttempt(d))'
  BY <1>4, StackIs DEF LinksOf, HasAttempt
<1>7. obj[c] \in ClientObject /\ obj[c].onFail \in BOOLEAN
  BY <1>1, <1>2 DEF ClientObject
<1>8. CASE obj[c].status = "CONNECTING"
  <2>1. o \in ClientObject /\ o.state = obj[c].state /\ o.status = "DISCONNECTED" /\ o.handle = NoConn
    BY <1>7 DEF ClientObject
  <2>2. Becomes(c, o, obj[c].onFail)
    BY <1>3, <1>8
  <2> HIDE DEF o
  <2>3. /\ obj' \in [Clients -> ClientObject]
        /\ table' \in [Places -> Clients \cup {NoClient}]
        /\ obj'[c] = IF obj[c].onFail THEN DeletedClient ELSE o
        /\ \A d \in Clients \ {c} : obj'[d] = obj[d]
        /\ Placed' /\ DeadIsBare'
    BY <1>2, <1>7, <2>1, <2>2, BecomesIs DEF Lives
  <2>4. TypesOK'
    BY <1>2, <1>4, <2>3 DEF TableInv, TypesOK
  <2>5. obj'[c].handle = NoConn /\ obj'[c].status = "DISCONNECTED"
    BY <2>1, <2>3, DeletedIs
  <2>6. c \notin strayed => LinksOf(c) = {}
    BY <1>2, <1>6, <1>8 DEF TableInv, StackKnows, Knows, HasAttempt
  <2>7. c \notin strayed' => (Knows(c))'
    BY <1>2, <1>5, <2>5, <2>6 DEF Knows
  <2> QED
    BY <1>2, <1>5, <2>3, <2>4, <2>5, <2>7, StepKeeps
<1>9. CASE obj[c].status # "CONNECTING"
  <2>1. UNCHANGED <<obj, table>>
    BY <1>3, <1>9
  <2>2. TypesOK' /\ Placed' /\ DeadIsBare'
    BY <1>2, <1>4, <2>1 DEF TableInv, TypesOK, Placed, DeadIsBare, Lives
  <2>3. /\ obj'[c].handle # NoConn => obj'[c].handle \in (LinksOf(c))'
        /\ c \notin strayed' => (Knows(c))'
    BY <1>2, <1>5, <2>1, StaysKnown
  <2> QED
    BY <1>2, <1>5, <2>1, <2>2, <2>3, StepKeeps
<1> QED
  BY <1>8, <1>9

LEMMA ConnectionLostKeeps ==
  ASSUME TableInv, NEW h \in Conns, ConnectionLost(h)
  PROVE  TableInv'
<1> DEFINE l == [gap.links[h] EXCEPT !.state = "lost"]
<1>1. gap \in [attempt : GapAttempt, links : [Conns -> GapLink]] /\ gap.links[h] \in GapLink
      /\ gap.links[h].state # "free" /\ UNCHANGED <<obj, table, strayed>>
  BY DEF TableInv, TypesOK, ConnectionLost
<1>2. l \in GapLink /\ l.state = "lost" /\ l.arg = gap.links[h].arg
      /\ l.unwanted = gap.links[h].unwanted
  BY <1>1 DEF GapLink, LinkState
<1>3. gap' = [gap EXCEPT !.links = [gap.links EXCEPT ![h] = l]]
  BY <1>1 DEF ConnectionLost
<1> HIDE DEF l
<1>4. /\ gap' \in [attempt : GapAttempt, links : [Conns -> GapLink]]
      /\ gap'.attempt = gap.attempt /\ gap'.links[h] = l
      /\ \A k \in Conns \ {h} : gap'.links[k] = gap.links[k]
  BY <1>1, <1>2, <1>3
<1>5. \A d \in Clients : (LinksOf(d))' = LinksOf(d) /\ ((HasAttempt(d))' <=> HasAttempt(d))
  BY <1>1, <1>2, <1>4 DEF LinksOf, HasAttempt
<1>6. TypesOK' /\ Placed' /\ DeadIsBare'
  BY <1>1, <1>4 DEF TableInv, TypesOK, Placed, DeadIsBare, Lives
<1>7. ASSUME NEW d \in Clients
      PROVE  /\ obj'[d].handle # NoConn => obj'[d].handle \in (LinksOf(d))'
             /\ d \notin strayed' => (Knows(d))'
  BY <1>1, <1>5, StaysKnown
<1> QED
  BY <1>6, <1>7 DEF TableInv, HandlesAreOwn, StackKnows

\* The link of an event that ends it: the client that is not found has none of
\* its links, or has strayed.
LEMMA FreedIs ==
  ASSUME TableInv, NEW h \in Conns, NEW a, gap'.links = [gap.links EXCEPT ![h] = FreeLink]
  PROVE  /\ \A d \in Clients : (LinksOf(d))' = LinksOf(d) \ {h}
         /\ \A d \in Clients : d # FindClient(h, a) =>
              obj[d].handle # h /\ (d \notin strayed => h \notin LinksOf(d))
<1>1. gap.links \in [Conns -> GapLink] /\ FreeLink.state = "free"
  BY StackIs DEF FreeLink
<1>2. gap'.links[h].state = "free" /\ \A k \in Conns \ {h} : gap'.links[k] = gap.links[k]
  BY <1>1
<1>3. \A d \in Clients : (LinksOf(d))' = LinksOf(d) \ {h}
  BY <1>2 DEF LinksOf
<1>4. ASSUME NEW d \in Clients, obj[d].handle = h PROVE d = FindClient(h, a)
  <2>1. ClientByHandle(h) = d /\ d # NoClient
    BY <1>4, HandleIsFound, TableAssumption DEF TableAssumption
  <2> QED
    BY <2>1 DEF FindClient
<1>5. ASSUME NEW d \in Clients, d \notin strayed, h \in LinksOf(d) PROVE obj[d].handle = h
  BY <1>5 DEF TableInv, StackKnows, Knows
<1> QED
  BY <1>3, <1>4, <1>5

\* The clients that such an event does not find.
LEMMA NotFoundKeeps ==
  ASSUME TableInv, NEW h \in Conns, NEW a, gap'.links = [gap.links EXCEPT ![h] = FreeLink],
         NEW d \in Clients, d # FindClient(h, a), obj'[d] = obj[d],
         (HasAttempt(d))' => HasAttempt(d), d \notin strayed' => d \notin strayed
  PROVE  /\ obj'[d].handle # NoConn => obj'[d].handle \in (LinksOf(d))'
         /\ d \notin strayed' => (Knows(d))'
<1>1. (LinksOf(d))' = LinksOf(d) \ {h} /\ obj[d].handle # h
  BY FreedIs
<1>2. obj'[d].handle # NoConn => obj'[d].handle \in (LinksOf(d))'
  BY <1>1 DEF TableInv, HandlesAreOwn
<1>3. ASSUME d \notin strayed' PROVE (Knows(d))'
  <2>1. h \notin LinksOf(d)
    BY <1>3, FreedIs
  <2>2. (LinksOf(d))' = LinksOf(d)
    BY <1>1, <2>1
  <2> QED
    BY <1>3, <2>2, StaysKnown
<1> QED
  BY <1>2, <1>3

LEMMA DisconnectEventKeeps ==
  ASSUME TableInv, NEW h \in Conns, NEW unmade \in BOOLEAN, DisconnectEvent(h, unmade)
  PROVE  TableInv'
<1>1. PICK a : a = gap.links[h].addr
  OBVIOUS
<1>2. PICK c : c = FindClient(h, a)
  OBVIOUS
<1>3. /\ gap \in [attempt : GapAttempt, links : [Conns -> GapLink]]
      /\ gap' = [gap EXCEPT !.links[h] = FreeLink]
  BY DEF TableInv, TypesOK, DisconnectEvent
<1>4. /\ gap' \in [attempt : GapAttempt, links : [Conns -> GapLink]]
      /\ gap'.links = [gap.links EXCEPT ![h] = FreeLink] /\ gap'.attempt = gap.attempt
  BY <1>3, StackIs
<1>5. \A d \in Clients : (HasAttempt(d))' <=> HasAttempt(d)
  BY <1>4 DEF HasAttempt
<1>6. CASE c = NoClient
  <2>1. UNCHANGED <<obj, table, strayed>>
    BY <1>1, <1>2, <1>6 DEF DisconnectEvent
  <2>2. TypesOK' /\ Placed' /\ DeadIsBare'
    BY <1>4, <2>1 DEF TableInv, TypesOK, Placed, DeadIsBare, Lives
  <2>3. ASSUME NEW d \in Clients
        PROVE  /\ obj'[d].handle # NoConn => obj'[d].handle \in (LinksOf(d))'
               /\ d \notin strayed' => (Knows(d))'
    <3>1. d # FindClient(h, a)
      BY <1>2, <1>6, TableAssumption DEF TableAssumption
    <3> QED
      BY <1>4, <1>5, <2>1, <3>1, NotFoundKeeps
  <2> QED
    BY <2>2, <2>3 DEF TableInv, HandlesAreOwn, StackKnows
<1>7. CASE c # NoClient
  <2> DEFINE o == AfterLoss(c)
             delete == obj[c].onLoss \/ (unmade /\ obj[c].onFail)
  <2>1. c \in Clients /\ Lives(c)
    BY <1>2, <1>7, FoundLives
  <2>2. obj[c] \in ClientObject
    BY <2>1 DEF TableInv, TypesOK
  <2>3. delete \in BOOLEAN
    BY <2>2 DEF ClientObject
  <2>4. o \in ClientObject /\ o.state = obj[c].state /\ o.status = "DISCONNECTED" /\ o.handle = NoConn
    BY <2>2 DEF ClientObject, AfterLoss
  <2>5. /\ Becomes(c, o, delete)
        /\ strayed' = IF HasAttempt(c) \/ LinksOf(c) \ {h} # {} THEN strayed \cup {c} ELSE strayed
    BY <1>1, <1>2, <1>7 DEF DisconnectEvent
  <2> HIDE DEF o, delete
  <2>6. /\ obj' \in [Clients -> ClientObject]
        /\ table' \in [Places -> Clients \cup {NoClient}]
        /\ obj'[c] = IF delete THEN DeletedClient ELSE o
        /\ \A d \in Clients \ {c} : obj'[d] = obj[d]
        /\ Placed' /\ DeadIsBare'
    BY <2>1, <2>3, <2>4, <2>5, BecomesIs DEF Lives
  <2>7. strayed' \in SUBSET Clients /\ \A d \in Clients : d \notin strayed' => d \notin strayed
    BY <2>1, <2>5 DEF TableInv, TypesOK
  <2>8. TypesOK'
    BY <1>4, <2>6, <2>7 DEF TypesOK
  <2>9. obj'[c].handle = NoConn /\ obj'[c].status = "DISCONNECTED"
    BY <2>4, <2>6, DeletedIs
  <2>10. c \notin strayed' => (Knows(c))'
    <3>1. (LinksOf(c))' = LinksOf(c) \ {h}
      BY <1>4, <2>1, FreedIs
    <3>2. c \notin strayed' => ~HasAttempt(c) /\ LinksOf(c) \ {h} = {}
      BY <2>5
    <3> QED
      BY <1>5, <2>1, <2>9, <3>1, <3>2 DEF Knows
  <2>11. ASSUME NEW d \in Clients \ {c}
         PROVE  /\ obj'[d].handle # NoConn => obj'[d].handle \in (LinksOf(d))'
                /\ d \notin strayed' => (Knows(d))'
    BY <1>2, <1>4, <1>5, <2>6, <2>7, NotFoundKeeps
  <2> QED
    BY <2>6, <2>8, <2>9, <2>10, <2>11 DEF TableInv, HandlesAreOwn, StackKnows
<1> QED
  BY <1>6, <1>7

LEMMA RetryEventKeeps ==
  ASSUME TableInv, NEW h \in Conns, RetryEvent(h)
  PROVE  TableInv'
<1>1. PICK a : a = gap.links[h].addr
  OBVIOUS
<1>2. PICK c : c = FindClient(h, a)
  OBVIOUS
<1> DEFINE o == [obj[c] EXCEPT !.status = "CONNECTING", !.handle = NoConn]
<1>3. /\ c \in Clients /\ Lives(c) /\ gap.attempt = NoAttempt
      /\ gap' = [attempt |-> [arg |-> c, addr |-> obj[c].addr],
                 links |-> [gap.links EXCEPT ![h] = FreeLink]]
      /\ strayed' = IF LinksOf(c) \ {h} # {} THEN strayed \cup {c} ELSE strayed
      /\ table' = table
      /\ obj' = [obj EXCEPT ![c].status = "CONNECTING", ![c].handle = NoConn]
  BY <1>1, <1>2, FoundLives DEF RetryEvent, MayConnect
<1>4. obj[c] \in ClientObject /\ obj \in [Clients -> ClientObject]
      /\ gap \in [attempt : GapAttempt, links : [Conns -> GapLink]]
  BY <1>3 DEF TableInv, TypesOK
<1>5. o \in ClientObject /\ o.state = obj[c].state /\ o.status = "CONNECTING" /\ o.handle = NoConn
  BY <1>4 DEF ClientObject
<1>6. obj' = [obj EXCEPT ![c] = o]
  BY <1>3, <1>4
<1> HIDE DEF o
<1>7. /\ obj' \in [Clients -> ClientObject] /\ obj'[c] = o
      /\ table' \in [Places -> Clients \cup {NoClient}]
      /\ \A d \in Clients \ {c} : obj'[d] = obj[d]
      /\ Placed' /\ DeadIsBare'
  BY <1>3, <1>5, <1>6, ChangesIs DEF Lives
<1>8. /\ gap' \in [attempt : GapAttempt, links : [Conns -> GapLink]]
      /\ gap'.links = [gap.links EXCEPT ![h] = FreeLink] /\ gap'.attempt.arg = c
  BY <1>3, <1>4, StackIs DEF GapAttempt, ClientObject
<1>9. strayed' \in SUBSET Clients /\ \A d \in Clients : d \notin strayed' => d \notin strayed
  BY <1>3 DEF TableInv, TypesOK
<1>10. TypesOK'
  BY <1>7, <1>8, <1>9 DEF TypesOK
<1>11. \A d \in Clients : (HasAttempt(d))' <=> d = c
  BY <1>8 DEF HasAttempt
<1>12. c \notin strayed' => (Knows(c))'
  <2>1. (LinksOf(c))' = LinksOf(c) \ {h}
    BY <1>3, <1>8, FreedIs
  <2>2. c \notin strayed' => LinksOf(c) \ {h} = {}
    BY <1>3
  <2> QED
    BY <1>3, <1>5, <1>7, <2>1, <2>2 DEF Knows
<1>13. obj'[c].handle = NoConn
  BY <1>5, <1>7
<1>14. ASSUME NEW d \in Clients \ {c}
       PROVE  /\ obj'[d].handle # NoConn => obj'[d].handle \in (LinksOf(d))'
              /\ d \notin strayed' => (Knows(d))'
  BY <1>2, <1>7, <1>8, <1>9, <1>11, NotFoundKeeps
<1> QED
  BY <1>7, <1>10, <1>12, <1>13, <1>14 DEF TableInv, HandlesAreOwn, StackKnows

-----------------------------------------------------------------------------
LEMMA InitTableInv == TableInit => TableInv
<1> SUFFICES ASSUME TableInit PROVE TableInv
  OBVIOUS
<1>1. \A c \in Clients : /\ obj[c] \in ClientObject /\ ~Lives(c)
                         /\ obj[c].status = "DISCONNECTED" /\ obj[c].handle = NoConn
  BY SomeAddressIs, NewIs DEF TableInit, ClientObject, Lives
<1>2. /\ table = [i \in Places |-> NoClient] /\ strayed = {}
      /\ gap = [attempt |-> NoAttempt, links |-> [h \in Conns |-> FreeLink]]
      /\ obj = [c \in Clients |-> [NewClient(SomeAddress) EXCEPT !.state = "none"]]
  BY DEF TableInit, Places
<1>3. NoAttempt \in GapAttempt /\ FreeLink \in GapLink /\ FreeLink.state = "free" /\ NoAttempt.arg = NoClient
  BY SomeAddressIs DEF NoAttempt, FreeLink, GapAttempt, GapLink, LinkState
<1>4. TypesOK
  BY <1>1, <1>2, <1>3 DEF TypesOK
<1>5. \A c \in Clients : LinksOf(c) = {} /\ ~HasAttempt(c)
  BY <1>2, <1>3, TableAssumption DEF TableAssumption, LinksOf, HasAttempt
<1>6. Placed
  BY <1>1, <1>2 DEF Placed
<1> QED
  BY <1>1, <1>4, <1>5, <1>6 DEF TableInv, DeadIsBare, HandlesAreOwn, StackKnows, Knows

LEMMA NextTableInv == TableInv /\ [TableNext]_tableVars => TableInv'
<1> SUFFICES ASSUME TableInv, [TableNext]_tableVars PROVE TableInv'
  OBVIOUS
<1>1. CASE UNCHANGED tableVars
  BY <1>1 DEF tableVars, TableInv, TypesOK, Placed, DeadIsBare, HandlesAreOwn, StackKnows, Knows,
              Lives, LinksOf, HasAttempt
<1>2. CASE \E c \in Clients, a \in Addresses :
             CreateClient(c, a) \/ SetPeerAddress(c, a) \/ Attempt(c, a) \/ ConnectIsRefused(c, a)
  BY <1>2, CreateClientKeeps, SetPeerAddressKeeps, AttemptKeeps, ConnectIsRefusedKeeps
<1>3. CASE \E c \in Clients : ConnectTimesOut(c) \/ DisconnectClient(c) \/ DeleteTheClient(c)
  BY <1>3, ConnectTimesOutKeeps, DisconnectClientKeeps, DeleteTheClientKeeps
<1>4. CASE \E h \in Conns : ConnectEvent(h) \/ ConnectionLost(h) \/ RetryEvent(h)
  BY <1>4, ConnectEventKeeps, ConnectionLostKeeps, RetryEventKeeps
<1> QED
  BY <1>1, <1>2, <1>3, <1>4, SetSelfDeleteKeeps, DisconnectEventKeeps, ConnectFailEventKeeps
     DEF TableNext

\* The table holds as many clients as there are.
LEMMA CountIs ==
  ASSUME TableInv
  PROVE  CreatedClientCount = Cardinality({c \in Clients : Lives(c)})
<1> DEFINE taken == {i \in 1..TableSize : table[i] # NoClient}
           living == {c \in Clients : Lives(c)}
           f == [i \in taken |-> table[i]]
<1>1. IsFiniteSet(taken)
  <2>1. IsFiniteSet(1..TableSize)
    BY FS_Interval, TableAssumption DEF TableAssumption
  <2> QED
    BY <2>1, FS_Subset
<1>2. \A i \in taken : table[i] \in living
  BY DEF TableInv, TypesOK, Placed, Places
<1>3. \A i, j \in taken : table[i] = table[j] => i = j
  BY DEF TableInv, Placed, Places
<1>4. \A c \in living : \E i \in taken : table[i] = c
  BY TableAssumption DEF TableInv, Placed, Places, TableAssumption
<1> HIDE DEF taken, living
<1>5. f \in Bijection(taken, living)
  <2>1. f \in [taken -> living]
    BY <1>2
  <2>2. \A i \in taken : f[i] = table[i]
    OBVIOUS
  <2> HIDE DEF f
  <2> QED
    BY <1>3, <1>4, <2>1, <2>2 DEF Bijection, Injection, Surjection, IsInjective
<1>6. Cardinality(living) = Cardinality(taken)
  BY <1>1, <1>5, FS_Bijection DEF ExistsBijection
<1> QED
  BY <1>6 DEF CreatedClientCount, taken, living

LEMMA InvImpliesFound == TableInv => ClientsAreFound
<1> SUFFICES ASSUME TableInv PROVE ClientsAreFound
  OBVIOUS
<1>1. TableTypeOK
  BY DEF TableInv, TypesOK, TableTypeOK, Places
<1>2. \A c \in Clients : Lives(c) => \E i \in 1..TableSize : table[i] = c
  BY DEF TableInv, Placed, Places
<1>3. ASSUME NEW c \in Clients \ strayed
      PROVE  /\ HasAttempt(c) => Lives(c) /\ obj[c].status = "CONNECTING"
             /\ \A h \in LinksOf(c) : Lives(c) /\ ClientByHandle(h) = c
             /\ c \in ConnectedClients => LinksOf(c) # {}
             /\ c = DisconnectedClient => ~HasAttempt(c) /\ LinksOf(c) = {}
  <2>1. Knows(c)
    BY DEF TableInv, StackKnows
  <2>2. HasAttempt(c) => Lives(c) /\ obj[c].status = "CONNECTING"
    BY <2>1 DEF Knows, TableInv, DeadIsBare
  <2>3. \A h \in LinksOf(c) : Lives(c) /\ ClientByHandle(h) = c
    BY <2>1, HandleIsFound, StackIs DEF Knows
  <2>4. c \in ConnectedClients => LinksOf(c) # {}
    BY <2>1 DEF Knows, ConnectedClients
  <2>5. c = DisconnectedClient => ~HasAttempt(c) /\ LinksOf(c) = {}
    <3>1. c = DisconnectedClient => obj[c].status = "DISCONNECTED"
      BY FirstInIs, TableAssumption DEF DisconnectedClient, TableAssumption
    <3> QED
      BY <2>1, <3>1 DEF Knows
  <2> QED
    BY <2>2, <2>3, <2>4, <2>5
<1> QED
  BY <1>1, <1>2, <1>3, CountIs DEF ClientsAreFound

\* m_pClients holds the clients that there are, each once; the events of a link or
\* attempt find the client that it belongs to, by the handle, and createClient()'s
\* alternative getDisconnectedClient() offers none that has one: for any number of
\* clients, addresses, handles and places, with the exceptions of strayed.
THEOREM TheClientsAreFound == TableSpec => []ClientsAreFound
BY InitTableInv, NextTableInv, InvImpliesFound, PTL DEF TableSpec
=============================================================================
