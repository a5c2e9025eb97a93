-------------------------- MODULE NimBLEAdvertising --------------------------
(***************************************************************************)
(* NimBLEAdvertising, of the builds without extended advertising: one      *)
(* advertisement, whose data are handed to the stack when it starts and    *)
(* they have changed, and which is started again after a reset of the host *)
(* if it was to last for ever.                                             *)
(***************************************************************************)
EXTENDS NimBLEDevice

CONSTANTS
  Versions,   \* the contents that the advertising data may have
  Default,    \* those of a new object: the flags
  Responses,  \* the contents that the scan response data may have
  None        \* no data

ASSUME VersionsAssumption ==
  Default \in Versions /\ None \notin Versions \cup Responses

VARIABLES
  m_advData, m_scanData, m_advDataSet, m_duration, m_scanResp,
  stackAdv,  \* the stack's advertisement; old (history): the object's data were
             \* changed by setDiscoverableMode() or setConnectableMode() since the
             \* stack got them
  misled,    \* history: m_advDataSet was set, or trusted, in a window of those below
  owed       \* history: a reset ended endless advertising

advVars == <<m_advData, m_scanData, m_advDataSet, m_duration, m_scanResp>>
legacyVars == <<advVars, stackAdv, misled, owed>>

\* Durations: for ever, some time, and what a new object has.
Endless == "0"
Finite == "ms"
Forever == "BLE_HS_FOREVER"

NoAdv == [active |-> FALSE, endless |-> FALSE, adv |-> None, rsp |-> None, old |-> FALSE]

LegacyInit ==
  /\ m_advData = Default /\ m_scanData = None
  /\ m_advDataSet = FALSE /\ m_duration = Forever /\ m_scanResp = FALSE
  /\ stackAdv = NoAdv /\ misled = FALSE /\ owed = FALSE

\* The object as it is constructed.
Fresh ==
  /\ m_advData' = Default /\ m_scanData' = None
  /\ m_advDataSet' = FALSE /\ m_duration' = Forever /\ m_scanResp' = FALSE

-----------------------------------------------------------------------------
(* start(duration), by either thread.                                      *)

Starting(t, d) == [at |-> "start", duration |-> d]

\* The checks; a server that does not start is a refusal.
StartCheck(t) ==
  /\ At(t) = "start"
  /\ \/ m_synced /\ ~stackAdv.active /\ Goes(t, [call[t] EXCEPT !.at = "data"]) /\ UNCHANGED owed
     \/ Returns(t) /\ owed' = FALSE
  /\ UNCHANGED <<deviceVars, resets, advVars, stackAdv, misled>>

\* A thread relies on the stack having the data: it gave them and has not yet
\* set m_advDataSet, or found it set.
Marking(t) == At(t) \in {"mark", "custom mark", "refresh mark"}
Relying(t) == Marking(t) \/ At(t) \in {"rsp", "duration", "go"}

\* What the threads of ts rely on is void, and what was started so is not mended.
Void(ts) == (\E t \in ts : Relying(t)) \/ (misled /\ stackAdv.active)

\* The time from a reset until onHostSync() clears m_advDataSet.
Unaware == At("host") \in {"synced", "onHostSync"}

\* ble_gap_adv_set_data(): two threads that meet here leave the data of one in
\* the stack and those of the other in the object.
GiveData(t, data, next) ==
  /\ stackSynced
  /\ misled' = (misled \/ \E u \in Threads \ {t} : Marking(u))
  /\ stackAdv' = [stackAdv EXCEPT !.adv = data, !.old = FALSE]
  /\ Goes(t, next)

StartData(t) ==
  /\ At(t) = "data"
  /\ IF m_advDataSet
     THEN /\ Goes(t, [call[t] EXCEPT !.at = "duration"])
          /\ misled' = (misled \/ Unaware \/ ~m_synced)
          /\ UNCHANGED <<stackAdv, owed>>
     ELSE \/ GiveData(t, m_advData, [call[t] EXCEPT !.at = "mark"]) /\ UNCHANGED owed
          \/ Returns(t) /\ owed' = FALSE /\ UNCHANGED <<stackAdv, misled>>
  /\ UNCHANGED <<deviceVars, resets, advVars>>

StartMark(t) ==
  /\ At(t) = "mark"
  /\ m_advDataSet' = TRUE
  /\ Goes(t, [call[t] EXCEPT !.at = "rsp"])
  /\ UNCHANGED <<deviceVars, resets, m_advData, m_scanData, m_duration, m_scanResp, stackAdv, misled, owed>>

\* If the stack refuses the scan response m_advDataSet stays set.
StartResponse(t) ==
  /\ At(t) = "rsp"
  /\ IF m_scanResp /\ m_scanData # None
     THEN \/ /\ stackSynced
             /\ stackAdv' = [stackAdv EXCEPT !.rsp = m_scanData]
             /\ Goes(t, [call[t] EXCEPT !.at = "duration"])
             /\ UNCHANGED owed
          \/ Returns(t) /\ owed' = FALSE /\ UNCHANGED stackAdv
     ELSE Goes(t, [call[t] EXCEPT !.at = "duration"]) /\ UNCHANGED <<stackAdv, owed>>
  /\ UNCHANGED <<deviceVars, resets, advVars, misled>>

\* A start by the application takes the place of the restart.
StartDuration(t) ==
  /\ At(t) = "duration"
  /\ m_duration' = call[t].duration
  /\ owed' = (owed /\ t = "host")
  /\ Goes(t, [call[t] EXCEPT !.at = "go"])
  /\ UNCHANGED <<deviceVars, resets, m_advData, m_scanData, m_advDataSet, m_scanResp, stackAdv, misled>>

StartGo(t) ==
  /\ At(t) = "go"
  /\ Returns(t)
  /\ owed' = FALSE
  /\ \/ /\ stackSynced /\ ~stackAdv.active
        /\ stackAdv' = [stackAdv EXCEPT !.active = TRUE, !.endless = call[t].duration = Endless]
     \/ UNCHANGED stackAdv
  /\ UNCHANGED <<deviceVars, resets, advVars, misled>>

-----------------------------------------------------------------------------
(* The application's calls.                                                *)

CallStart ==
  /\ At("app") = "idle" /\ m_initialized
  /\ \E d \in {Endless, Finite} : Goes("app", Starting("app", d))
  /\ UNCHANGED <<deviceVars, resets, legacyVars>>

\* stop(): m_duration stays as it is.
CallStop ==
  /\ At("app") = "idle"
  /\ stackSynced
  /\ stackAdv' = [stackAdv EXCEPT !.active = FALSE]
  /\ owed' = FALSE
  /\ UNCHANGED <<deviceVars, resets, advVars, misled, call>>

\* reset(): stop(), and the object is as new.
CallReset ==
  /\ At("app") = "idle"
  /\ stackAdv' = [stackAdv EXCEPT !.active = FALSE]
  /\ Fresh
  /\ misled' = Void({"host"})
  /\ owed' = FALSE
  /\ UNCHANGED <<deviceVars, resets, call>>

\* The calls that change the data, but for those of CallSetMode, and
\* enableScanResponse(): the data have to be given to the stack again.
Changed ==
  /\ m_advDataSet' = FALSE
  /\ misled' = Void({"host"})

CallChange ==
  /\ At("app") = "idle"
  /\ \/ m_advData' \in Versions /\ UNCHANGED <<m_scanData, m_scanResp>>
     \/ m_scanData' \in Responses /\ UNCHANGED <<m_advData, m_scanResp>>
     \/ m_scanResp' \in BOOLEAN /\ UNCHANGED <<m_advData, m_scanData>>
  /\ Changed
  /\ UNCHANGED <<deviceVars, resets, m_duration, stackAdv, owed, call>>

\* setDiscoverableMode(), setConnectableMode(): the flags in the data change, and
\* m_advDataSet stays as it is.
CallSetMode ==
  /\ At("app") = "idle"
  /\ m_advData' \in Versions
  /\ stackAdv' = [stackAdv EXCEPT !.old = @ \/ m_advData' # m_advData]
  /\ UNCHANGED <<deviceVars, resets, m_scanData, m_advDataSet, m_duration, m_scanResp, misled, owed, call>>

CallClearData ==
  /\ At("app") = "idle"
  /\ m_advData' = Default
  /\ m_scanData' = None
  /\ Changed
  /\ UNCHANGED <<deviceVars, resets, m_duration, m_scanResp, stackAdv, owed, call>>

\* setAdvertisementData() of the application's own data.
CallSetData ==
  /\ At("app") = "idle"
  /\ \E v \in Versions : GiveData("app", v, [at |-> "custom mark", data |-> v])
  /\ UNCHANGED <<deviceVars, resets, advVars, owed>>

SetDataMark ==
  /\ At("app") = "custom mark"
  /\ m_advData' = call["app"].data
  /\ m_advDataSet' = TRUE
  /\ Returns("app")
  /\ UNCHANGED <<deviceVars, resets, m_scanData, m_duration, m_scanResp, stackAdv, misled, owed>>

\* setScanResponseData(), called or at the end of refreshAdvertisingData().
GiveResponse(v) ==
  /\ stackSynced
  /\ stackAdv' = [stackAdv EXCEPT !.rsp = v]
  /\ m_scanData' = v

CallSetResponse ==
  /\ At("app") = "idle"
  /\ \E v \in Responses : GiveResponse(v)
  /\ UNCHANGED <<deviceVars, resets, m_advData, m_advDataSet, m_duration, m_scanResp, misled, owed, call>>

\* refreshAdvertisingData(): both, and the second even if the first is refused.
CallRefresh ==
  /\ At("app") = "idle" /\ m_initialized
  /\ \/ GiveData("app", m_advData, [at |-> "refresh mark"])
     \/ Goes("app", [at |-> "refresh rsp"]) /\ UNCHANGED <<stackAdv, misled>>
  /\ UNCHANGED <<deviceVars, resets, advVars, owed>>

RefreshMark ==
  /\ At("app") = "refresh mark"
  /\ m_advDataSet' = TRUE
  /\ Goes("app", [at |-> "refresh rsp"])
  /\ UNCHANGED <<deviceVars, resets, m_advData, m_scanData, m_duration, m_scanResp, stackAdv, misled, owed>>

RefreshResponse ==
  /\ At("app") = "refresh rsp"
  /\ \/ m_scanResp /\ GiveResponse(m_scanData)
     \/ UNCHANGED <<stackAdv, m_scanData>>
  /\ Returns("app")
  /\ UNCHANGED <<deviceVars, resets, m_advData, m_advDataSet, m_duration, m_scanResp, misled, owed>>

-----------------------------------------------------------------------------
(* The host task.                                                          *)

\* What a reset does to the stack's advertisement.
AdvReset ==
  /\ stackAdv' = NoAdv
  /\ misled' = (misled \/ \E t \in Threads : Relying(t))
  /\ owed' = (owed \/ (stackAdv.active /\ stackAdv.endless /\ m_duration = Endless))
  /\ UNCHANGED advVars

\* Mutant: onHostSync() leaves m_advDataSet as it was.
ClearedKept == m_advDataSet

\* Mutant: onHostSync() restarts advertising that had an end.
RestartsFinite(d) == d = Finite

Cleared == FALSE
Restarts(d) == d = Endless

\* onHostSync(): endless advertising is started again, an end is reported.
OnHostSync ==
  /\ At("host") = "onHostSync"
  /\ m_advDataSet' = Cleared
  /\ misled' = Void({"app"})
  /\ Goes("host", IF Restarts(m_duration) THEN Starting("host", m_duration) ELSE [at |-> "callback"])
  /\ UNCHANGED <<deviceVars, resets, m_advData, m_scanData, m_duration, m_scanResp, stackAdv, owed>>

\* handleGapEvent(): advertising is over, after its time or in a connection;
\* only the first is told, and the callback may start it again.
Complete ==
  /\ At("host") = "idle"
  /\ stackAdv.active
  /\ stackAdv' = [stackAdv EXCEPT !.active = FALSE]
  /\ \/ ~stackAdv.endless /\ Goes("host", [at |-> "callback"])
     \/ UNCHANGED call
  /\ UNCHANGED <<deviceVars, resets, advVars, misled, owed>>

CallbackReturns ==
  /\ At("host") = "callback"
  /\ \/ Returns("host")
     \/ \E d \in {Endless, Finite} : Goes("host", Starting("host", d))
  /\ UNCHANGED <<deviceVars, resets, legacyVars>>

\* The server's handler starts it again after a connection, if it is to.
StartedByServer ==
  /\ At("host") = "idle"
  /\ m_synced /\ m_initialized
  /\ Goes("host", Starting("host", Endless))
  /\ UNCHANGED <<deviceVars, resets, legacyVars>>

LegacyStart(t) ==
  StartCheck(t) \/ StartData(t) \/ StartMark(t) \/ StartResponse(t) \/ StartDuration(t) \/ StartGo(t)

LegacyApp ==
  \/ CallStart \/ CallStop \/ CallReset \/ CallChange \/ CallSetMode \/ CallClearData
  \/ CallSetData \/ SetDataMark \/ CallSetResponse \/ CallRefresh \/ RefreshMark \/ RefreshResponse

LegacyHost == OnHostSync \/ Complete \/ CallbackReturns \/ StartedByServer
=============================================================================
