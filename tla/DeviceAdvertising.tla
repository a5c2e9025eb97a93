-------------------------- MODULE DeviceAdvertising --------------------------
(***************************************************************************)
(* The device with the advertising of its build, and what an application   *)
(* relies on through starts, ends, resets and a new initialization.        *)
(***************************************************************************)
EXTENDS NimBLEAdvertising, NimBLEExtAdvertising

VARIABLE build  \* "legacy" or "extended"

vars == <<build, deviceVars, call, resets, legacyVars, extVars>>

Legacy == build = "legacy"
Others == IF Legacy THEN UNCHANGED extVars ELSE UNCHANGED legacyVars

Init ==
  /\ build \in {"legacy", "extended"}
  /\ DeviceInit /\ LegacyInit /\ ExtInit

\* Bound: the white list, which no advertising reads, changes in one build.
DeviceStep ==
  /\ \/ Initialize \/ Initialized \/ Synced
     \/ ~Legacy /\ (WhiteListAdd \/ WhiteListRemove)
  /\ UNCHANGED <<build, legacyVars, extVars>>

\* Without an address the device stays out of sync.
SyncStep ==
  /\ Synchronize
  /\ owed' = (owed /\ m_synced')
  /\ UNCHANGED <<build, advVars, stackAdv, misled, extVars>>

ResetStep ==
  /\ Reset
  /\ IF Legacy THEN AdvReset ELSE UNCHANGED legacyVars
  /\ IF Legacy THEN UNCHANGED extVars ELSE ExtReset
  /\ UNCHANGED build

\* deinit(clearAll): the object is kept, with what it knew of the stack, or
\* deleted, even if the stack could not be stopped.
Deinit ==
  /\ \E stopped, clearAll \in BOOLEAN :
       /\ Deinitialized(stopped)
       /\ stackAdv' = IF stopped THEN NoAdv ELSE stackAdv
       /\ stackExt' = IF stopped THEN [i \in Instances |-> NoInstance] ELSE stackExt
       /\ IF clearAll
          THEN /\ IF Legacy THEN Fresh ELSE UNCHANGED advVars
               /\ m_advStatus' = AllStopped
               /\ misled' = (misled /\ ~stopped)
               /\ raced' = IF stopped THEN {} ELSE {i \in Instances : stackExt[i].active}
          ELSE /\ UNCHANGED <<advVars, m_advStatus>>
               /\ misled' = (misled \/ (stopped /\ m_advDataSet))
               /\ raced' = raced \cup {i \in Instances : stopped /\ m_advStatus[i]}
  /\ owed' = FALSE
  /\ UNCHANGED build

LegacyStep ==
  /\ Legacy
  /\ LegacyApp \/ LegacyHost \/ \E t \in Threads : LegacyStart(t)
  /\ UNCHANGED <<build, extVars>>

ExtStep ==
  /\ ~Legacy
  /\ ExtApp \/ ExtHost \/ \E t \in Threads : ExtStart(t)
  /\ UNCHANGED <<build, legacyVars>>

Next == DeviceStep \/ SyncStep \/ ResetStep \/ Deinit \/ LegacyStep \/ ExtStep

Spec == Init /\ [][Next]_vars

\* The host synchronizes after a reset, its task runs what it has begun, and so
\* does the application; no call is promised.
HostRuns ==
  \/ SyncStep
  \/ Synced /\ UNCHANGED <<build, legacyVars, extVars>>
  \/ (OnHostSync \/ CallbackReturns \/ LegacyStart("host")) /\ UNCHANGED <<build, extVars>>

FairSpec == Spec /\ WF_vars(HostRuns)

-----------------------------------------------------------------------------
(* Properties.                                                             *)

\* The type invariant: a synchronized library runs on a synchronized stack.
TypeOK ==
  /\ m_initialized \in BOOLEAN /\ m_synced \in BOOLEAN
  /\ m_synced => stackSynced
  /\ stackSynced => stackUp
  /\ m_whiteList \in Seq(Addresses) /\ IsInjective(m_whiteList)
  /\ m_advData \in Versions /\ m_scanData \in Responses \cup {None}
  /\ m_advDataSet \in BOOLEAN /\ m_scanResp \in BOOLEAN
  /\ m_duration \in {Endless, Finite, Forever}
  /\ stackAdv.adv \in Versions \cup {None} /\ stackAdv.rsp \in Responses \cup {None}
  /\ stackAdv.active => stackSynced
  /\ stackAdv.old \in BOOLEAN
  /\ m_advStatus \in [Instances -> BOOLEAN]
  /\ \A i \in Instances : stackExt[i].active => stackExt[i].configured /\ stackSynced

\* m_advDataSet means that the stack has the object's data, and nothing is
\* advertised without data: through changes by the application, restarts by the
\* host task and resets, which lose what the stack had.  Not so after
\* setDiscoverableMode() and setConnectableMode(), which change the flags in the data
\* and leave m_advDataSet set: the stack then has the old flags, also when
\* advertising is started again, until the data are given for another reason (old).
\* Misled are a reset or a change between the stack's answer and the flag, a start
\* between m_synced and onHostSync(), and an object that outlives deinit()
\* (NimBLEAdvertising.cpp).
DataIsServed ==
  ~misled =>
    /\ (m_advDataSet /\ m_synced /\ ~Unaware /\ Quiet) =>
         stackAdv.adv # None /\ (stackAdv.old \/ stackAdv.adv = m_advData)
    /\ stackAdv.active => stackAdv.adv # None

\* What the library remembers of the stack is so: an instance is active exactly
\* if its flag is set, unless its event came in the window of start(), or it was
\* started between m_synced and onHostSync(); and the white list, which holds no
\* address twice, is the controller's, through refused removals, until the
\* controller loses it (NimBLEExtAdvertising.cpp, NimBLEDevice.cpp).
MirrorIsExact ==
  /\ TypeOK
  /\ (m_synced /\ Quiet) =>
       \A i \in Instances \ raced : m_advStatus[i] = stackExt[i].active
  /\ ~listLost => ToSet(m_whiteList) = stackList

\* Endless advertising that a reset of the host ended is active again, or the
\* stack refused it, or the application ended it (onHostSync()).
EndlessIsResumed == owed ~> ~owed
=============================================================================
