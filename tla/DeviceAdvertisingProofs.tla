----------------------- MODULE DeviceAdvertisingProofs -----------------------
(***************************************************************************)
(* What the library remembers of the stack is so (the white list, which    *)
(* instances are active, that the data was set), and the data that was set *)
(* is served, for any number of resets, instances, addresses and contents. *)
(***************************************************************************)
EXTENDS DeviceAdvertising, ListLemmas

-----------------------------------------------------------------------------
(* The white list.                                                         *)

\* The list without one of its members.
LEMMA RemovedLemma ==
  ASSUME NEW S, NEW s \in Seq(S), IsInjective(s), NEW a \in S
  PROVE  /\ Removed(s, a) \in Seq(S)
         /\ IsInjective(Removed(s, a))
         /\ ToSet(Removed(s, a)) = ToSet(s) \ {a}
BY RemoveFirstLemma DEF Removed

\* A list without repetitions, and one more.
LEMMA AddedLemma ==
  ASSUME NEW S, NEW s \in Seq(S), IsInjective(s), NEW a \in S, a \notin ToSet(s)
  PROVE  /\ Append(s, a) \in Seq(S)
         /\ IsInjective(Append(s, a))
         /\ ToSet(Append(s, a)) = ToSet(s) \cup {a}
<1> DEFINE r == Append(s, a)
<1>1. /\ r \in Seq(S) /\ Len(r) = Len(s) + 1 /\ r[Len(s) + 1] = a
      /\ \A i \in 1..Len(s) : r[i] = s[i]
  OBVIOUS
<1> HIDE DEF r
<1>2. \A i \in 1..Len(s) : s[i] # a
  BY DEF ToSet
<1>3. IsInjective(r)
  BY <1>1, <1>2 DEF IsInjective
<1>4. ToSet(r) \subseteq ToSet(s) \cup {a}
  BY <1>1 DEF ToSet
<1>5. a \in ToSet(r)
  BY <1>1 DEF ToSet
<1>6. ToSet(s) \subseteq ToSet(r)
  BY <1>1 DEF ToSet
<1> QED
  BY <1>1, <1>3, <1>4, <1>5, <1>6 DEF r

LEMMA ContainsLemma ==
  ASSUME NEW S, NEW s \in Seq(S), NEW a
  PROVE  Contains(s, a) <=> a \in ToSet(s)
BY DEF Contains, ToSet

-----------------------------------------------------------------------------
(* The invariant.                                                          *)

\* What a thread may be doing, and the arguments that it works with.
NoArgument == {"idle", "initializing", "synced", "onHostSync", "callback", "onStopped",
               "refresh mark", "refresh rsp"}
InStart == {"start", "data", "mark", "rsp", "duration", "go"}
Call ==
  [at : NoArgument] \cup [at : InStart, duration : {Endless, Finite}]
  \cup [at : {"custom mark"}, data : Versions] \cup [at : {"mark instance"}, inst : Instances]

CallOK == call \in [Threads -> Call]

ListOK ==
  /\ m_whiteList \in Seq(Addresses) /\ IsInjective(m_whiteList)
  /\ ~listLost => ToSet(m_whiteList) = stackList

DeviceOK ==
  /\ m_initialized \in BOOLEAN /\ m_synced \in BOOLEAN
  /\ m_synced => stackSynced
  /\ stackSynced => stackUp

StackAdv == [active : BOOLEAN, endless : BOOLEAN, adv : Versions \cup {None},
             rsp : Responses \cup {None}, old : BOOLEAN]

LegacyOK ==
  /\ m_advData \in Versions /\ m_scanData \in Responses \cup {None}
  /\ m_advDataSet \in BOOLEAN /\ m_scanResp \in BOOLEAN
  /\ m_duration \in {Endless, Finite, Forever}
  /\ stackAdv \in StackAdv
  /\ stackAdv.active => stackSynced /\ Legacy

StackInstance == [configured : BOOLEAN, data : BOOLEAN, active : BOOLEAN]

ExtOK ==
  /\ m_advStatus \in [Instances -> BOOLEAN]
  /\ stackExt \in [Instances -> StackInstance]
  /\ \A i \in Instances : stackExt[i].active => stackExt[i].configured /\ stackSynced
  /\ Legacy => m_advStatus = AllStopped /\ stackExt = [i \in Instances |-> NoInstance]

\* Of an instance for which no two threads met: who starts it finds it active still;
\* nobody does, and onHostSync() is not due, the flag is right; and before init()
\* returned neither the flag nor the instance is there.
Mirrored(i) ==
  /\ \A t \in Threads : MarkingInstance(t, i) => stackExt[i].active
  /\ (m_synced /\ ~Unaware /\ \A t \in Threads : ~MarkingInstance(t, i))
       => m_advStatus[i] = stackExt[i].active
  /\ ~m_initialized => ~m_advStatus[i]

FlagsOK ==
  /\ ~Legacy => \A i \in Instances \ raced : Mirrored(i)
  /\ ~m_initialized => \A i \in Instances : ~stackExt[i].configured

MirrorInv == CallOK /\ ListOK /\ DeviceOK /\ LegacyOK /\ ExtOK /\ FlagsOK

-----------------------------------------------------------------------------
(* Where the threads go.                                                   *)

LEMMA StartIsTyped ==
  ASSUME NEW c \in Call, c.at \in InStart
  PROVE  /\ c.duration \in {Endless, Finite}
         /\ \A a \in InStart : [c EXCEPT !.at = a] \in Call
<1>1. c \in [at : InStart, duration : {Endless, Finite}]
  BY DEF Call, NoArgument, InStart
<1> QED
  BY <1>1 DEF Call

LEMMA MarkIsTyped ==
  ASSUME NEW c \in Call
  PROVE  /\ c.at = "custom mark" => c.data \in Versions
         /\ c.at = "mark instance" => c.inst \in Instances
BY DEF Call, NoArgument, InStart

LEMMA CallTypes ==
  /\ \A a \in NoArgument : [at |-> a] \in Call
  /\ \A d \in {Endless, Finite} : \A t : Starting(t, d) \in Call
  /\ \A v \in Versions : [at |-> "custom mark", data |-> v] \in Call
  /\ \A i \in Instances : [at |-> "mark instance", inst |-> i] \in Call
  /\ Idle \in Call
BY DEF Call, NoArgument, InStart, Starting, Idle

LEMMA GoesLemma ==
  ASSUME CallOK, NEW t \in Threads, NEW c, Goes(t, c)
  PROVE  /\ call'[t] = c
         /\ \A u \in Threads : u # t => call'[u] = call[u]
         /\ c \in Call => CallOK'
BY DEF CallOK, Goes

LEMMA CallStep ==
  ASSUME MirrorInv, Next
  PROVE  CallOK'
<1>1. CallOK /\ \A t \in Threads : call[t] \in Call
  BY DEF MirrorInv, CallOK
<1>2. "app" \in Threads /\ "host" \in Threads
  BY DEF Threads
<1>3. ASSUME NEW t \in Threads, NEW c \in Call, Goes(t, c) PROVE CallOK'
  BY <1>1, <1>3, GoesLemma
<1>4. CASE UNCHANGED call
  BY <1>1, <1>4 DEF CallOK
<1>5. ASSUME NEW t \in Threads, Returns(t) PROVE CallOK'
  BY <1>3, <1>5, CallTypes DEF Returns
<1>6. CASE DeviceStep \/ SyncStep \/ ResetStep \/ Deinit
  <2>1. \A a \in {"initializing", "synced", "onHostSync"} : [at |-> a] \in Call
    BY CallTypes DEF NoArgument
  <2> QED
    BY <1>2, <1>3, <1>4, <1>5, <1>6, <2>1
       DEF DeviceStep, SyncStep, ResetStep, Deinit, Initialize, Initialized, Synced,
           WhiteListAdd, WhiteListRemove, Synchronize, Reset, Deinitialized
<1>7. ASSUME NEW t \in Threads, LegacyStart(t) PROVE CallOK'
  <2>1. CASE At(t) \in InStart
    <3>1. \A a \in InStart : [call[t] EXCEPT !.at = a] \in Call
      BY <1>1, <2>1, StartIsTyped DEF At
    <3>2. {"data", "mark", "rsp", "duration", "go"} \subseteq InStart
      BY DEF InStart
    <3> QED
      BY <1>3, <1>5, <1>7, <3>1, <3>2
         DEF LegacyStart, StartCheck, StartData, GiveData, StartMark, StartResponse,
             StartDuration, StartGo
  <2>2. CASE At(t) \notin InStart
    BY <1>7, <2>2 DEF LegacyStart, StartCheck, StartData, StartMark, StartResponse,
                      StartDuration, StartGo, InStart
  <2> QED
    BY <2>1, <2>2
<1>8. CASE LegacyApp
  <2>1. /\ [at |-> "refresh mark"] \in Call /\ [at |-> "refresh rsp"] \in Call
        /\ \A d \in {Endless, Finite} : Starting("app", d) \in Call
        /\ \A v \in Versions : [at |-> "custom mark", data |-> v] \in Call
    BY CallTypes DEF NoArgument
  <2> QED
    BY <1>2, <1>3, <1>4, <1>5, <1>8, <2>1
       DEF LegacyApp, CallStart, CallStop, CallReset, CallChange, CallSetMode, CallClearData, CallSetData,
           SetDataMark, CallSetResponse, CallRefresh, RefreshMark, RefreshResponse, GiveData
<1>9. CASE LegacyHost
  <2>1. /\ [at |-> "callback"] \in Call
        /\ \A d \in {Endless, Finite} : Starting("host", d) \in Call
    BY CallTypes DEF NoArgument
  <2> QED
    BY <1>2, <1>3, <1>4, <1>5, <1>9, <2>1
       DEF LegacyHost, OnHostSync, Restarts, Complete, CallbackReturns, StartedByServer
<1>10. CASE ExtStep
  <2>1. /\ [at |-> "onStopped"] \in Call
        /\ \A i \in Instances : [at |-> "mark instance", inst |-> i] \in Call
    BY CallTypes DEF NoArgument
  <2> QED
    BY <1>2, <1>3, <1>4, <1>5, <1>10, <2>1
       DEF ExtStep, ExtStart, ExtApp, ExtHost, StartInstance, StartReturns, SetInstanceData,
           StopInstance, RemoveInstance, StopAll, ExtOnHostSync, InstanceComplete,
           OnStoppedReturns
<1> QED
  BY <1>6, <1>7, <1>8, <1>9, <1>10 DEF Next, LegacyStep

-----------------------------------------------------------------------------
(* The device and its white list.                                          *)

LEMMA DeviceStays ==
  ASSUME Next
  PROVE  \/ Initialize \/ Initialized \/ WhiteListAdd \/ WhiteListRemove \/ Synchronize \/ Reset
         \/ \E stopped \in BOOLEAN : Deinitialized(stopped)
         \/ UNCHANGED deviceVars
BY DEF Next, DeviceStep, SyncStep, ResetStep, Deinit, Synced, LegacyStep, LegacyApp, LegacyHost,
       LegacyStart, StartCheck, StartData, StartMark, StartResponse, StartDuration, StartGo,
       CallStart, CallStop, CallReset, CallChange, CallSetMode, CallClearData, CallSetData,
       SetDataMark, CallSetResponse, CallRefresh, RefreshMark, RefreshResponse,
       OnHostSync, Complete, CallbackReturns, StartedByServer,
       ExtStep, ExtStart, ExtApp, ExtHost, StartInstance, StartReturns, SetInstanceData,
       StopInstance, RemoveInstance, StopAll, ExtOnHostSync, InstanceComplete, OnStoppedReturns

LEMMA DeviceOKStep ==
  ASSUME MirrorInv, Next
  PROVE  DeviceOK'
<1>1. DeviceOK
  BY DEF MirrorInv
<1>2. CASE UNCHANGED <<m_initialized, m_synced, stackUp, stackSynced>>
  BY <1>1, <1>2 DEF DeviceOK
<1>3. CASE Initialize \/ Initialized
  <2>1. CASE Initialize
    <3>1. stackUp => stackUp'
      BY <2>1, Zenon DEF Initialize
    <3> QED
      BY <1>1, <2>1, <3>1 DEF DeviceOK, Initialize
  <2>2. CASE Initialized
    BY <1>1, <2>2 DEF DeviceOK, Initialized
  <2> QED
    BY <1>3, <2>1, <2>2
<1>4. CASE WhiteListAdd \/ WhiteListRemove
  BY <1>2, <1>4 DEF WhiteListAdd, WhiteListRemove
<1>5. CASE Synchronize
  BY <1>1, <1>5 DEF DeviceOK, Synchronize
<1>6. CASE Reset
  BY <1>1, <1>6 DEF DeviceOK, Reset
<1>7. ASSUME NEW stopped \in BOOLEAN, Deinitialized(stopped) PROVE DeviceOK'
  BY <1>1, <1>2, <1>7 DEF DeviceOK, Deinitialized
<1>8. CASE UNCHANGED deviceVars
  BY <1>2, <1>8 DEF deviceVars
<1> QED
  BY <1>3, <1>4, <1>5, <1>6, <1>7, <1>8, DeviceStays

LEMMA ListOKStep ==
  ASSUME MirrorInv, Next
  PROVE  ListOK'
<1>1. ListOK
  BY DEF MirrorInv
<1>2. CASE WhiteListAdd
  <2>1. PICK a \in Addresses : /\ ~OnWhiteList(a)
                               /\ m_whiteList' = Append(m_whiteList, a)
                               /\ SetList(m_whiteList')
    BY <1>2 DEF WhiteListAdd
  <2>2. a \notin ToSet(m_whiteList)
    BY <1>1, <2>1, ContainsLemma DEF ListOK, OnWhiteList
  <2>3. m_whiteList' \in Seq(Addresses) /\ IsInjective(m_whiteList')
    BY <1>1, <2>1, <2>2, AddedLemma DEF ListOK
  <2> QED
    BY <2>1, <2>3 DEF ListOK, SetList
<1>3. CASE WhiteListRemove
  <2>1. PICK a \in Addresses :
          /\ OnWhiteList(a)
          /\ \/ m_whiteList' = Removed(m_whiteList, a) /\ SetList(m_whiteList')
             \/ m_whiteList' = PutBack(m_whiteList, a) /\ UNCHANGED <<stackList, listLost>>
    BY <1>3 DEF WhiteListRemove
  <2>2. a \in ToSet(m_whiteList) /\ Contains(m_whiteList, a)
    BY <1>1, <2>1, ContainsLemma DEF ListOK, OnWhiteList
  <2> DEFINE r == Removed(m_whiteList, a)
  <2>3. r \in Seq(Addresses) /\ IsInjective(r) /\ ToSet(r) = ToSet(m_whiteList) \ {a}
    BY <1>1, <2>2, RemovedLemma DEF ListOK
  <2>4. CASE m_whiteList' = r /\ SetList(m_whiteList')
    BY <2>3, <2>4 DEF ListOK, SetList
  <2>5. CASE m_whiteList' = PutBack(m_whiteList, a) /\ UNCHANGED <<stackList, listLost>>
    <3>1. m_whiteList' = Append(r, a)
      BY <2>5 DEF PutBack
    <3> HIDE DEF r
    <3>2. /\ m_whiteList' \in Seq(Addresses) /\ IsInjective(m_whiteList')
          /\ ToSet(m_whiteList') = ToSet(r) \cup {a}
      BY <2>3, <3>1, AddedLemma
    <3>3. ToSet(m_whiteList') = ToSet(m_whiteList)
      BY <2>2, <2>3, <3>2
    <3> QED
      BY <1>1, <2>5, <3>2, <3>3 DEF ListOK
  <2> QED
    BY <2>1, <2>4, <2>5
<1>4. ASSUME UNCHANGED m_whiteList, stackList' = {}, listLost' = (m_whiteList # << >> \/ listLost)
      PROVE  ListOK'
  <2>1. ToSet(<< >>) = {}
    BY DEF ToSet
  <2> QED
    BY <1>1, <1>4, <2>1 DEF ListOK
<1>5. CASE UNCHANGED <<m_whiteList, stackList, listLost>>
  BY <1>1, <1>5 DEF ListOK
<1> QED
  BY <1>2, <1>3, <1>4, <1>5, DeviceStays
     DEF Initialize, Initialized, Synchronize, Reset, Deinitialized, deviceVars
-----------------------------------------------------------------------------
(* The advertisement of a legacy build.                                    *)

LEMMA AdvIsTyped ==
  ASSUME NEW r \in StackAdv
  PROVE  /\ \A v \in Versions :
               /\ [r EXCEPT !.adv = v, !.old = FALSE] \in StackAdv
               /\ [r EXCEPT !.adv = v, !.old = FALSE].active = r.active
         /\ \A b \in BOOLEAN : [r EXCEPT !.old = b] \in StackAdv /\ [r EXCEPT !.old = b].active = r.active
         /\ \A v \in Responses \cup {None} :
               [r EXCEPT !.rsp = v] \in StackAdv /\ [r EXCEPT !.rsp = v].active = r.active
         /\ [r EXCEPT !.active = FALSE] \in StackAdv /\ ~[r EXCEPT !.active = FALSE].active
         /\ \A b \in BOOLEAN : [r EXCEPT !.active = TRUE, !.endless = b] \in StackAdv
         /\ NoAdv \in StackAdv /\ ~NoAdv.active
BY DEF StackAdv, NoAdv

LEMMA BuildStays ==
  ASSUME Next
  PROVE  build' = build
BY DEF Next, DeviceStep, SyncStep, ResetStep, Deinit, LegacyStep, ExtStep

LEMMA LegacyOKStep ==
  ASSUME MirrorInv, Next
  PROVE  LegacyOK'
<1>1. LegacyOK /\ DeviceOK /\ \A t \in Threads : call[t] \in Call
  BY DEF MirrorInv, CallOK
<1>2. "app" \in Threads /\ Default \in Versions
  BY VersionsAssumption DEF Threads
<1>3. stackAdv \in StackAdv /\ Legacy' = Legacy
  BY <1>1, BuildStays DEF LegacyOK, Legacy
<1>4. ASSUME UNCHANGED <<advVars, stackAdv>>, stackSynced => stackSynced' PROVE LegacyOK'
  BY <1>1, <1>3, <1>4 DEF LegacyOK, advVars
<1>5. ASSUME UNCHANGED advVars, stackAdv' \in StackAdv, stackAdv'.active => stackSynced' /\ Legacy
      PROVE LegacyOK'
  BY <1>1, <1>3, <1>5 DEF LegacyOK, advVars
<1>6. ASSUME Fresh, stackAdv' \in StackAdv, stackAdv'.active => stackSynced' /\ Legacy
      PROVE LegacyOK'
  BY <1>2, <1>3, <1>6 DEF LegacyOK, Fresh
<1>7. CASE DeviceStep
  BY <1>4, <1>7 DEF DeviceStep, legacyVars, Initialize, Initialized, Synced, WhiteListAdd,
                    WhiteListRemove, deviceVars
<1>8. CASE SyncStep
  BY <1>4, <1>8 DEF SyncStep, Synchronize
<1>9. CASE ResetStep
  <2>1. CASE Legacy
    BY <1>3, <1>5, <1>9, <2>1, AdvIsTyped DEF ResetStep, AdvReset
  <2>2. CASE ~Legacy
    <3>1. UNCHANGED <<advVars, stackAdv>>
      BY <1>9, <2>2 DEF ResetStep, legacyVars
    <3> QED
      BY <1>1, <1>3, <1>5, <2>2, <3>1 DEF LegacyOK
  <2> QED
    BY <2>1, <2>2
<1>10. CASE Deinit
  <2>1. PICK stopped, clearAll \in BOOLEAN :
          /\ Deinitialized(stopped)
          /\ stackAdv' = IF stopped THEN NoAdv ELSE stackAdv
          /\ IF clearAll THEN IF Legacy THEN Fresh ELSE UNCHANGED advVars ELSE UNCHANGED advVars
    BY <1>10 DEF Deinit
  <2>2. stackAdv' \in StackAdv /\ (stackAdv'.active => stackSynced' /\ Legacy)
    BY <1>1, <1>3, <2>1, AdvIsTyped DEF LegacyOK, Deinitialized
  <2> QED
    BY <1>5, <1>6, <2>1, <2>2
<1>11. CASE ExtStep
  <2>1. UNCHANGED <<advVars, stackAdv>>
    BY <1>11 DEF ExtStep, legacyVars
  <2>2. stackSynced' = stackSynced
    BY <1>11
       DEF ExtStep, deviceVars, ExtStart, ExtApp, ExtHost, StartInstance, StartReturns,
           SetInstanceData, StopInstance, RemoveInstance, StopAll, ExtOnHostSync,
           InstanceComplete, OnStoppedReturns
  <2> QED
    BY <1>4, <2>1, <2>2
<1>12. CASE LegacyStep
  <2>1. Legacy /\ stackSynced' = stackSynced
    BY <1>12 DEF LegacyStep, deviceVars, LegacyStart, StartCheck, StartData, StartMark,
         StartResponse, StartDuration, StartGo, LegacyApp, CallStart, CallStop, CallReset,
         CallChange, CallSetMode, CallClearData, CallSetData, SetDataMark, CallSetResponse, CallRefresh,
         RefreshMark, RefreshResponse, LegacyHost, OnHostSync, Complete, CallbackReturns,
         StartedByServer
  <2>2. ASSUME NEW t \in Threads, NEW v \in Versions, NEW n, GiveData(t, v, n)
        PROVE  stackAdv' \in StackAdv /\ (stackAdv'.active => stackSynced')
    BY <1>1, <1>3, <2>1, <2>2, AdvIsTyped DEF GiveData
  <2>3. ASSUME NEW v \in Responses \cup {None}, GiveResponse(v)
        PROVE  stackAdv' \in StackAdv /\ (stackAdv'.active => stackSynced')
    BY <1>1, <1>3, <2>1, <2>3, AdvIsTyped DEF GiveResponse
  <2>4. ASSUME NEW t \in Threads, LegacyStart(t) PROVE LegacyOK'
    <3>1. CASE StartCheck(t)
      BY <1>4, <2>1, <3>1 DEF StartCheck
    <3>2. CASE StartData(t)
      BY <1>1, <1>4, <1>5, <2>1, <2>2, <3>2 DEF StartData, LegacyOK
    <3>3. CASE StartMark(t)
      BY <1>1, <1>3, <2>1, <3>3 DEF StartMark, LegacyOK
    <3>4. CASE StartResponse(t)
      <4>1. m_scanData \in Responses \cup {None}
        BY <1>1 DEF LegacyOK
      <4>2. stackAdv' = stackAdv \/ (stackAdv' = [stackAdv EXCEPT !.rsp = m_scanData] /\ stackSynced)
        <5>1. CASE m_scanResp /\ m_scanData # None
          BY <3>4, <5>1 DEF StartResponse
        <5>2. CASE ~(m_scanResp /\ m_scanData # None)
          BY <3>4, <5>2 DEF StartResponse
        <5> QED
          BY <5>1, <5>2
      <4>3. stackAdv' \in StackAdv /\ (stackAdv'.active => stackSynced')
        BY <1>1, <1>3, <2>1, <4>1, <4>2, AdvIsTyped DEF LegacyOK
      <4> QED
        BY <1>5, <2>1, <3>4, <4>3 DEF StartResponse
    <3>5. CASE StartDuration(t)
      <4>1. call[t].duration \in {Endless, Finite}
        BY <1>1, <3>5, StartIsTyped DEF StartDuration, At, InStart
      <4> QED
        BY <1>1, <1>3, <2>1, <3>5, <4>1 DEF StartDuration, LegacyOK
    <3>6. CASE StartGo(t)
      <4>1. stackAdv' \in StackAdv /\ (stackAdv'.active => stackSynced')
        BY <1>1, <1>3, <2>1, <3>6, AdvIsTyped DEF StartGo, LegacyOK
      <4> QED
        BY <1>5, <2>1, <3>6, <4>1 DEF StartGo
    <3> QED
      BY <2>4, <3>1, <3>2, <3>3, <3>4, <3>5, <3>6 DEF LegacyStart
  <2>5. CASE LegacyApp
    <3>1. CASE CallStart \/ CallStop \/ CallReset
      BY <1>3, <1>4, <1>5, <1>6, <2>1, <3>1, AdvIsTyped DEF CallStart, CallStop, CallReset, legacyVars
    <3>2. CASE CallChange \/ CallClearData
      BY <1>1, <1>2, <1>3, <2>1, <3>2 DEF CallChange, CallSetMode, CallClearData, Changed, LegacyOK
    <3>3. CASE CallSetData
      BY <1>2, <1>5, <2>1, <2>2, <3>3 DEF CallSetData
    <3>4. CASE SetDataMark \/ RefreshMark
      <4>1. SetDataMark => call["app"].data \in Versions
        BY <1>1, <1>2, MarkIsTyped DEF SetDataMark, At
      <4> QED
        BY <1>1, <1>3, <2>1, <3>4, <4>1 DEF SetDataMark, RefreshMark, LegacyOK
    <3>5. CASE CallSetResponse
      <4>1. PICK v \in Responses : GiveResponse(v)
        BY <3>5 DEF CallSetResponse
      <4>2. m_scanData' \in Responses
        BY <4>1 DEF GiveResponse
      <4>3. stackAdv' \in StackAdv /\ (stackAdv'.active => stackSynced')
        BY <2>3, <4>1
      <4> QED
        BY <1>1, <1>3, <2>1, <3>5, <4>2, <4>3 DEF CallSetResponse, LegacyOK
    <3>6. CASE CallRefresh
      BY <1>1, <1>2, <1>4, <1>5, <2>1, <2>2, <3>6 DEF CallRefresh, LegacyOK
    <3>7. CASE RefreshResponse
      <4>1. m_scanData \in Responses \cup {None}
        BY <1>1 DEF LegacyOK
      <4>2. CASE GiveResponse(m_scanData)
        BY <1>5, <2>1, <2>3, <3>7, <4>1, <4>2 DEF GiveResponse, RefreshResponse, advVars
      <4>3. CASE UNCHANGED <<stackAdv, m_scanData>>
        BY <1>4, <2>1, <3>7, <4>3 DEF RefreshResponse, advVars
      <4> QED
        BY <3>7, <4>2, <4>3 DEF RefreshResponse
    <3>8. CASE CallSetMode
      <4>1. stackAdv' \in StackAdv /\ stackAdv'.active = stackAdv.active
        <5>1. PICK b \in BOOLEAN : stackAdv' = [stackAdv EXCEPT !.old = b]
          BY <1>1, <3>8 DEF CallSetMode, LegacyOK, StackAdv
        <5> QED
          BY <1>1, <5>1, AdvIsTyped DEF LegacyOK
      <4> QED
        BY <1>1, <1>3, <2>1, <3>8, <4>1 DEF CallSetMode, LegacyOK
    <3> QED
      BY <2>5, <3>1, <3>2, <3>3, <3>4, <3>5, <3>6, <3>7, <3>8 DEF LegacyApp
  <2>6. CASE LegacyHost
    <3>1. CASE OnHostSync
      BY <1>1, <1>3, <2>1, <3>1 DEF OnHostSync, Cleared, LegacyOK
    <3>2. CASE Complete
      BY <1>3, <1>5, <2>1, <3>2, AdvIsTyped DEF Complete
    <3>3. CASE CallbackReturns \/ StartedByServer
      BY <1>4, <2>1, <3>3 DEF CallbackReturns, StartedByServer, legacyVars
    <3> QED
      BY <2>6, <3>1, <3>2, <3>3 DEF LegacyHost
  <2> QED
    BY <1>12, <2>4, <2>5, <2>6 DEF LegacyStep
<1> QED
  BY <1>7, <1>8, <1>9, <1>10, <1>11, <1>12 DEF Next

-----------------------------------------------------------------------------
(* The instances of a build with extended advertising.                     *)

LEMMA InstanceIsTyped ==
  ASSUME NEW r \in StackInstance, NEW b \in BOOLEAN
  PROVE  /\ [r EXCEPT !.active = b] \in StackInstance
         /\ [r EXCEPT !.active = b].active = b /\ [r EXCEPT !.active = b].configured = r.configured
         /\ [r EXCEPT !.configured = TRUE] \in StackInstance
         /\ [r EXCEPT !.configured = TRUE].active = r.active
         /\ [r EXCEPT !.data = b] \in StackInstance
         /\ [r EXCEPT !.data = b].active = r.active
BY DEF StackInstance

LEMMA NoInstanceIsTyped ==
  NoInstance \in StackInstance /\ ~NoInstance.active /\ ~NoInstance.configured
BY DEF StackInstance, NoInstance

\* What the steps on instances do, in a build that has them.
LEMMA ExtStepCases ==
  ASSUME ExtStep
  PROVE  \/ SetInstanceData \/ StopInstance \/ RemoveInstance \/ StopAll
         \/ ExtOnHostSync \/ InstanceComplete \/ OnStoppedReturns
         \/ \E t \in Threads : StartInstance(t) \/ StartReturns(t)
BY DEF ExtStep, ExtStart, ExtApp, ExtHost

LEMMA ExtOKStep ==
  ASSUME MirrorInv, Next
  PROVE  ExtOK'
<1>1. ExtOK /\ DeviceOK /\ \A t \in Threads : call[t] \in Call
  BY DEF MirrorInv, CallOK
<1>2. Legacy' = Legacy
  BY BuildStays DEF Legacy
<1>3. AllStopped \in [Instances -> BOOLEAN] /\ [i \in Instances |-> NoInstance] \in [Instances -> StackInstance]
  BY NoInstanceIsTyped DEF AllStopped
<1>4. \A i \in Instances : ~([j \in Instances |-> NoInstance][i].active)
  BY DEF NoInstance
<1>5. ASSUME UNCHANGED <<m_advStatus, stackExt>>, stackSynced => stackSynced' PROVE ExtOK'
  BY <1>1, <1>2, <1>5 DEF ExtOK
<1>6. ASSUME m_advStatus' \in {m_advStatus, AllStopped}, stackExt' = [i \in Instances |-> NoInstance]
      PROVE  ExtOK'
  BY <1>1, <1>2, <1>3, <1>4, <1>6 DEF ExtOK
<1>7. CASE DeviceStep
  BY <1>5, <1>7 DEF DeviceStep, extVars, Initialize, Initialized, Synced, WhiteListAdd,
                    WhiteListRemove, deviceVars
<1>8. CASE SyncStep
  BY <1>5, <1>8 DEF SyncStep, Synchronize, extVars
<1>9. CASE ResetStep
  <2>1. CASE Legacy
    BY <1>1, <1>6, <1>9, <2>1 DEF ResetStep, extVars, ExtOK
  <2>2. CASE ~Legacy
    BY <1>6, <1>9, <2>2 DEF ResetStep, ExtReset
  <2> QED
    BY <2>1, <2>2
<1>10. CASE Deinit
  <2>1. PICK stopped \in BOOLEAN :
          /\ Deinitialized(stopped)
          /\ stackExt' = IF stopped THEN [i \in Instances |-> NoInstance] ELSE stackExt
          /\ m_advStatus' \in {m_advStatus, AllStopped}
    BY <1>10 DEF Deinit
  <2>2. CASE stopped
    BY <1>6, <2>1, <2>2
  <2>3. CASE ~stopped
    <3>1. stackExt' = stackExt /\ stackSynced' = stackSynced
      BY <2>1, <2>3 DEF Deinitialized
    <3> QED
      BY <1>1, <1>2, <1>3, <2>1, <3>1 DEF ExtOK
  <2> QED
    BY <2>2, <2>3
<1>11. CASE LegacyStep
  <2>1. UNCHANGED <<m_advStatus, stackExt>>
    BY <1>11 DEF LegacyStep, extVars
  <2>2. stackSynced' = stackSynced
    BY <1>11 DEF LegacyStep, deviceVars, LegacyStart, StartCheck, StartData, StartMark,
         StartResponse, StartDuration, StartGo, LegacyApp, CallStart, CallStop, CallReset,
         CallChange, CallSetMode, CallClearData, CallSetData, SetDataMark, CallSetResponse, CallRefresh,
         RefreshMark, RefreshResponse, LegacyHost, OnHostSync, Complete, CallbackReturns,
         StartedByServer
  <2> QED
    BY <1>5, <2>1, <2>2
<1>12. CASE ExtStep
  <2>1. ~Legacy
    BY <1>12 DEF ExtStep
  <2>2. ASSUME NEW i \in Instances, NEW r \in StackInstance, NEW b \in BOOLEAN,
               stackExt' = [stackExt EXCEPT ![i] = r],
               m_advStatus' \in {m_advStatus, [m_advStatus EXCEPT ![i] = b], AllStopped},
               r.active => r.configured /\ stackSynced,
               stackSynced' = stackSynced
        PROVE  ExtOK'
    BY <1>1, <1>2, <1>3, <2>1, <2>2 DEF ExtOK
  <2>3. \A i \in Instances : stackExt[i] \in StackInstance
    BY <1>1 DEF ExtOK
  <2>4. CASE SetInstanceData
    <3>1. PICK i \in Instances, d \in BOOLEAN :
            /\ ~stackExt[i].active
            /\ stackExt' = [stackExt EXCEPT ![i].configured = TRUE, ![i].data = d]
      BY <2>4 DEF SetInstanceData
    <3> DEFINE q == [stackExt[i] EXCEPT !.configured = TRUE]
               r == [q EXCEPT !.data = d]
    <3>2. stackExt' = [stackExt EXCEPT ![i] = r]
      <4>1. stackExt' = [[stackExt EXCEPT ![i] = q] EXCEPT ![i] = r]
        BY <1>1, <3>1 DEF ExtOK
      <4> QED
        BY <1>1, <4>1 DEF ExtOK
    <3>3. r \in StackInstance /\ ~r.active
      <4>1. q \in StackInstance /\ q.active = stackExt[i].active
        BY <2>3, InstanceIsTyped
      <4>2. r \in StackInstance /\ r.active = q.active
        <5> HIDE DEF q
        <5> QED
          BY <4>1, InstanceIsTyped
      <4> QED
        BY <3>1, <4>1, <4>2
    <3> HIDE DEF q, r
    <3> QED
      BY <2>2, <2>4, <3>2, <3>3 DEF SetInstanceData, deviceVars
  <2>5. CASE StopInstance \/ RemoveInstance \/ InstanceComplete
    <3>1. PICK i \in Instances :
            /\ \/ stackExt' = [stackExt EXCEPT ![i].active = FALSE]
               \/ stackExt' = [stackExt EXCEPT ![i] = NoInstance]
               \/ stackExt' = [stackExt EXCEPT ![i] = [@ EXCEPT !.active = FALSE]]
            /\ m_advStatus' = [m_advStatus EXCEPT ![i] = FALSE]
      BY <2>5 DEF StopInstance, RemoveInstance, InstanceComplete, Ended
    <3>2. PICK r \in StackInstance : stackExt' = [stackExt EXCEPT ![i] = r] /\ ~r.active
      <4>1. /\ [stackExt[i] EXCEPT !.active = FALSE] \in StackInstance
            /\ ~[stackExt[i] EXCEPT !.active = FALSE].active
        BY <2>3, InstanceIsTyped
      <4> QED
        BY <3>1, <4>1, NoInstanceIsTyped
    <3>3. stackSynced' = stackSynced
      BY <2>5 DEF StopInstance, RemoveInstance, InstanceComplete, deviceVars
    <3> QED
      BY <2>2, <3>1, <3>2, <3>3
  <2>6. CASE StopAll
    BY <1>6, <2>6 DEF StopAll
  <2>7. CASE ExtOnHostSync \/ OnStoppedReturns
    BY <1>1, <1>2, <1>3, <2>1, <2>7 DEF ExtOnHostSync, OnStoppedReturns, extVars, deviceVars, ExtOK
  <2>8. ASSUME NEW t \in Threads, StartInstance(t) PROVE ExtOK'
    <3>1. PICK i \in Instances : stackExt[i].configured /\ stackExt' = [stackExt EXCEPT ![i].active = TRUE]
      BY <2>8 DEF StartInstance
    <3> DEFINE r == [stackExt[i] EXCEPT !.active = TRUE]
    <3>2. r \in StackInstance /\ r.configured
      <4>1. r \in StackInstance /\ r.configured = stackExt[i].configured
        BY <2>3, InstanceIsTyped
      <4> QED
        BY <3>1, <4>1
    <3>3. stackExt' = [stackExt EXCEPT ![i] = r]
      BY <3>1
    <3> HIDE DEF r
    <3> QED
      BY <2>2, <2>8, <3>2, <3>3 DEF StartInstance, deviceVars
  <2>9. ASSUME NEW t \in Threads, StartReturns(t) PROVE ExtOK'
    BY <1>1, <1>2, <2>1, <2>9 DEF StartReturns, ExtOK, deviceVars
  <2> QED
    BY <1>12, <2>4, <2>5, <2>6, <2>7, <2>8, <2>9, ExtStepCases
<1> QED
  BY <1>7, <1>8, <1>9, <1>10, <1>11, <1>12 DEF Next

-----------------------------------------------------------------------------
(* The flags.                                                              *)

\* A thread that neither begins nor ends to mark an instance.
LEMMA MarksStay ==
  ASSUME CallOK, NEW t \in Threads, NEW c, Goes(t, c), At(t) # "mark instance", c.at # "mark instance"
  PROVE  \A u \in Threads, i \in Instances : MarkingInstance(u, i)' <=> MarkingInstance(u, i)
<1>1. call'[t] = c /\ \A u \in Threads : u # t => call'[u] = call[u]
  BY GoesLemma
<1>2. ASSUME NEW u \in Threads, NEW i \in Instances
      PROVE  MarkingInstance(u, i)' <=> MarkingInstance(u, i)
  <2>1. CASE u = t
    BY <1>1, <2>1 DEF MarkingInstance, At
  <2>2. CASE u # t
    BY <1>1, <2>2 DEF MarkingInstance, At
  <2> QED
    BY <2>1, <2>2
<1> QED
  BY <1>2

LEMMA AwarenessStays ==
  ASSUME CallOK, NEW t \in Threads, NEW c, Goes(t, c)
  PROVE  /\ t # "host" => At("host")' = At("host")
         /\ t = "host" => At("host")' = c.at
BY GoesLemma DEF At, Threads

\* A step that leaves the instances alone: if the flags are to be right after it
\* they were to be so before, or init() has not returned.
LEMMA FlagsStay ==
  ASSUME MirrorInv, ~Legacy, UNCHANGED <<m_advStatus, stackExt, raced>>,
         \A t \in Threads, i \in Instances : MarkingInstance(t, i)' <=> MarkingInstance(t, i),
         m_synced' /\ ~Unaware' => ~m_initialized \/ (m_synced /\ ~Unaware),
         ~m_initialized' => ~m_initialized
  PROVE  FlagsOK'
<1>1. FlagsOK /\ ExtOK
  BY DEF MirrorInv
<1>2. ASSUME NEW i \in Instances \ raced PROVE Mirrored(i)'
  <2>1. Mirrored(i)
    BY <1>1 DEF FlagsOK
  <2>2. ~m_initialized => m_advStatus[i] = stackExt[i].active
    BY <1>1, <2>1, NoInstanceIsTyped DEF FlagsOK, Mirrored, ExtOK, StackInstance
  <2> QED
    BY <2>1, <2>2 DEF Mirrored
<1> QED
  BY <1>1, <1>2 DEF FlagsOK

LEMMA FlagsOKStep ==
  ASSUME MirrorInv, Next
  PROVE  FlagsOK'
<1>1. /\ CallOK /\ FlagsOK /\ ExtOK /\ DeviceOK
      /\ "app" \in Threads /\ "host" \in Threads
  BY DEF MirrorInv, Threads
<1>2. CASE Legacy
  <2>1. Legacy' /\ ExtOK'
    BY <1>2, BuildStays, ExtOKStep DEF Legacy
  <2>2. \A i \in Instances : ~stackExt'[i].configured
    BY <2>1, NoInstanceIsTyped DEF ExtOK
  <2> QED
    BY <2>1, <2>2 DEF FlagsOK
<1>3. CASE ~Legacy
  <2>1. \A i \in Instances : /\ stackExt[i] \in StackInstance
                             /\ stackExt[i].active => stackExt[i].configured
                             /\ m_advStatus[i] \in BOOLEAN
    BY <1>1 DEF ExtOK
  <2>2. \A i \in Instances \ raced : Mirrored(i)
    BY <1>1, <1>3 DEF FlagsOK
  <2>3. CASE DeviceStep
    <3>1. UNCHANGED <<m_advStatus, stackExt, raced>>
      BY <2>3 DEF DeviceStep, extVars
    <3>2. CASE Initialize \/ Initialized
      <4>1. At("app") # "mark instance" /\ (Goes("app", [at |-> "initializing"]) \/ Goes("app", [at |-> "idle"]))
        BY <3>2 DEF Initialize, Initialized, Returns, Idle
      <4>2. \A t \in Threads, i \in Instances : MarkingInstance(t, i)' <=> MarkingInstance(t, i)
        BY <1>1, <4>1, MarksStay
      <4>3. Unaware' <=> Unaware
        BY <1>1, <4>1, AwarenessStays DEF Unaware
      <4>4. m_synced' = m_synced /\ (~m_initialized' => ~m_initialized)
        BY <3>2 DEF Initialize, Initialized
      <4> QED
        BY <1>3, <3>1, <4>2, <4>3, <4>4, FlagsStay
    <3>3. CASE Synced
      <4>1. /\ At("host") # "mark instance"
            /\ IF m_initialized THEN Goes("host", [at |-> "onHostSync"]) ELSE Goes("host", [at |-> "idle"])
        BY <3>3 DEF Synced, Returns, Idle
      <4>2. \A t \in Threads, i \in Instances : MarkingInstance(t, i)' <=> MarkingInstance(t, i)
        BY <1>1, <4>1, MarksStay
      <4>3. m_initialized => Unaware'
        <5>1. ASSUME m_initialized PROVE At("host")' = "onHostSync"
          <6> DEFINE c == [at |-> "onHostSync"]
          <6>1. c.at = "onHostSync"
            OBVIOUS
          <6>2. Goes("host", c)
            BY <4>1, <5>1
          <6> HIDE DEF c
          <6> QED
            BY <1>1, <6>1, <6>2, AwarenessStays
        <5> QED
          BY <5>1 DEF Unaware
      <4> QED
        BY <1>3, <3>1, <3>3, <4>2, <4>3, FlagsStay DEF Synced, deviceVars
    <3>4. CASE WhiteListAdd \/ WhiteListRemove
      <4>1. UNCHANGED <<call, m_synced, m_initialized>>
        BY <3>4 DEF WhiteListAdd, WhiteListRemove
      <4>2. /\ Unaware' <=> Unaware
            /\ \A t \in Threads, i \in Instances : MarkingInstance(t, i)' <=> MarkingInstance(t, i)
        BY <4>1 DEF Unaware, MarkingInstance, At
      <4> QED
        BY <1>3, <3>1, <4>1, <4>2, FlagsStay
    <3> QED
      BY <2>3, <3>2, <3>3, <3>4 DEF DeviceStep
  <2>4. CASE SyncStep
    <3>1. UNCHANGED <<m_advStatus, stackExt, raced, m_initialized>>
      BY <2>4 DEF SyncStep, Synchronize, extVars
    <3>2. CASE m_synced' = TRUE /\ Goes("host", [at |-> "synced"])
      <4>1. Unaware'
        BY <1>1, <3>2, AwarenessStays DEF Unaware
      <4>2. At("host") # "mark instance"
        BY <2>4 DEF SyncStep, Synchronize
      <4>3. \A t \in Threads, i \in Instances : MarkingInstance(t, i)' <=> MarkingInstance(t, i)
        BY <1>1, <3>2, <4>2, MarksStay
      <4> QED
        BY <1>3, <3>1, <4>1, <4>3, FlagsStay
    <3>3. CASE UNCHANGED <<m_synced, call>>
      <4>1. /\ Unaware' <=> Unaware
            /\ \A t \in Threads, i \in Instances : MarkingInstance(t, i)' <=> MarkingInstance(t, i)
        BY <3>3 DEF Unaware, MarkingInstance, At
      <4> QED
        BY <1>3, <3>1, <3>3, <4>1, FlagsStay
    <3> QED
      BY <2>4, <3>2, <3>3 DEF SyncStep, Synchronize
  <2>5. CASE ResetStep
    <3>1. /\ stackExt' = [i \in Instances |-> NoInstance] /\ raced' = raced \cup Racing
          /\ UNCHANGED <<m_advStatus, call, m_initialized>> /\ m_synced' = FALSE
      BY <1>3, <2>5 DEF ResetStep, ExtReset, Reset
    <3>2. \A i \in Instances : ~stackExt'[i].configured
      BY <3>1, NoInstanceIsTyped
    <3>3. ASSUME NEW i \in Instances \ raced' PROVE Mirrored(i)'
      <4>1. i \notin Racing /\ Mirrored(i)
        BY <2>2, <3>1, <3>3
      <4>2. \A t \in Threads : ~MarkingInstance(t, i)'
        BY <3>1, <4>1 DEF Racing, MarkingInstance, At
      <4> QED
        BY <3>1, <4>1, <4>2 DEF Mirrored
    <3> QED
      BY <3>2, <3>3 DEF FlagsOK
  <2>6. CASE Deinit
    <3>1. PICK stopped, clearAll \in BOOLEAN :
            /\ Deinitialized(stopped)
            /\ stackExt' = IF stopped THEN [i \in Instances |-> NoInstance] ELSE stackExt
            /\ IF clearAll
               THEN /\ m_advStatus' = AllStopped
                    /\ raced' = IF stopped THEN {} ELSE {i \in Instances : stackExt[i].active}
               ELSE /\ UNCHANGED m_advStatus
                    /\ raced' = raced \cup {i \in Instances : stopped /\ m_advStatus[i]}
      BY <2>6 DEF Deinit
    <3>2. \A t \in Threads, i \in Instances : ~MarkingInstance(t, i) /\ ~MarkingInstance(t, i)'
      BY <3>1 DEF Deinitialized, MarkingInstance, At, Threads
    <3>3. CASE stopped
      <4>1. \A i \in Instances : ~stackExt'[i].configured /\ ~stackExt'[i].active
        BY <3>1, <3>3, NoInstanceIsTyped
      <4>2. \A i \in Instances \ raced' : m_advStatus'[i] = FALSE
        BY <2>1, <3>1, <3>3 DEF AllStopped
      <4>3. ~m_synced'
        BY <3>1, <3>3 DEF Deinitialized
      <4> QED
        BY <3>2, <4>1, <4>2, <4>3 DEF FlagsOK, Mirrored
    <3>4. CASE ~stopped
      <4>1. UNCHANGED <<stackExt, m_initialized, m_synced, call>>
        BY <3>1, <3>4 DEF Deinitialized
      <4>2. CASE clearAll
        <5>1. \A i \in Instances \ raced' : ~stackExt'[i].active /\ m_advStatus'[i] = FALSE
          BY <3>1, <3>4, <4>1, <4>2 DEF AllStopped
        <5>2. \A i \in Instances \ raced' : Mirrored(i)'
          BY <2>1, <3>2, <4>1, <5>1 DEF Mirrored, StackInstance
        <5> QED
          BY <1>1, <4>1, <5>2 DEF FlagsOK
      <4>3. CASE ~clearAll
        <5>1. UNCHANGED <<m_advStatus, raced>>
          BY <3>1, <3>4, <4>3
        <5>2. Unaware' <=> Unaware
          BY <4>1 DEF Unaware, At
        <5> QED
          BY <1>3, <3>2, <4>1, <5>1, <5>2, FlagsStay
      <4> QED
        BY <4>2, <4>3
    <3> QED
      BY <3>3, <3>4
  <2>7. CASE ExtStep
    <3>1. CASE SetInstanceData
      <4>1. UNCHANGED <<m_advStatus, raced, call, m_synced, m_initialized>> /\ m_initialized
        BY <3>1 DEF SetInstanceData, deviceVars
      <4>2. \A i \in Instances : stackExt'[i].active = stackExt[i].active
        <5>1. PICK i \in Instances, d \in BOOLEAN :
                stackExt' = [stackExt EXCEPT ![i].configured = TRUE, ![i].data = d]
          BY <3>1 DEF SetInstanceData
        <5> DEFINE q == [stackExt[i] EXCEPT !.configured = TRUE]
                   r == [q EXCEPT !.data = d]
        <5>2. stackExt' = [[stackExt EXCEPT ![i] = q] EXCEPT ![i] = r]
          BY <1>1, <5>1 DEF ExtOK
        <5>3. q \in StackInstance /\ q.active = stackExt[i].active
          BY <2>1, InstanceIsTyped
        <5>4. r.active = q.active
          <6> HIDE DEF q
          <6> QED
            BY <5>3, InstanceIsTyped
        <5> HIDE DEF q, r
        <5> QED
          BY <1>1, <5>2, <5>3, <5>4 DEF ExtOK
      <4>3. /\ Unaware' <=> Unaware
            /\ \A t \in Threads, i \in Instances : MarkingInstance(t, i)' <=> MarkingInstance(t, i)
        BY <4>1 DEF Unaware, MarkingInstance, At
      <4> QED
        BY <2>2, <4>1, <4>2, <4>3 DEF FlagsOK, Mirrored
    <3>2. ASSUME NEW i \in Instances, NEW r \in StackInstance,
                 stackExt' = [stackExt EXCEPT ![i] = r],
                 m_advStatus' = [m_advStatus EXCEPT ![i] = FALSE],
                 ~r.active, r.configured => stackExt[i].configured,
                 \A j \in Instances \ {i} : j \in raced => j \in raced',
                 i \in Racing => i \in raced',
                 \A t \in Threads, j \in Instances : MarkingInstance(t, j)' <=> MarkingInstance(t, j),
                 Unaware' <=> Unaware, UNCHANGED <<m_synced, m_initialized>>
          PROVE  FlagsOK'
      <4>1. ASSUME NEW j \in Instances \ raced' PROVE Mirrored(j)'
        <5>1. CASE j = i
          <6>1. \A t \in Threads : ~MarkingInstance(t, i)'
            BY <3>2, <4>1, <5>1 DEF Racing
          <6>2. m_advStatus'[i] = FALSE /\ stackExt'[i].active = FALSE
            BY <1>1, <3>2 DEF ExtOK, StackInstance
          <6> QED
            BY <5>1, <6>1, <6>2 DEF Mirrored
        <5>2. CASE j # i
          <6>1. Mirrored(j) /\ m_advStatus'[j] = m_advStatus[j] /\ stackExt'[j] = stackExt[j]
            BY <1>1, <2>2, <3>2, <4>1, <5>2 DEF ExtOK
          <6> QED
            BY <3>2, <6>1 DEF Mirrored
        <5> QED
          BY <5>1, <5>2
      <4>2. ~m_initialized' => \A j \in Instances : ~stackExt'[j].configured
        BY <1>1, <3>2 DEF FlagsOK, ExtOK
      <4> QED
        BY <4>1, <4>2 DEF FlagsOK
    <3>3. CASE StopInstance \/ RemoveInstance \/ InstanceComplete
      <4>1. PICK i \in Instances :
              /\ \/ stackExt' = [stackExt EXCEPT ![i].active = FALSE]
                 \/ stackExt' = [stackExt EXCEPT ![i] = NoInstance]
                 \/ stackExt' = [stackExt EXCEPT ![i] = [@ EXCEPT !.active = FALSE]]
              /\ m_advStatus' = [m_advStatus EXCEPT ![i] = FALSE]
              /\ \A j \in Instances \ {i} : j \in raced => j \in raced'
              /\ i \in Racing => i \in raced'
        BY <3>3 DEF StopInstance, RemoveInstance, InstanceComplete, Ended
      <4>2. PICK r \in StackInstance : /\ stackExt' = [stackExt EXCEPT ![i] = r]
                                       /\ ~r.active /\ (r.configured => stackExt[i].configured)
        <5>1. /\ [stackExt[i] EXCEPT !.active = FALSE] \in StackInstance
              /\ ~[stackExt[i] EXCEPT !.active = FALSE].active
              /\ [stackExt[i] EXCEPT !.active = FALSE].configured = stackExt[i].configured
          BY <2>1, InstanceIsTyped
        <5> QED
          BY <4>1, <5>1, NoInstanceIsTyped
      <4>3. UNCHANGED <<m_synced, m_initialized>>
        BY <3>3 DEF StopInstance, RemoveInstance, InstanceComplete, deviceVars
      <4>4. /\ Unaware' <=> Unaware
            /\ \A t \in Threads, j \in Instances : MarkingInstance(t, j)' <=> MarkingInstance(t, j)
        <5>1. CASE InstanceComplete
          <6>1. At("host") = "idle" /\ Goes("host", [at |-> "onStopped"])
            BY <5>1 DEF InstanceComplete
          <6>2. At("host")' = "onStopped"
            BY <1>1, <6>1, AwarenessStays
          <6> QED
            BY <1>1, <6>1, <6>2, MarksStay DEF Unaware
        <5>2. CASE StopInstance \/ RemoveInstance
          <6>1. call' = call
            BY <5>2 DEF StopInstance, RemoveInstance
          <6> QED
            BY <6>1 DEF Unaware, MarkingInstance, At
        <5> QED
          BY <3>3, <5>1, <5>2
      <4> QED
        BY <3>2, <4>1, <4>2, <4>3, <4>4
    <3>4. CASE StopAll
      <4>1. /\ stackExt' = [i \in Instances |-> NoInstance] /\ m_advStatus' = AllStopped
            /\ raced' = Racing /\ call' = call
        BY <3>4 DEF StopAll
      <4>2. ASSUME NEW i \in Instances \ raced' PROVE Mirrored(i)'
        <5>1. \A t \in Threads : ~MarkingInstance(t, i)'
          BY <4>1, <4>2 DEF Racing, MarkingInstance, At
        <5>2. m_advStatus'[i] = FALSE /\ stackExt'[i].active = FALSE
          BY <4>1 DEF AllStopped, NoInstance
        <5> QED
          BY <5>1, <5>2 DEF Mirrored
      <4> QED
        BY <4>1, <4>2, NoInstanceIsTyped DEF FlagsOK
    <3>5. CASE ExtOnHostSync
      <4>1. /\ At("host") = "onHostSync" /\ Goes("host", [at |-> "idle"])
            /\ m_advStatus' = AllStopped /\ UNCHANGED <<stackExt, m_initialized>>
            /\ raced' = Racing \cup {i \in Instances : stackExt[i].active}
        BY <3>5 DEF ExtOnHostSync, Returns, Idle, deviceVars
      <4>2. \A t \in Threads, i \in Instances : MarkingInstance(t, i)' <=> MarkingInstance(t, i)
        BY <1>1, <4>1, MarksStay
      <4>3. ASSUME NEW i \in Instances \ raced' PROVE Mirrored(i)'
        <5>1. \A t \in Threads : ~MarkingInstance(t, i)'
          BY <4>1, <4>2, <4>3 DEF Racing
        <5>2. m_advStatus'[i] = FALSE /\ stackExt'[i].active = FALSE
          BY <2>1, <4>1, <4>3 DEF AllStopped, StackInstance
        <5> QED
          BY <5>1, <5>2 DEF Mirrored
      <4> QED
        BY <1>1, <4>1, <4>3 DEF FlagsOK
    <3>6. CASE OnStoppedReturns
      <4>1. At("host") = "onStopped" /\ Goes("host", [at |-> "idle"])
        BY <3>6 DEF OnStoppedReturns, Returns, Idle
      <4>2. \A t \in Threads, i \in Instances : MarkingInstance(t, i)' <=> MarkingInstance(t, i)
        BY <1>1, <4>1, MarksStay
      <4>3. UNCHANGED <<m_advStatus, stackExt, raced, m_synced, m_initialized>> /\ ~Unaware
        BY <3>6, <4>1 DEF OnStoppedReturns, extVars, deviceVars, Unaware
      <4> QED
        BY <1>3, <4>2, <4>3, FlagsStay
    <3>7. ASSUME NEW t \in Threads, StartInstance(t) PROVE FlagsOK'
      <4>1. PICK i \in Instances :
              /\ stackExt[i].configured
              /\ stackExt' = [stackExt EXCEPT ![i].active = TRUE]
              /\ Goes(t, [at |-> "mark instance", inst |-> i])
              /\ raced' = raced \cup (Racing \cap {i})
        BY <3>7 DEF StartInstance
      <4>2. /\ UNCHANGED <<m_advStatus, m_synced, m_initialized>>
            /\ At(t) # "mark instance" /\ (t = "host" => ~Unaware)
        BY <3>7 DEF StartInstance, deviceVars, Unaware, Threads
      <4>3. /\ MarkingInstance(t, i)'
            /\ \A j \in Instances \ {i} : ~MarkingInstance(t, j) /\ ~MarkingInstance(t, j)'
            /\ \A u \in Threads \ {t}, j \in Instances : MarkingInstance(u, j)' <=> MarkingInstance(u, j)
        <5> DEFINE c == [at |-> "mark instance", inst |-> i]
        <5>1. call'[t] = c /\ \A u \in Threads : u # t => call'[u] = call[u]
          BY <1>1, <4>1, GoesLemma
        <5>2. c.at = "mark instance" /\ c.inst = i
          OBVIOUS
        <5> HIDE DEF c
        <5> QED
          BY <4>2, <5>1, <5>2 DEF MarkingInstance, At
      <4>4. m_initialized
        BY <1>1, <4>1 DEF FlagsOK
      <4>5. Unaware' <=> Unaware
        <5>1. CASE t = "host"
          <6> DEFINE c == [at |-> "mark instance", inst |-> i]
          <6>1. c.at = "mark instance"
            OBVIOUS
          <6>2. Goes(t, c)
            BY <4>1
          <6> HIDE DEF c
          <6>3. At("host")' = "mark instance"
            BY <1>1, <5>1, <6>1, <6>2, AwarenessStays
          <6> QED
            BY <4>2, <5>1, <6>3 DEF Unaware
        <5>2. CASE t # "host"
          BY <1>1, <4>1, <5>2, AwarenessStays DEF Unaware
        <5> QED
          BY <5>1, <5>2
      <4>6. stackExt'[i].active /\ \A j \in Instances \ {i} : stackExt'[j] = stackExt[j]
        <5>1. [stackExt[i] EXCEPT !.active = TRUE].active = TRUE
          BY <2>1, InstanceIsTyped
        <5> QED
          BY <1>1, <4>1, <5>1 DEF ExtOK
      <4>7. ASSUME NEW j \in Instances \ raced' PROVE Mirrored(j)'
        <5>1. CASE j = i
          BY <4>2, <4>3, <4>4, <4>6, <5>1 DEF Mirrored
        <5>2. CASE j # i
          <6>1. Mirrored(j)
            BY <2>2, <4>1, <4>7
          <6>2. \A u \in Threads : MarkingInstance(u, j)' <=> MarkingInstance(u, j)
            BY <4>3, <5>2
          <6> QED
            BY <4>2, <4>5, <4>6, <5>2, <6>1, <6>2 DEF Mirrored
        <5> QED
          BY <5>1, <5>2
      <4> QED
        BY <4>2, <4>4, <4>7 DEF FlagsOK
    <3>8. ASSUME NEW t \in Threads, StartReturns(t) PROVE FlagsOK'
      <4> DEFINE i == call[t].inst
      <4>1. i \in Instances /\ MarkingInstance(t, i)
        BY <1>1, <3>8, MarkIsTyped DEF StartReturns, MarkingInstance, At, CallOK
      <4>2. /\ At(t) = "mark instance" /\ Goes(t, [at |-> "idle"])
            /\ m_advStatus' = [m_advStatus EXCEPT ![i] = TRUE]
            /\ UNCHANGED <<stackExt, raced, m_synced, m_initialized>>
        BY <3>8 DEF StartReturns, Returns, Idle, deviceVars
      <4> HIDE DEF i
      <4>3. /\ \A j \in Instances : ~MarkingInstance(t, j)'
            /\ \A u \in Threads \ {t}, j \in Instances : MarkingInstance(u, j)' <=> MarkingInstance(u, j)
        <5>1. call'[t] = [at |-> "idle"] /\ \A u \in Threads : u # t => call'[u] = call[u]
          BY <1>1, <4>2, GoesLemma
        <5>2. call'[t].at = "idle"
          BY <5>1
        <5> QED
          BY <5>1, <5>2 DEF MarkingInstance, At
      <4>4. \A j \in Instances \ {i} : ~MarkingInstance(t, j)
        BY <4>1 DEF MarkingInstance
      <4>5. Unaware' <=> Unaware
        <5>1. CASE t = "host"
          <6> DEFINE c == [at |-> "idle"]
          <6>1. c.at = "idle"
            OBVIOUS
          <6>2. Goes(t, c)
            BY <4>2
          <6> HIDE DEF c
          <6>3. At("host")' = "idle"
            BY <1>1, <5>1, <6>1, <6>2, AwarenessStays
          <6> QED
            BY <4>2, <5>1, <6>3 DEF Unaware
        <5>2. CASE t # "host"
          BY <1>1, <4>2, <5>2, AwarenessStays DEF Unaware
        <5> QED
          BY <5>1, <5>2
      <4>6. ASSUME NEW j \in Instances \ raced' PROVE Mirrored(j)'
        <5>1. Mirrored(j)
          BY <2>2, <4>2, <4>6
        <5>2. CASE j = i
          <6>1. stackExt[i].active /\ stackExt[i].configured
            BY <2>1, <4>1, <5>1, <5>2 DEF Mirrored
          <6>2. stackExt'[i].active = TRUE /\ m_advStatus'[i] = TRUE /\ m_initialized'
            BY <1>1, <2>1, <4>1, <4>2, <6>1 DEF FlagsOK, ExtOK, StackInstance
          <6> QED
            BY <5>2, <6>2 DEF Mirrored
        <5>3. CASE j # i
          <6>1. m_advStatus'[j] = m_advStatus[j]
            BY <1>1, <4>2, <5>3 DEF ExtOK
          <6>2. \A u \in Threads : MarkingInstance(u, j)' <=> MarkingInstance(u, j)
            BY <4>3, <4>4, <5>3
          <6> QED
            BY <4>2, <4>5, <5>1, <6>1, <6>2 DEF Mirrored
        <5> QED
          BY <5>2, <5>3
      <4> QED
        BY <1>1, <4>2, <4>6 DEF FlagsOK
    <3> QED
      BY <2>7, <3>1, <3>3, <3>4, <3>5, <3>6, <3>7, <3>8, ExtStepCases
  <2> QED
    BY <1>3, <2>3, <2>4, <2>5, <2>6, <2>7 DEF Next, LegacyStep
<1> QED
  BY <1>2, <1>3

-----------------------------------------------------------------------------
(* The theorem.                                                            *)

LEMMA MirrorInit ==
  ASSUME Init
  PROVE  MirrorInv
<1>1. call = [t \in Threads |-> Idle] /\ CallOK
  BY CallTypes DEF Init, DeviceInit, CallOK
<1>2. ListOK
  BY DEF Init, DeviceInit, ListOK, IsInjective, ToSet
<1>3. DeviceOK
  BY DEF Init, DeviceInit, DeviceOK
<1>4. LegacyOK
  BY VersionsAssumption DEF Init, LegacyInit, LegacyOK, NoAdv, StackAdv
<1>5. /\ m_advStatus = AllStopped /\ stackExt = [i \in Instances |-> NoInstance]
      /\ ~m_initialized /\ ~m_synced
  BY DEF Init, DeviceInit, ExtInit, AllStopped
<1>6. ExtOK
  BY <1>5, NoInstanceIsTyped DEF ExtOK, AllStopped
<1>7. \A t \in Threads, i \in Instances : ~MarkingInstance(t, i)
  BY <1>1 DEF MarkingInstance, At, Idle
<1>8. FlagsOK
  BY <1>5, <1>7, NoInstanceIsTyped DEF FlagsOK, Mirrored, AllStopped
<1> QED
  BY <1>1, <1>2, <1>3, <1>4, <1>6, <1>8 DEF MirrorInv

LEMMA MirrorStep ==
  ASSUME MirrorInv, [Next]_vars
  PROVE  MirrorInv'
<1>1. CASE Next
  BY <1>1, CallStep, ListOKStep, DeviceOKStep, LegacyOKStep, ExtOKStep, FlagsOKStep DEF MirrorInv
<1>2. CASE UNCHANGED vars
  <2>1. UNCHANGED <<build, deviceVars, call, resets, legacyVars, extVars>>
    BY <1>2 DEF vars
  <2>2. CallOK' /\ ListOK' /\ DeviceOK'
    BY <2>1 DEF MirrorInv, CallOK, ListOK, DeviceOK, deviceVars
  <2>3. LegacyOK'
    BY <2>1 DEF MirrorInv, LegacyOK, legacyVars, advVars, deviceVars, Legacy
  <2>4. ExtOK'
    BY <2>1 DEF MirrorInv, ExtOK, extVars, deviceVars, Legacy
  <2>5. FlagsOK'
    BY <2>1 DEF MirrorInv, FlagsOK, Mirrored, MarkingInstance, Unaware, At, extVars, deviceVars, Legacy
  <2> QED
    BY <2>2, <2>3, <2>4, <2>5 DEF MirrorInv
<1> QED
  BY <1>1, <1>2

LEMMA MirrorImplies ==
  ASSUME MirrorInv
  PROVE  MirrorIsExact
<1>1. CallOK /\ ListOK /\ DeviceOK /\ LegacyOK /\ ExtOK /\ FlagsOK
  BY DEF MirrorInv
<1>2. TypeOK
  BY <1>1 DEF TypeOK, ListOK, DeviceOK, LegacyOK, ExtOK, StackAdv
<1>3. ASSUME m_synced, Quiet, NEW i \in Instances \ raced
      PROVE  m_advStatus[i] = stackExt[i].active
  <2>1. ~Unaware /\ \A t \in Threads : ~MarkingInstance(t, i)
    BY <1>3 DEF Quiet, Unaware, MarkingInstance, Threads
  <2>2. CASE Legacy
    <3>1. m_advStatus[i] = FALSE /\ stackExt[i] = NoInstance
      BY <1>1, <2>2 DEF ExtOK, AllStopped
    <3>2. NoInstance.active = FALSE
      BY DEF NoInstance
    <3> QED
      BY <3>1, <3>2
  <2>3. CASE ~Legacy
    BY <1>1, <1>3, <2>1, <2>3 DEF FlagsOK, Mirrored
  <2> QED
    BY <2>2, <2>3
<1> QED
  BY <1>1, <1>2, <1>3 DEF MirrorIsExact, ListOK

\* Through any starts, ends, resets and new initializations the flags of the
\* instances and the white list are those of the stack, but for the windows that
\* raced and listLost name (NimBLEExtAdvertising.cpp, NimBLEDevice.cpp).
THEOREM MirrorHolds == Spec => []MirrorIsExact
<1>1. Init => MirrorInv
  BY MirrorInit
<1>2. MirrorInv /\ [Next]_vars => MirrorInv'
  BY MirrorStep
<1>3. MirrorInv => MirrorIsExact
  BY MirrorImplies
<1> QED
  BY <1>1, <1>2, <1>3, PTL DEF Spec

-----------------------------------------------------------------------------
(* m_advDataSet is right, for any contents and any number of resets.       *)

\* The data that a thread has given to the stack and is about to mark as given.
Marked(t) == IF At(t) = "custom mark" THEN call[t].data ELSE m_advData

\* Unless the history excuses it: at most one thread is about to set the flag, and
\* the stack has its data; whoever starts on the strength of the flag finds data;
\* and once nobody is about to set the flag, and onHostSync() is not due, it is right.
DataOK ==
  ~misled =>
    /\ \A t \in Threads : Marking(t) => stackAdv.adv = Marked(t) \/ stackAdv.old
    /\ \A t \in Threads : Relying(t) => stackAdv.adv # None
    /\ \A t, u \in Threads : Marking(t) /\ Marking(u) => t = u
    /\ stackAdv.active => stackAdv.adv # None
    /\ (m_advDataSet /\ m_synced /\ ~Unaware /\ \A t \in Threads : ~Marking(t))
         => stackAdv.adv # None /\ (stackAdv.old \/ stackAdv.adv = m_advData)
    /\ ~m_initialized => ~m_advDataSet

\* Before init() returns nobody starts anything.
PhaseOK ==
  ~m_initialized =>
    /\ At("host") \in {"idle", "synced"}
    /\ At("app") \in {"idle", "initializing"}
    /\ At("app") = "idle" => ~stackUp
    /\ ~stackAdv.active

ServedInv ==
  /\ MirrorInv
  /\ Legacy => DataOK /\ PhaseOK
  /\ ~Legacy => ~m_advDataSet

-----------------------------------------------------------------------------
(* Moves.                                                                  *)

MovesTo(t, a) ==
  /\ At(t)' = a
  /\ \A u \in Threads : u # t => At(u)' = At(u) /\ call'[u] = call[u]

LEMMA Moves ==
  ASSUME CallOK, NEW t \in Threads, NEW c, Goes(t, c), NEW a, c.at = a
  PROVE  MovesTo(t, a) /\ call'[t] = c
BY GoesLemma DEF MovesTo, At

LEMMA MovesAt ==
  ASSUME CallOK, NEW t \in Threads, NEW a, Goes(t, [at |-> a])
  PROVE  MovesTo(t, a)
<1> DEFINE c == [at |-> a]
<1>1. c.at = a /\ Goes(t, c)
  OBVIOUS
<1> HIDE DEF c
<1> QED
  BY <1>1, Moves

LEMMA MovesBack ==
  ASSUME CallOK, NEW t \in Threads, Returns(t)
  PROVE  MovesTo(t, "idle")
BY MovesAt DEF Returns, Idle

LEMMA MovesInStart ==
  ASSUME CallOK, NEW t \in Threads, NEW a \in InStart, At(t) \in InStart,
         Goes(t, [call[t] EXCEPT !.at = a])
  PROVE  MovesTo(t, a)
<1>1. call[t] \in [at : InStart, duration : {Endless, Finite}]
  <2>1. call[t] \in Call /\ call[t].at \in InStart
    BY DEF CallOK, At
  <2> QED
    BY <2>1 DEF Call, NoArgument, InStart
<1> DEFINE c == [call[t] EXCEPT !.at = a]
<1>2. c.at = a /\ Goes(t, c)
  BY <1>1
<1> HIDE DEF c
<1> QED
  BY <1>2, Moves

LEMMA MovesToStart ==
  ASSUME CallOK, NEW t \in Threads, NEW d, Goes(t, Starting(t, d))
  PROVE  MovesTo(t, "start")
<1> DEFINE c == Starting(t, d)
<1>1. c.at = "start" /\ Goes(t, c)
  BY DEF Starting
<1> HIDE DEF c
<1> QED
  BY <1>1, Moves

\* A step that neither gives data nor sets or clears the flag.
LEMMA DataStays ==
  ASSUME DataOK, m_advDataSet' = m_advDataSet, stackAdv'.adv = stackAdv.adv,
         stackAdv'.old \/ (m_advData' = m_advData /\ stackAdv'.old = stackAdv.old),
         ~misled' => ~misled,
         \A t \in Threads : Marking(t)' <=> Marking(t),
         \A t \in Threads : Marking(t) => At(t)' = At(t) /\ call'[t] = call[t],
         \A t \in Threads : Relying(t)' => Relying(t),
         stackAdv'.active => stackAdv.active \/ \E t \in Threads : Relying(t),
         m_advDataSet /\ m_synced' /\ ~Unaware' => misled \/ (m_synced /\ ~Unaware),
         ~m_initialized' => ~m_initialized
  PROVE  DataOK'
<1>1. ASSUME ~misled'
      PROVE  \A t \in Threads : Marking(t)' => stackAdv'.adv = Marked(t)' \/ stackAdv'.old
  BY <1>1 DEF DataOK, Marked
<1> QED
  BY <1>1 DEF DataOK

\* A step after which the flag is not set and nobody relies on it.
LEMMA DataIsVoid ==
  ASSUME m_advDataSet' = FALSE, \A t \in Threads : ~Relying(t)',
         ~misled' => (stackAdv'.active => stackAdv'.adv # None)
  PROVE  DataOK'
BY DEF DataOK, Relying

-----------------------------------------------------------------------------
(* The steps of start().                                                   *)

LEMMA DataIsNotNone ==
  ASSUME MirrorInv
  PROVE  /\ m_advData # None
         /\ \A t \in Threads : At(t) = "custom mark" => call[t].data # None
         /\ \A t \in Threads : Marking(t) => Marked(t) # None
<1>1. m_advData \in Versions /\ None \notin Versions /\ \A t \in Threads : call[t] \in Call
  BY VersionsAssumption DEF MirrorInv, LegacyOK, CallOK
<1>2. \A t \in Threads : At(t) = "custom mark" => call[t].data \in Versions
  BY <1>1, MarkIsTyped DEF At
<1> QED
  BY <1>1, <1>2 DEF Marked

LEMMA StartsInitialized ==
  ASSUME PhaseOK, NEW t \in Threads, At(t) \notin {"idle", "initializing", "synced"}
  PROVE  m_initialized
BY DEF PhaseOK, Threads

\* The flag is found set: there are data.
LEMMA FoundSet ==
  ASSUME MirrorInv, DataOK, m_advDataSet, m_synced, ~Unaware, ~misled
  PROVE  stackAdv.adv # None
<1>1. CASE \E t \in Threads : Marking(t)
  BY <1>1 DEF DataOK, Relying
<1>2. CASE \A t \in Threads : ~Marking(t)
  BY <1>2, DataIsNotNone DEF DataOK
<1> QED
  BY <1>1, <1>2

\* A thread has given data that it is about to mark.
LEMMA GivenStep ==
  ASSUME MirrorInv, DataOK, PhaseOK, m_initialized, m_initialized',
         NEW t \in Threads, NEW v \in Versions, NEW a \in {"mark", "custom mark", "refresh mark"},
         MovesTo(t, a), v = IF a = "custom mark" THEN call'[t].data ELSE m_advData,
         misled' = (misled \/ \E u \in Threads \ {t} : Marking(u)),
         stackAdv' = [stackAdv EXCEPT !.adv = v, !.old = FALSE], UNCHANGED <<m_advData, m_advDataSet>>
  PROVE  DataOK'
<1>1. stackAdv'.adv = v /\ v # None
  BY VersionsAssumption DEF MirrorInv, LegacyOK, StackAdv
<1>2. SUFFICES ASSUME ~misled' PROVE DataOK'
  BY DEF DataOK
<1>3. Marking(t)' /\ \A u \in Threads : u # t => ~Marking(u)'
  BY <1>2 DEF MovesTo, Marking
<1>4. Marked(t)' = v
  BY DEF Marked, MovesTo
<1> QED
  BY <1>1, <1>2, <1>3, <1>4 DEF DataOK

\* A thread marks the data that it has given.
LEMMA MarkedStep ==
  ASSUME MirrorInv, DataOK, PhaseOK, NEW t \in Threads, Marking(t), NEW a, MovesTo(t, a),
         a \notin {"mark", "custom mark", "refresh mark"},
         m_advDataSet' = TRUE, m_advData' = Marked(t),
         UNCHANGED <<stackAdv, misled, m_initialized>>
  PROVE  DataOK'
<1>1. SUFFICES ASSUME ~misled' PROVE DataOK'
  BY DEF DataOK
<1>2. /\ ~misled /\ stackAdv'.adv # None /\ (stackAdv'.old \/ stackAdv'.adv = m_advData')
      /\ \A u \in Threads : Marking(u) => u = t
  BY <1>1 DEF DataOK, Relying
<1>3. \A u \in Threads : ~Marking(u)'
  BY <1>2 DEF MovesTo, Marking
<1>4. m_initialized'
  <2>1. At(t) \notin {"idle", "initializing", "synced"}
    BY DEF Marking
  <2> QED
    BY <2>1, StartsInitialized
<1> QED
  BY <1>2, <1>3, <1>4 DEF DataOK

\* A thread goes on in start() without touching data or flag.
LEMMA GoesOn ==
  ASSUME MirrorInv, DataOK, NEW t \in Threads, ~Marking(t), ~Unaware \/ t # "host", NEW a, MovesTo(t, a),
         a \notin {"mark", "custom mark", "refresh mark"}, a \notin {"synced", "onHostSync"},
         a \in {"rsp", "duration", "go"} => Relying(t),
         UNCHANGED <<m_advData, m_advDataSet, misled, m_synced, m_initialized>>,
         stackAdv'.adv = stackAdv.adv, stackAdv'.old = stackAdv.old,
         stackAdv'.active => stackAdv.active \/ Relying(t)
  PROVE  DataOK'
<1>1. \A u \in Threads : Marking(u)' <=> Marking(u)
  BY DEF MovesTo, Marking
<1>2. \A u \in Threads : Marking(u) => At(u)' = At(u) /\ call'[u] = call[u]
  BY DEF MovesTo
<1>3. \A u \in Threads : Relying(u)' => Relying(u)
  BY DEF MovesTo, Marking, Relying
<1>4. ~Unaware' => ~Unaware
  BY DEF MovesTo, Unaware, Threads
<1> QED
  BY <1>1, <1>2, <1>3, <1>4, DataStays

LEMMA StartKeepsData ==
  ASSUME ServedInv, Legacy, NEW t \in Threads, LegacyStart(t)
  PROVE  DataOK' /\ PhaseOK'
<1>1. MirrorInv /\ DataOK /\ PhaseOK /\ CallOK
  BY DEF ServedInv, MirrorInv
<1>2. At(t) \in InStart
  BY DEF LegacyStart, StartCheck, StartData, StartMark, StartResponse, StartDuration, StartGo, InStart
<1>3. /\ UNCHANGED <<m_advData, m_synced, m_initialized>>
      /\ m_initialized
  <2>1. UNCHANGED <<m_advData, m_synced, m_initialized>>
    BY DEF LegacyStart, StartCheck, StartData, StartMark, StartResponse, StartDuration, StartGo,
           deviceVars, advVars
  <2>2. At(t) \notin {"idle", "initializing", "synced"}
    BY <1>2 DEF InStart
  <2> QED
    BY <1>1, <2>1, <2>2, StartsInitialized
<1>4. PhaseOK'
  BY <1>3 DEF PhaseOK
<1>5. ~Unaware \/ t # "host"
  BY <1>2 DEF Unaware, InStart
<1>6. CASE StartCheck(t)
  <2>1. PICK a \in {"data", "idle"} : MovesTo(t, a)
    BY <1>1, <1>2, <1>6, MovesInStart, MovesBack DEF StartCheck, InStart
  <2> QED
    BY <1>1, <1>3, <1>4, <1>5, <1>6, <2>1, GoesOn DEF StartCheck, Marking, advVars
<1>7. CASE StartData(t)
  <2>1. CASE m_advDataSet
    <3>1. MovesTo(t, "duration")
      BY <1>1, <1>2, <1>7, <2>1, MovesInStart DEF StartData, InStart
    <3>2. /\ misled' = (misled \/ Unaware \/ ~m_synced) /\ UNCHANGED <<stackAdv, m_advDataSet>>
      BY <1>7, <2>1 DEF StartData, advVars
    <3>3. SUFFICES ASSUME ~misled' PROVE DataOK'
      BY <1>4 DEF DataOK
    <3>4. ~misled /\ stackAdv.adv # None
      BY <1>1, <2>1, <3>2, <3>3, FoundSet
    <3>5. \A u \in Threads : (Marking(u)' <=> Marking(u)) /\ (Marking(u) => Marked(u)' = Marked(u))
      BY <1>3, <1>7, <3>1 DEF StartData, MovesTo, Marking, Marked
    <3>6. ~Unaware' => ~Unaware
      BY <1>5, <3>1 DEF MovesTo, Unaware, Threads
    <3> QED
      BY <1>1, <1>3, <3>2, <3>4, <3>5, <3>6 DEF DataOK
  <2>2. CASE ~m_advDataSet /\ GiveData(t, m_advData, [call[t] EXCEPT !.at = "mark"])
    <3>1. MovesTo(t, "mark")
      BY <1>1, <1>2, <2>2, MovesInStart DEF GiveData, InStart
    <3>2. m_advData \in Versions
      BY <1>1 DEF MirrorInv, LegacyOK
    <3> QED
      BY <1>1, <1>3, <1>4, <1>7, <2>2, <3>1, <3>2, GivenStep DEF GiveData, StartData, advVars
  <2>3. CASE ~m_advDataSet /\ Returns(t) /\ UNCHANGED <<stackAdv, misled>>
    <3>1. MovesTo(t, "idle")
      BY <1>1, <2>3, MovesBack
    <3> QED
      BY <1>1, <1>3, <1>4, <1>5, <1>7, <2>3, <3>1, GoesOn DEF StartData, Marking, advVars
  <2> QED
    BY <1>7, <2>1, <2>2, <2>3 DEF StartData
<1>8. CASE StartMark(t)
  <2>1. MovesTo(t, "rsp")
    BY <1>1, <1>2, <1>8, MovesInStart DEF StartMark, InStart
  <2>2. Marking(t) /\ m_advData' = Marked(t)
    BY <1>3, <1>8 DEF StartMark, Marking, Marked
  <2> QED
    BY <1>1, <1>3, <1>4, <1>8, <2>1, <2>2, MarkedStep DEF StartMark
<1>9. CASE StartResponse(t)
  <2>1. /\ At(t) = "rsp" /\ UNCHANGED <<m_advDataSet, misled>>
        /\ Goes(t, [call[t] EXCEPT !.at = "duration"]) \/ Returns(t)
    BY <1>9 DEF StartResponse, advVars
  <2>2. PICK a \in {"duration", "idle"} : MovesTo(t, a)
    BY <1>1, <1>2, <2>1, MovesInStart, MovesBack DEF InStart
  <2>3. stackAdv' = stackAdv \/ stackAdv' = [stackAdv EXCEPT !.rsp = m_scanData]
    <3>1. CASE m_scanResp /\ m_scanData # None
      BY <1>9, <3>1 DEF StartResponse
    <3>2. CASE ~(m_scanResp /\ m_scanData # None)
      BY <1>9, <3>2 DEF StartResponse
    <3> QED
      BY <3>1, <3>2
  <2>4. /\ stackAdv'.adv = stackAdv.adv /\ stackAdv'.old = stackAdv.old
        /\ stackAdv'.active = stackAdv.active
    BY <1>1, <2>3 DEF MirrorInv, LegacyOK, StackAdv
  <2> QED
    BY <1>1, <1>3, <1>4, <1>5, <2>1, <2>2, <2>4, GoesOn DEF Marking, Relying
<1>10. CASE StartDuration(t)
  <2>1. MovesTo(t, "go")
    BY <1>1, <1>2, <1>10, MovesInStart DEF StartDuration, InStart
  <2> QED
    BY <1>1, <1>3, <1>4, <1>5, <1>10, <2>1, GoesOn DEF StartDuration, Marking, Relying
<1>11. CASE StartGo(t)
  <2>1. MovesTo(t, "idle")
    BY <1>1, <1>11, MovesBack DEF StartGo
  <2>2. stackAdv'.adv = stackAdv.adv /\ stackAdv'.old = stackAdv.old
    BY <1>1, <1>11 DEF StartGo, MirrorInv, LegacyOK, StackAdv
  <2> QED
    BY <1>1, <1>3, <1>4, <1>5, <1>11, <2>1, <2>2, GoesOn DEF StartGo, Marking, Relying, advVars
<1> QED
  BY <1>6, <1>7, <1>8, <1>9, <1>10, <1>11, <1>4 DEF LegacyStart

-----------------------------------------------------------------------------
(* The application's calls and the host task.                              *)

LEMMA AppKeepsData ==
  ASSUME ServedInv, Legacy, LegacyApp
  PROVE  DataOK' /\ PhaseOK'
<1>1. /\ MirrorInv /\ DataOK /\ PhaseOK /\ CallOK /\ DeviceOK /\ stackAdv \in StackAdv
      /\ "app" \in Threads
  BY DEF ServedInv, MirrorInv, LegacyOK, Threads
<1>2. UNCHANGED <<m_synced, m_initialized, stackUp>>
  BY DEF LegacyApp, CallStart, CallStop, CallReset, CallChange, CallSetMode, CallClearData, CallSetData,
         SetDataMark, CallSetResponse, CallRefresh, RefreshMark, RefreshResponse, deviceVars
<1>3. At("app") = "idle" /\ stackSynced => m_initialized
  BY <1>1 DEF PhaseOK, DeviceOK
<1>4. m_initialized => PhaseOK'
  BY <1>2 DEF PhaseOK
<1>5. ASSUME At("app") = "idle", call' = call, UNCHANGED <<m_advDataSet, misled>>,
             stackAdv'.old \/ (m_advData' = m_advData /\ stackAdv'.old = stackAdv.old),
             stackAdv'.adv = stackAdv.adv, stackAdv'.active => stackAdv.active
      PROVE  DataOK'
  <2>1. \A t \in Threads : At(t)' = At(t) /\ call'[t] = call[t]
    BY <1>5 DEF At
  <2>2. /\ \A t \in Threads : (Marking(t)' <=> Marking(t)) /\ (Relying(t)' <=> Relying(t))
        /\ Unaware' <=> Unaware
    BY <2>1 DEF Marking, Relying, Unaware, Threads
  <2> QED
    BY <1>1, <1>2, <1>5, <2>1, <2>2, DataStays
<1>6. ASSUME At("app") = "idle", call' = call, m_advDataSet' = FALSE, misled' = Void({"host"}),
             stackAdv'.adv = stackAdv.adv, stackAdv'.active => stackAdv.active
      PROVE  DataOK'
  <2>1. SUFFICES ASSUME ~misled' PROVE DataOK'
    BY DEF DataOK
  <2>2. ~Relying("host") /\ ~(misled /\ stackAdv.active)
    BY <1>6, <2>1 DEF Void
  <2>3. \A t \in Threads : ~Relying(t)'
    BY <1>6, <2>2 DEF Relying, Marking, At, Threads
  <2>4. stackAdv'.active => stackAdv'.adv # None
    BY <1>1, <1>6, <2>2 DEF DataOK
  <2> QED
    BY <1>6, <2>3, <2>4, DataIsVoid
<1>7. CASE CallStart
  <2>1. MovesTo("app", "start")
    BY <1>1, <1>7, MovesToStart DEF CallStart
  <2> QED
    BY <1>1, <1>2, <1>4, <1>7, <2>1, GoesOn DEF CallStart, legacyVars, advVars, Marking
<1>8. CASE CallStop
  <2>1. stackAdv'.adv = stackAdv.adv /\ stackAdv'.old = stackAdv.old /\ ~stackAdv'.active
    BY <1>1, <1>8 DEF CallStop, StackAdv
  <2> QED
    BY <1>3, <1>4, <1>5, <1>8, <2>1 DEF CallStop, advVars
<1>9. CASE CallReset
  <2>1. stackAdv'.adv = stackAdv.adv /\ ~stackAdv'.active
    BY <1>1, <1>9 DEF CallReset, StackAdv
  <2>2. PhaseOK'
    BY <1>1, <1>2, <1>9, <2>1 DEF CallReset, PhaseOK, At
  <2> QED
    BY <1>6, <1>9, <2>1, <2>2 DEF CallReset, Fresh
<1>10. CASE CallChange \/ CallClearData
  <2>1. PhaseOK'
    BY <1>1, <1>2, <1>10 DEF CallChange, CallSetMode, CallClearData, PhaseOK, At
  <2> QED
    BY <1>6, <1>10, <2>1 DEF CallChange, CallSetMode, CallClearData, Changed
<1>11. CASE CallSetData
  <2>1. PICK v \in Versions : GiveData("app", v, [at |-> "custom mark", data |-> v])
    BY <1>11 DEF CallSetData
  <2> DEFINE c == [at |-> "custom mark", data |-> v]
  <2>2. c.at = "custom mark" /\ c.data = v /\ Goes("app", c)
    BY <2>1 DEF GiveData
  <2> HIDE DEF c
  <2>3. MovesTo("app", "custom mark") /\ call'["app"].data = v
    BY <1>1, <2>2, Moves
  <2>4. m_initialized /\ UNCHANGED <<m_advData, m_advDataSet>>
    BY <1>3, <1>11, <2>1 DEF CallSetData, GiveData, advVars
  <2> QED
    BY <1>1, <1>2, <1>4, <2>1, <2>3, <2>4, GivenStep DEF GiveData
<1>12. CASE SetDataMark \/ RefreshMark
  <2>1. PICK a \in {"idle", "refresh rsp"} : MovesTo("app", a)
    BY <1>1, <1>12, MovesAt, MovesBack DEF SetDataMark, RefreshMark
  <2>2. Marking("app") /\ m_advDataSet' = TRUE /\ m_advData' = Marked("app")
    BY <1>12 DEF SetDataMark, RefreshMark, Marking, Marked
  <2>3. m_initialized
    <3>1. At("app") \notin {"idle", "initializing", "synced"}
      BY <2>2 DEF Marking
    <3> QED
      BY <1>1, <3>1, StartsInitialized
  <2> QED
    BY <1>1, <1>2, <1>4, <1>12, <2>1, <2>2, <2>3, MarkedStep DEF SetDataMark, RefreshMark
<1>13. ASSUME NEW v, GiveResponse(v)
       PROVE  /\ stackAdv'.adv = stackAdv.adv /\ stackAdv'.old = stackAdv.old
              /\ stackAdv'.active = stackAdv.active
  BY <1>1, <1>13 DEF GiveResponse, StackAdv
<1>14. CASE CallSetResponse
  <2>1. PICK v \in Responses : GiveResponse(v)
    BY <1>14 DEF CallSetResponse
  <2>2. At("app") = "idle" /\ stackSynced
    BY <1>14, <2>1 DEF CallSetResponse, GiveResponse
  <2> QED
    BY <1>3, <1>4, <1>5, <1>13, <1>14, <2>1, <2>2 DEF CallSetResponse
<1>15. CASE CallRefresh
  <2>1. CASE GiveData("app", m_advData, [at |-> "refresh mark"])
    <3>1. MovesTo("app", "refresh mark")
      BY <1>1, <2>1, MovesAt DEF GiveData
    <3>2. m_advData \in Versions
      BY <1>1 DEF MirrorInv, LegacyOK
    <3> QED
      BY <1>1, <1>2, <1>4, <1>15, <2>1, <3>1, <3>2, GivenStep DEF GiveData, CallRefresh, advVars
  <2>2. CASE Goes("app", [at |-> "refresh rsp"]) /\ UNCHANGED <<stackAdv, misled>>
    <3>1. MovesTo("app", "refresh rsp")
      BY <1>1, <2>2, MovesAt
    <3> QED
      BY <1>1, <1>2, <1>4, <1>15, <2>2, <3>1, GoesOn DEF CallRefresh, advVars, Marking
  <2> QED
    BY <1>15, <2>1, <2>2 DEF CallRefresh
<1>16. CASE RefreshResponse
  <2>1. At("app") = "refresh rsp" /\ MovesTo("app", "idle")
    BY <1>1, <1>16, MovesBack DEF RefreshResponse
  <2>2. /\ stackAdv'.adv = stackAdv.adv /\ stackAdv'.old = stackAdv.old
        /\ stackAdv'.active = stackAdv.active
    BY <1>13, <1>16 DEF RefreshResponse
  <2>3. m_initialized
    BY <1>1, <2>1, StartsInitialized
  <2> QED
    BY <1>1, <1>2, <1>4, <1>16, <2>1, <2>2, <2>3, GoesOn DEF RefreshResponse, Marking
<1>17. CASE CallSetMode
  <2>1. /\ stackAdv'.adv = stackAdv.adv /\ stackAdv'.active = stackAdv.active
        /\ stackAdv'.old = (stackAdv.old \/ m_advData' # m_advData)
    BY <1>1, <1>17 DEF CallSetMode, StackAdv
  <2>2. stackAdv'.old \/ (m_advData' = m_advData /\ stackAdv'.old = stackAdv.old)
    BY <1>1, <2>1 DEF StackAdv
  <2>3. PhaseOK'
    BY <1>1, <1>2, <1>17, <2>1 DEF CallSetMode, PhaseOK, At
  <2> QED
    BY <1>5, <1>17, <2>1, <2>2, <2>3 DEF CallSetMode
<1> QED
  BY <1>7, <1>8, <1>9, <1>10, <1>11, <1>12, <1>14, <1>15, <1>16, <1>17 DEF LegacyApp

LEMMA HostKeepsData ==
  ASSUME ServedInv, Legacy, LegacyHost
  PROVE  DataOK' /\ PhaseOK'
<1>1. /\ MirrorInv /\ DataOK /\ PhaseOK /\ CallOK /\ stackAdv \in StackAdv
      /\ "host" \in Threads
  BY DEF ServedInv, MirrorInv, LegacyOK, Threads
<1>2. UNCHANGED <<m_synced, m_initialized, stackUp>>
  BY DEF LegacyHost, OnHostSync, Complete, CallbackReturns, StartedByServer, deviceVars
<1>3. m_initialized => PhaseOK'
  BY <1>2 DEF PhaseOK
<1>4. CASE OnHostSync
  <2>1. PICK a \in {"start", "callback"} : MovesTo("host", a)
    <3>1. CASE Goes("host", Starting("host", m_duration))
      BY <1>1, <3>1, MovesToStart
    <3>2. CASE Goes("host", [at |-> "callback"])
      BY <1>1, <3>2, MovesAt
    <3> QED
      BY <1>4, <3>1, <3>2 DEF OnHostSync
  <2>2. m_initialized
    <3>1. At("host") = "onHostSync"
      BY <1>4 DEF OnHostSync
    <3> QED
      BY <1>1, <3>1, StartsInitialized
  <2>3. SUFFICES ASSUME ~misled' PROVE DataOK'
    BY <1>3, <2>2 DEF DataOK
  <2>4. ~Relying("app") /\ ~(misled /\ stackAdv.active)
    BY <1>4, <2>3 DEF OnHostSync, Void
  <2>5. \A t \in Threads : ~Relying(t)'
    BY <2>1, <2>4 DEF Relying, Marking, MovesTo, Threads
  <2>6. stackAdv' = stackAdv /\ (stackAdv.active => stackAdv.adv # None)
    BY <1>1, <1>4, <2>4 DEF OnHostSync, DataOK
  <2> QED
    BY <1>4, <2>5, <2>6, DataIsVoid DEF OnHostSync, Cleared
<1>5. CASE Complete
  <2>1. /\ stackAdv'.adv = stackAdv.adv /\ stackAdv'.old = stackAdv.old
        /\ ~stackAdv'.active /\ stackAdv.active
        /\ UNCHANGED <<m_advData, m_advDataSet, misled>>
    BY <1>1, <1>5 DEF Complete, StackAdv, advVars
  <2>2. m_initialized
    BY <1>1, <2>1 DEF PhaseOK
  <2>3. CASE Goes("host", [at |-> "callback"])
    <3>1. MovesTo("host", "callback")
      BY <1>1, <2>3, MovesAt
    <3> QED
      BY <1>1, <1>2, <1>3, <1>5, <2>1, <2>2, <3>1, GoesOn DEF Complete, Marking, Unaware
  <2>4. CASE UNCHANGED call
    <3>1. \A t \in Threads : At(t)' = At(t) /\ call'[t] = call[t]
      BY <2>4 DEF At
    <3>2. /\ \A t \in Threads : (Marking(t)' <=> Marking(t)) /\ (Relying(t)' <=> Relying(t))
          /\ Unaware' <=> Unaware
      BY <3>1 DEF Marking, Relying, Unaware, Threads
    <3> QED
      BY <1>1, <1>2, <1>3, <2>1, <2>2, <3>1, <3>2, DataStays
  <2> QED
    BY <1>5, <2>3, <2>4 DEF Complete
<1>6. CASE CallbackReturns \/ StartedByServer
  <2>1. PICK a \in {"idle", "start"} : MovesTo("host", a)
    BY <1>1, <1>6, MovesBack, MovesToStart DEF CallbackReturns, StartedByServer
  <2>2. At("host") \in {"idle", "callback"} /\ m_initialized
    BY <1>1, <1>6, StartsInitialized DEF CallbackReturns, StartedByServer
  <2> QED
    BY <1>1, <1>2, <1>3, <1>6, <2>1, <2>2, GoesOn
       DEF CallbackReturns, StartedByServer, legacyVars, advVars, Marking, Unaware
<1> QED
  BY <1>4, <1>5, <1>6 DEF LegacyHost

-----------------------------------------------------------------------------
(* The device.                                                             *)

LEMMA DeviceKeepsData ==
  ASSUME ServedInv, Legacy, DeviceStep \/ SyncStep
  PROVE  DataOK' /\ PhaseOK'
<1>1. /\ MirrorInv /\ DataOK /\ PhaseOK /\ CallOK
      /\ "app" \in Threads /\ "host" \in Threads
  BY DEF ServedInv, MirrorInv, Threads
<1>2. UNCHANGED <<m_advData, m_advDataSet, misled, stackAdv>>
  BY DEF DeviceStep, SyncStep, legacyVars, advVars
<1>3. ASSUME NEW t \in Threads, NEW a, MovesTo(t, a), At(t) \in {"idle", "initializing", "synced"},
             a \in {"idle", "initializing", "synced", "onHostSync"}
      PROVE  /\ \A u \in Threads : (Marking(u)' <=> Marking(u)) /\ (Relying(u)' <=> Relying(u))
             /\ \A u \in Threads : Marking(u) => At(u)' = At(u) /\ call'[u] = call[u]
  BY <1>3 DEF MovesTo, Marking, Relying
<1>4. CASE Initialize \/ Initialized
  <2>1. PICK a \in {"idle", "initializing"} :
          /\ MovesTo("app", a)
          /\ a = "idle" => m_initialized'
    BY <1>1, <1>4, MovesAt, MovesBack DEF Initialize, Initialized
  <2>2. /\ At("app") \in {"idle", "initializing"} /\ m_synced' = m_synced
        /\ ~m_initialized' => ~m_initialized
    BY <1>4 DEF Initialize, Initialized
  <2>3. At("host")' = At("host") /\ (Unaware' <=> Unaware)
    BY <2>1 DEF MovesTo, Unaware, Threads
  <2>4. DataOK'
    BY <1>1, <1>2, <1>3, <2>1, <2>2, <2>3, DataStays
  <2>5. PhaseOK'
    BY <1>1, <1>2, <2>1, <2>2, <2>3 DEF PhaseOK, MovesTo
  <2> QED
    BY <2>4, <2>5
<1>5. CASE Synced
  <2>1. PICK a \in {"idle", "onHostSync"} :
          /\ MovesTo("host", a)
          /\ m_initialized <=> a = "onHostSync"
    BY <1>1, <1>5, MovesAt, MovesBack DEF Synced
  <2>2. At("host") = "synced" /\ UNCHANGED <<m_synced, m_initialized, stackUp>>
    BY <1>5 DEF Synced, deviceVars
  <2>3. m_initialized => Unaware'
    BY <2>1 DEF MovesTo, Unaware
  <2>4. ~m_initialized => ~m_advDataSet \/ misled
    BY <1>1 DEF DataOK
  <2>5. DataOK'
    BY <1>1, <1>2, <1>3, <2>1, <2>2, <2>3, <2>4, DataStays
  <2>6. PhaseOK'
    BY <1>1, <1>2, <2>1, <2>2 DEF PhaseOK, MovesTo, Threads
  <2> QED
    BY <2>5, <2>6
<1>6. CASE SyncStep
  <2>1. At("host") = "idle" /\ UNCHANGED <<m_initialized, stackUp>>
    BY <1>6 DEF SyncStep, Synchronize
  <2>2. CASE m_synced' = TRUE /\ Goes("host", [at |-> "synced"])
    <3>1. MovesTo("host", "synced")
      BY <1>1, <2>2, MovesAt
    <3>2. Unaware'
      BY <3>1 DEF MovesTo, Unaware
    <3>3. DataOK'
      BY <1>1, <1>2, <1>3, <2>1, <3>1, <3>2, DataStays
    <3>4. PhaseOK'
      BY <1>1, <1>2, <2>1, <3>1 DEF PhaseOK, MovesTo, Threads
    <3> QED
      BY <3>3, <3>4
  <2>3. CASE UNCHANGED <<m_synced, call>>
    <3>1. \A t \in Threads : At(t)' = At(t) /\ call'[t] = call[t]
      BY <2>3 DEF At
    <3>2. /\ \A t \in Threads : (Marking(t)' <=> Marking(t)) /\ (Relying(t)' <=> Relying(t))
          /\ Unaware' <=> Unaware
      BY <3>1 DEF Marking, Relying, Unaware, Threads
    <3>3. DataOK'
      BY <1>1, <1>2, <2>1, <2>3, <3>1, <3>2, DataStays
    <3>4. PhaseOK'
      BY <1>1, <1>2, <2>1, <3>1 DEF PhaseOK
    <3> QED
      BY <3>3, <3>4
  <2> QED
    BY <1>6, <2>2, <2>3 DEF SyncStep, Synchronize
<1> QED
  BY <1>4, <1>5, <1>6 DEF DeviceStep

LEMMA ResetKeepsData ==
  ASSUME ServedInv, Legacy, ResetStep
  PROVE  DataOK' /\ PhaseOK'
<1>1. DataOK /\ PhaseOK
  BY DEF ServedInv
<1>2. /\ stackAdv' = NoAdv /\ misled' = (misled \/ \E t \in Threads : Relying(t))
      /\ UNCHANGED <<m_advData, m_advDataSet, m_initialized, stackUp, call>> /\ m_synced' = FALSE
  BY DEF ResetStep, AdvReset, Reset, advVars
<1>3. \A t \in Threads : At(t)' = At(t)
  BY <1>2 DEF At
<1>4. \A t \in Threads : (Relying(t)' <=> Relying(t)) /\ (Marking(t)' => Relying(t))
  BY <1>3 DEF Relying, Marking
<1>5. NoAdv.active = FALSE
  BY DEF NoAdv
<1>6. DataOK'
  BY <1>1, <1>2, <1>4, <1>5 DEF DataOK
<1>7. PhaseOK'
  BY <1>1, <1>2, <1>3, <1>5 DEF PhaseOK, Threads
<1> QED
  BY <1>6, <1>7

LEMMA DeinitKeepsData ==
  ASSUME ServedInv, Legacy, Deinit
  PROVE  DataOK' /\ PhaseOK'
<1>1. DataOK /\ PhaseOK
  BY DEF ServedInv
<1>2. PICK stopped, clearAll \in BOOLEAN :
        /\ Deinitialized(stopped)
        /\ stackAdv' = IF stopped THEN NoAdv ELSE stackAdv
        /\ IF clearAll
           THEN Fresh /\ misled' = (misled /\ ~stopped)
           ELSE UNCHANGED advVars /\ misled' = (misled \/ (stopped /\ m_advDataSet))
  BY DEF Deinit
<1>3. /\ \A t \in Threads : At(t) = "idle" /\ At(t)' = At(t)
      /\ NoAdv.active = FALSE
  BY <1>2 DEF Deinitialized, At, Threads, NoAdv
<1>4. \A t \in Threads : ~Relying(t)' /\ ~Marking(t)' /\ ~Marking(t)
  BY <1>3 DEF Relying, Marking
<1>5. PhaseOK'
  <2>1. CASE stopped
    BY <1>2, <1>3, <2>1 DEF PhaseOK, Deinitialized, Threads
  <2>2. CASE ~stopped
    BY <1>1, <1>2, <1>3, <2>2 DEF PhaseOK, Deinitialized, Threads
  <2> QED
    BY <2>1, <2>2
<1>6. CASE clearAll
  <2>1. m_advDataSet' = FALSE
    BY <1>2, <1>6 DEF Fresh
  <2>2. ~misled' => (stackAdv'.active => stackAdv'.adv # None)
    BY <1>1, <1>2, <1>3, <1>6 DEF DataOK
  <2> QED
    BY <1>4, <1>5, <2>1, <2>2, DataIsVoid
<1>7. CASE ~clearAll
  <2>1. UNCHANGED <<m_advData, m_advDataSet>> /\ misled' = (misled \/ (stopped /\ m_advDataSet))
    BY <1>2, <1>7 DEF advVars
  <2>2. CASE stopped
    <3>1. ~misled' => ~m_advDataSet'
      BY <2>1, <2>2
    <3> QED
      BY <1>2, <1>3, <1>4, <1>5, <2>2, <3>1 DEF DataOK
  <2>3. CASE ~stopped
    <3>1. UNCHANGED <<stackAdv, m_synced, m_initialized>> /\ (Unaware' <=> Unaware)
      BY <1>2, <1>3, <2>3 DEF Deinitialized, Unaware, Threads
    <3> QED
      BY <1>1, <1>4, <1>5, <2>1, <2>3, <3>1 DEF DataOK
  <2> QED
    BY <2>2, <2>3
<1> QED
  BY <1>6, <1>7

-----------------------------------------------------------------------------
(* The theorem.                                                            *)

LEMMA ServedStep ==
  ASSUME ServedInv, [Next]_vars
  PROVE  ServedInv'
<1>1. MirrorInv'
  BY MirrorStep DEF ServedInv
<1>2. CASE UNCHANGED vars
  <2>1. UNCHANGED <<call, m_initialized, m_synced, stackUp, m_advData, m_advDataSet, stackAdv, misled, build>>
    BY <1>2 DEF vars, deviceVars, legacyVars, advVars
  <2>2. \A t \in Threads : At(t)' = At(t) /\ call'[t] = call[t]
    BY <2>1 DEF At
  <2>3. /\ \A t \in Threads : (Marking(t)' <=> Marking(t)) /\ (Relying(t)' <=> Relying(t))
                             /\ Marked(t)' = Marked(t)
        /\ Unaware' <=> Unaware
    BY <2>1, <2>2 DEF Marking, Relying, Unaware, Marked, Threads
  <2>4. DataOK => DataOK'
    BY <2>1, <2>3 DEF DataOK
  <2>5. PhaseOK => PhaseOK'
    BY <2>1, <2>2 DEF PhaseOK, Threads
  <2> QED
    BY <1>1, <2>1, <2>4, <2>5 DEF ServedInv, Legacy
<1>3. CASE Next
  <2>1. Legacy' <=> Legacy
    BY <1>3, BuildStays DEF Legacy
  <2>2. CASE Legacy
    <3>1. DataOK' /\ PhaseOK'
      <4>1. CASE LegacyStep
        BY <2>2, <4>1, AppKeepsData, HostKeepsData, StartKeepsData DEF LegacyStep
      <4> QED
        BY <1>3, <2>2, <4>1, DeviceKeepsData, ResetKeepsData, DeinitKeepsData DEF Next, ExtStep
    <3> QED
      BY <1>1, <2>1, <2>2, <3>1 DEF ServedInv
  <2>3. CASE ~Legacy
    <3>1. m_advDataSet' = m_advDataSet
      BY <1>3, <2>3 DEF Next, DeviceStep, SyncStep, ResetStep, Deinit, LegacyStep, ExtStep, legacyVars, advVars
    <3> QED
      BY <1>1, <2>1, <2>3, <3>1 DEF ServedInv
  <2> QED
    BY <2>2, <2>3
<1> QED
  BY <1>2, <1>3

LEMMA ServedInit ==
  ASSUME Init
  PROVE  ServedInv
<1>1. MirrorInv /\ call = [t \in Threads |-> Idle] /\ m_advDataSet = FALSE /\ stackAdv = NoAdv /\ ~stackUp
  BY MirrorInit DEF Init, DeviceInit, LegacyInit
<1>2. \A t \in Threads : At(t) = "idle"
  BY <1>1 DEF At, Idle
<1>3. DataOK
  BY <1>1, <1>2 DEF DataOK, Marking, Relying, NoAdv
<1>4. PhaseOK
  BY <1>1, <1>2 DEF PhaseOK, Threads, NoAdv
<1> QED
  BY <1>1, <1>3, <1>4 DEF ServedInv

LEMMA ServedImplies ==
  ASSUME ServedInv
  PROVE  DataIsServed
<1>1. LegacyOK
  BY DEF ServedInv, MirrorInv
<1>2. CASE Legacy
  <2>1. Quiet => ~Unaware /\ \A t \in Threads : ~Marking(t)
    BY DEF Quiet, Unaware, Marking, Threads
  <2> QED
    BY <1>2, <2>1 DEF ServedInv, DataOK, DataIsServed
<1>3. CASE ~Legacy
  BY <1>1, <1>3 DEF ServedInv, LegacyOK, DataIsServed
<1> QED
  BY <1>2, <1>3

\* Once nothing is under way the flag tells the truth, and nothing is advertised
\* without data, for any contents and through any number of changes, restarts and
\* resets that misled does not excuse (NimBLEAdvertising.cpp).
THEOREM DataIsAlwaysServed == Spec => []DataIsServed
<1>1. Init => ServedInv
  BY ServedInit
<1>2. ServedInv /\ [Next]_vars => ServedInv'
  BY ServedStep
<1>3. ServedInv => DataIsServed
  BY ServedImplies
<1> QED
  BY <1>1, <1>2, <1>3, PTL DEF Spec
=============================================================================
