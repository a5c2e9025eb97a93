------------------------ MODULE NimBLEExtAdvertising ------------------------
(***************************************************************************)
(* NimBLEExtAdvertising, of the builds with extended advertising: several  *)
(* instances, each with its data in the stack, and a flag for each that    *)
(* tells if it is active.                                                  *)
(***************************************************************************)
EXTENDS NimBLEDevice

CONSTANT Instances

VARIABLES
  m_advStatus,
  stackExt,  \* the stack's instances
  raced      \* history: the instances for which two threads met in a window of those below

extVars == <<m_advStatus, stackExt, raced>>

NoInstance == [configured |-> FALSE, data |-> FALSE, active |-> FALSE]

ExtInit ==
  /\ m_advStatus = [i \in Instances |-> FALSE]
  /\ stackExt = [i \in Instances |-> NoInstance]
  /\ raced = {}

\* A thread has started an instance and not yet set its flag.
MarkingInstance(t, i) == At(t) = "mark instance" /\ call[t].inst = i
Racing == {i \in Instances : \E t \in Threads : MarkingInstance(t, i)}

\* setInstanceData(): configured, then the data, then the address; each may be
\* refused, and what was done before stays.
SetInstanceData ==
  /\ At("app") = "idle" /\ m_initialized
  /\ stackSynced
  /\ \E i \in Instances, dataSet \in BOOLEAN :
       /\ ~stackExt[i].active
       /\ stackExt' = [stackExt EXCEPT ![i].configured = TRUE, ![i].data = dataSet]
  /\ UNCHANGED <<deviceVars, resets, m_advStatus, raced, call>>

\* start(): by the application, or in onStopped() by the host task.  An instance
\* that is active already counts as started.
StartInstance(t) ==
  /\ At(t) \in (IF t = "app" THEN {"idle"} ELSE {"onStopped"})
  /\ m_synced /\ stackSynced
  /\ \E i \in Instances :
       /\ stackExt[i].configured
       /\ stackExt' = [stackExt EXCEPT ![i].active = TRUE]
       /\ Goes(t, [at |-> "mark instance", inst |-> i])
       /\ raced' = raced \cup (Racing \cap {i})
  /\ UNCHANGED <<deviceVars, resets, m_advStatus>>

StartReturns(t) ==
  /\ At(t) = "mark instance"
  /\ m_advStatus' = [m_advStatus EXCEPT ![call[t].inst] = TRUE]
  /\ Returns(t)
  /\ UNCHANGED <<deviceVars, resets, stackExt, raced>>

\* stop(inst): refused, or the instance is not active and its flag says so.
\* A thread in the window of start() will set it again.
StopInstance ==
  /\ At("app") = "idle"
  /\ stackSynced
  /\ \E i \in Instances :
       /\ stackExt' = [stackExt EXCEPT ![i].active = FALSE]
       /\ m_advStatus' = [m_advStatus EXCEPT ![i] = FALSE]
       /\ raced' = (raced \ {i}) \cup (Racing \cap {i})
  /\ UNCHANGED <<deviceVars, resets, call>>

\* removeInstance(): stop(inst), and then it is no longer configured, unless the
\* stack refuses that.
RemoveInstance ==
  /\ At("app") = "idle"
  /\ stackSynced
  /\ \E i \in Instances, removed \in BOOLEAN :
       /\ stackExt' = [stackExt EXCEPT ![i] = IF removed THEN NoInstance ELSE [@ EXCEPT !.active = FALSE]]
       /\ m_advStatus' = [m_advStatus EXCEPT ![i] = FALSE]
       /\ raced' = (raced \ {i}) \cup (Racing \cap {i})
  /\ UNCHANGED <<deviceVars, resets, call>>

\* stop() and removeAll(): the stack clears all of the instances or refuses.
AllStopped == [i \in Instances |-> FALSE]

StopAll ==
  /\ At("app") = "idle"
  /\ stackSynced
  /\ stackExt' = [i \in Instances |-> NoInstance]
  /\ m_advStatus' = AllStopped
  /\ raced' = Racing
  /\ UNCHANGED <<deviceVars, resets, call>>

\* A reset ends every instance; handleGapEvent() leaves the flags.
ExtReset ==
  /\ stackExt' = [i \in Instances |-> NoInstance]
  /\ raced' = raced \cup Racing
  /\ UNCHANGED m_advStatus

\* onHostSync(): the flags of instances that were started since m_synced was set
\* are cleared too.
ExtOnHostSync ==
  /\ At("host") = "onHostSync"
  /\ m_advStatus' = AllStopped
  /\ raced' = Racing \cup {i \in Instances : stackExt[i].active}
  /\ Returns("host")
  /\ UNCHANGED <<deviceVars, resets, stackExt>>

\* Mutant: the end of an instance does not clear its flag.
EndedUnnoticed(i) == m_advStatus
Ended(i) == [m_advStatus EXCEPT ![i] = FALSE]

\* handleGapEvent(): the end of an instance, after its time, its events or in a
\* connection.
InstanceComplete ==
  /\ At("host") = "idle"
  /\ \E i \in Instances :
       /\ stackExt[i].active
       /\ stackExt' = [stackExt EXCEPT ![i].active = FALSE]
       /\ m_advStatus' = Ended(i)
       /\ raced' = raced \cup (Racing \cap {i})
  /\ Goes("host", [at |-> "onStopped"])
  /\ UNCHANGED <<deviceVars, resets>>

OnStoppedReturns ==
  /\ At("host") = "onStopped"
  /\ Returns("host")
  /\ UNCHANGED <<deviceVars, resets, extVars>>

ExtStart(t) == StartInstance(t) \/ StartReturns(t)
ExtApp == SetInstanceData \/ StopInstance \/ RemoveInstance \/ StopAll
ExtHost == ExtOnHostSync \/ InstanceComplete \/ OnStoppedReturns
=============================================================================
