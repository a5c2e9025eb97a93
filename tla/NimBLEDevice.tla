---------------------------- MODULE NimBLEDevice ----------------------------
(***************************************************************************)
(* NimBLEDevice: the life of the host stack, from init() to deinit(), with *)
(* resets and synchronizations in between, and the white list.  Two        *)
(* threads run the library's code: a task of the application and the host  *)
(* task, which handles the stack's events.  What a thread does between two *)
(* of its steps is in call.                                                *)
(***************************************************************************)
EXTENDS Integers, Sequences, SequencesExt

CONSTANTS
  Addresses,  \* the addresses that may come on the white list
  MaxResets   \* bound: how often the host is reset

VARIABLES
  m_initialized, m_synced, m_whiteList,
  stackUp,      \* the host task runs
  stackSynced,  \* host and controller are in sync
  stackList,    \* the white list of the controller
  listLost,     \* history: it was lost with the controller's state
  call,         \* by thread: where it is, and the arguments it works with
  resets

deviceVars == <<m_initialized, m_synced, m_whiteList, stackUp, stackSynced, stackList, listLost>>

Threads == {"app", "host"}

Idle == [at |-> "idle"]
At(t) == call[t].at
Goes(t, c) == call' = [call EXCEPT ![t] = c]
Returns(t) == Goes(t, Idle)

DeviceInit ==
  /\ m_initialized = FALSE /\ m_synced = FALSE
  /\ m_whiteList = << >>
  /\ stackUp = FALSE /\ stackSynced = FALSE
  /\ stackList = {} /\ listLost = FALSE
  /\ call = [t \in Threads |-> Idle]
  /\ resets = 0

\* init(): starts the host task, if it does not run, and waits.
Initialize ==
  /\ At("app") = "idle"
  /\ stackUp' = (stackUp \/ ~m_initialized)
  /\ Goes("app", [at |-> "initializing"])
  /\ UNCHANGED <<m_initialized, m_synced, m_whiteList, stackSynced, stackList, listLost, resets>>

Initialized ==
  /\ At("app") = "initializing"
  /\ m_synced
  /\ m_initialized' = TRUE
  /\ Returns("app")
  /\ UNCHANGED <<m_synced, m_whiteList, stackUp, stackSynced, stackList, listLost, resets>>

\* The host synchronizes and calls onSync(), which gives up without an address.
Synchronize ==
  /\ stackUp /\ ~stackSynced
  /\ At("host") = "idle"
  /\ stackSynced' = TRUE
  /\ \/ m_synced' = TRUE /\ Goes("host", [at |-> "synced"])
     \/ UNCHANGED <<m_synced, call>>
  /\ UNCHANGED <<m_initialized, m_whiteList, stackUp, stackList, listLost, resets>>

\* onSync() after m_synced is set: the objects are told if init() has returned,
\* or is about to.
Synced ==
  /\ At("host") = "synced"
  /\ IF m_initialized THEN Goes("host", [at |-> "onHostSync"]) ELSE Returns("host")
  /\ UNCHANGED <<deviceVars, resets>>

\* The controller or the host is reset, and onReset() called: as the reset
\* callback, and by whatever ends because of it.
Reset ==
  /\ stackSynced
  /\ At("host") = "idle"
  /\ resets < MaxResets
  /\ resets' = resets + 1
  /\ stackSynced' = FALSE
  /\ m_synced' = FALSE
  /\ stackList' = {} /\ listLost' = (m_whiteList # << >> \/ listLost)
  /\ UNCHANGED <<m_initialized, m_whiteList, stackUp, call>>

\* deinit(), up to the objects that clearAll deletes.  Stopping waits for the
\* host task, and may fail.
Deinitialized(stopped) ==
  /\ At("app") = "idle"
  /\ At("host") = "idle"
  /\ IF stopped
     THEN /\ m_initialized
          /\ m_initialized' = FALSE /\ m_synced' = FALSE
          /\ stackUp' = FALSE /\ stackSynced' = FALSE
          /\ stackList' = {} /\ listLost' = (m_whiteList # << >> \/ listLost)
     ELSE UNCHANGED <<m_initialized, m_synced, stackUp, stackSynced, stackList, listLost>>
  /\ UNCHANGED <<m_whiteList, call, resets>>

OnWhiteList(a) == Contains(m_whiteList, a)

\* ble_gap_wl_set(): the whole list at once, or nothing.
SetList(list) ==
  /\ stackSynced
  /\ stackList' = ToSet(list)
  /\ listLost' = FALSE

WhiteListAdd ==
  /\ At("app") = "idle"
  /\ \E a \in Addresses :
       /\ ~OnWhiteList(a)
       /\ m_whiteList' = Append(m_whiteList, a)
       /\ SetList(m_whiteList')
  /\ UNCHANGED <<m_initialized, m_synced, stackUp, stackSynced, call, resets>>

\* A removal that the stack refuses leaves the address at the end of the list.
\* After a successful one the loop goes on with an iterator into a vector that
\* was swapped away; here it finds nothing more.
Removed(list, a) == RemoveFirst(list, a)
PutBack(list, a) == Append(Removed(list, a), a)

WhiteListRemove ==
  /\ At("app") = "idle"
  /\ \E a \in Addresses :
       /\ OnWhiteList(a)
       /\ \/ /\ m_whiteList' = Removed(m_whiteList, a)
             /\ SetList(m_whiteList')
          \/ /\ m_whiteList' = PutBack(m_whiteList, a)
             /\ UNCHANGED <<stackList, listLost>>
  /\ UNCHANGED <<m_initialized, m_synced, stackUp, stackSynced, call, resets>>

\* No procedure of the library is under way.
Quiet == \A t \in Threads : At(t) = "idle"
=============================================================================
