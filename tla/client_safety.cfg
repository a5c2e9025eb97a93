SPECIFICATION Spec
CONSTANTS
  Tasks = {t1, t2}
  NoTask = NoTask
  Handles = {h1}
  NoHandle = NoHandle
  MaxRetries = 1
  Helpers = {t2}
  Calls <- EveryCall
  SelfDelete <- NoSelfDelete
  MaxConnects = 2
  MaxSecures = 1
INVARIANTS TypeOK ConnectedOwnsLink TimerBelongsToLink OnConnectOnce WaiterNotForgotten
CHECK_DEADLOCK FALSE
