SPECIFICATION FairSpec
CONSTANTS
  Tasks = {t1, t2}
  NoTask = NoTask
  Handles = {h1}
  NoHandle = NoHandle
  MaxRetries = 2
  Helpers = {t2}
  Calls <- WaitingCalls
  SelfDelete <- NoSelfDelete
  MaxConnects = 2
  MaxSecures = 1
PROPERTIES SecureReturns ConnectingEnds AsyncConnectAnswered
