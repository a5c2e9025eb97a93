SPECIFICATION Spec
CONSTANTS
  Tasks = {t1}
  NoTask = NoTask
  Handles = {h1}
  NoHandle = NoHandle
  MaxRetries = 1
  Helpers = {}
  Calls <- SecureCalls
  SelfDelete <- NoSelfDelete
  MaxConnects = 1
  MaxSecures = 1
INVARIANT SecureTrueMeansSecured
