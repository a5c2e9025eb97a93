SPECIFICATION FairSpec
CONSTANTS
  Devices = {d1, d2}
  Timeout = 1
  Settings <- FilteredSettings
  Calls = {"start", "stop", "results"}
PROPERTIES GetResultsReturns WaitingIsReported
