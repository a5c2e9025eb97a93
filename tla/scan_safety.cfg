SPECIFICATION Spec
CONSTANTS
  Devices = {d1, d2}
  Timeout = 2
  Settings <- SafetySettings
  Calls = {"start", "stop", "clear", "erase", "timeout", "results", "reset"}
SYMMETRY Symmetry
INVARIANTS WaitingOwesResult HeadIsOldest HeadIsTimed ScanEndReportsAll
