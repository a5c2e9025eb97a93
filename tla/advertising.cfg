SPECIFICATION FairSpec
CONSTANTS
  Addresses = {a1, a2}
  MaxResets = 2
  Versions <- MCVersions
  Default = "flags"
  Responses <- MCResponses
  None = None
  Instances = {1, 2}
INVARIANTS DataIsServed MirrorIsExact
PROPERTY EndlessIsResumed
CHECK_DEADLOCK FALSE
