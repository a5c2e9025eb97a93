SPECIFICATION Spec
CONSTANTS
  Short = 65536
  Long = 16777216
  MaxSize = 31
  Uuids <- MCUuids
  Names <- MCNames
  Values <- MCValues
  Beacons <- MCBeacons
  MaxOps = 3
INVARIANT ReadBack
CHECK_DEADLOCK FALSE
