---------------------------- MODULE NimBLEBeacon ----------------------------
(***************************************************************************)
(* The two beacons of the library: NimBLEBeacon, sent as manufacturer data,*)
(* and NimBLEEddystoneTLM, sent as service data.  Both keep the bytes of a *)
(* packed record, whose numbers are stored with the least byte first.      *)
(***************************************************************************)
EXTENDS AdvertisementFields

\* ENDIAN_CHANGE_U16 and ENDIAN_CHANGE_U32.
Swap16(v) == Value(Reverse(LittleEndian(v, 2)))
Swap32(v) == Value(Reverse(LittleEndian(v, 4)))

\* int8_t and int16_t, out of the byte and the two bytes.
Signed(v, bits) == IF v >= 2 ^ (bits - 1) THEN v - 2 ^ bits ELSE v
Unsigned(v, bits) == v % 2 ^ bits

-----------------------------------------------------------------------------
(* NimBLEBeacon.                                                           *)

NewBeacon ==
  [manufacturerId |-> 19456, subType |-> 2, subTypeLength |-> 21,
   proximityUUID |-> [i \in 1..16 |-> 0], major |-> 0, minor |-> 0, signalPower |-> 0]

\* getData() as manufacturer data.
BeaconBytes(b) ==
  LittleEndian(b.manufacturerId, 2) \o <<b.subType, b.subTypeLength>> \o b.proximityUUID
    \o LittleEndian(b.major, 2) \o LittleEndian(b.minor, 2) \o <<Unsigned(b.signalPower, 8)>>

\* setData(): only the bytes of a whole record.
SetBeacon(b, bytes) ==
  IF Len(bytes) # 25 THEN b
  ELSE [manufacturerId |-> Value(SubSeq(bytes, 1, 2)), subType |-> bytes[3], subTypeLength |-> bytes[4],
        proximityUUID |-> SubSeq(bytes, 5, 20), major |-> Value(SubSeq(bytes, 21, 22)),
        minor |-> Value(SubSeq(bytes, 23, 24)), signalPower |-> Signed(bytes[25], 8)]

SetManufacturerId(b, v) == [b EXCEPT !.manufacturerId = Swap16(v)]
SetMajor(b, v) == [b EXCEPT !.major = Swap16(v)]
SetMinor(b, v) == [b EXCEPT !.minor = Swap16(v)]
SetSignalPower(b, v) == [b EXCEPT !.signalPower = v]

\* The UUID is sent in 128 bits, the most significant byte first.
SetProximityUUID(b, u) == [b EXCEPT !.proximityUUID = Reverse(UuidBytes(To128(u)))]

\* The getters, which give the numbers as they are stored.
GetManufacturerId(b) == b.manufacturerId
GetMajor(b) == b.major
GetMinor(b) == b.minor
GetSignalPower(b) == b.signalPower
GetProximityUUID(b) == UuidOf(Reverse(b.proximityUUID))

-----------------------------------------------------------------------------
(* NimBLEEddystoneTLM.                                                     *)

NewTelemetry ==
  [uuid |-> UUID16(65194), frameType |-> 32, version |-> 0, volt |-> 3300, temp |-> 5888,
   advCount |-> 0, tmil |-> 0]

\* getData() as the data of the service getUUID().
TelemetryBytes(t) ==
  <<t.frameType, t.version>> \o LittleEndian(t.volt, 2) \o LittleEndian(Unsigned(t.temp, 16), 2)
    \o LittleEndian(t.advCount, 4) \o LittleEndian(t.tmil, 4)

SetTelemetry(t, bytes) ==
  IF Len(bytes) # 14 THEN t
  ELSE [t EXCEPT !.frameType = bytes[1], !.version = bytes[2], !.volt = Value(SubSeq(bytes, 3, 4)),
                 !.temp = Signed(Value(SubSeq(bytes, 5, 6)), 16),
                 !.advCount = Value(SubSeq(bytes, 7, 10)), !.tmil = Value(SubSeq(bytes, 11, 14))]

\* The setters store the numbers as they are.
SetTelemetryUUID(t, u) == IF u.bits = 16 THEN [t EXCEPT !.uuid = u] ELSE t
SetVersion(t, v) == [t EXCEPT !.version = v]
SetVolt(t, v) == [t EXCEPT !.volt = v]
SetTemp(t, v) == [t EXCEPT !.temp = v]
SetCount(t, v) == [t EXCEPT !.advCount = v]
SetTime(t, v) == [t EXCEPT !.tmil = v]

\* The getters change the order of the bytes; the time is sent in units of 0.1 s.
GetVolt(t) == Swap16(t.volt)
GetTemp(t) == Signed(Swap16(Unsigned(t.temp, 16)), 16)
GetCount(t) == Swap32(t.advCount)
GetTime(t) == Swap32(t.tmil) \div 10
=============================================================================
