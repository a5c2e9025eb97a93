------------------------ MODULE AdvertisementPayload ------------------------
(***************************************************************************)
(* An application fills the advertisement and the scan response of one of  *)
(* the two builds, and another device reads what it receives.  Beside the  *)
(* bytes each payload is kept as the fields it is meant to have.           *)
(***************************************************************************)
EXTENDS NimBLEAdvertisedDevice

CONSTANTS
  Uuids,       \* the UUIDs of services
  Names,       \* the names
  Values,      \* URIs and the data of services; one is empty
  Beacons,     \* what beacons are told to advertise
  MaxOps       \* bound: how many operations are made

VARIABLES
  build,       \* "legacy" or "extended"
  m_scanResp,  \* the scan response is used (NimBLEAdvertising)
  data,        \* the bytes of the advertisement and of the scan response
  fields,      \* the fields they stand for
  spoiled,     \* an operation failed half way or hit the wrong bytes
  ops

vars == <<build, m_scanResp, data, fields, spoiled, ops>>

Parts == {"adv", "rsp"}
Power == -12  \* the power that the device transmits with
SomeValues == Values \ {<< >>}
ServiceBytes == {UuidBytes(u) : u \in Uuids}

\* The objects that are told to advertise a setting.
Beacon(s) ==
  SetSignalPower(SetProximityUUID(SetMinor(SetMajor(
    SetManufacturerId(NewBeacon, s.major), s.major), s.minor), s.uuid), s.power)
Telemetry(s) ==
  SetTime(SetCount(SetTemp(SetVolt(SetVersion(
    SetTelemetryUUID(NewTelemetry, s.uuid), 1), s.major), s.temp), s.minor), s.time)

\* What an application may ask for; kind names the operation.
Requests ==
  [kind : {"flags"}, value : {0, 2}]
    \cup [kind : {"appearance"}, value : {0, 961}]
    \cup [kind : {"power"}, legacy_pdu : BOOLEAN]
    \cup [kind : {"removeServices", "clear"}]
    \cup [kind : {"interval"}, min : {24}, max : {4000}]
    \cup [kind : {"addUuid", "removeUuid"}, uuid : ServiceBytes]
    \cup [kind : {"name"}, value : Names, complete : BOOLEAN]
    \cup [kind : {"value"}, type : {URI}, value : SomeValues]
    \cup [kind : {"value"}, type : {MfgData}, value : {BeaconBytes(Beacon(s)) : s \in Beacons}]
    \cup [kind : {"services"}, size : {2}, complete : BOOLEAN, uuids : {SetToSeq(ServiceBytes)}]
    \cup [kind : {"services"}, size : {16}, complete : {TRUE}, uuids : {SetToSeq(ServiceBytes)}]
    \cup [kind : {"serviceData"}, uuid : ServiceBytes, value : Values]
    \cup [kind : {"serviceData"}, uuid : {UuidBytes(NewTelemetry.uuid)},
           value : {TelemetryBytes(Telemetry(s)) : s \in Beacons}]
    \cup [kind : {"target"}, type : {PublicTarget, RandomTarget}]

\* A target address is added as bytes, addData().
TargetAddressOf(type) ==
  NativeAddress([i \in 1..6 |-> 10 * i + type], IF type = PublicTarget THEN 0 ELSE 1)
Target(type) == Field(type, TargetAddressOf(type).val)

Legacy == INSTANCE NimBLEAdvertisementData
Extended == INSTANCE NimBLEExtAdvertisement

\* The operation on bytes, of the legacy build and of the extended one.
LegacyBuilt(p, r) ==
  CASE r.kind = "flags" -> Legacy!SetFlags(p, r.value)
    [] r.kind = "appearance" -> Legacy!SetAppearance(p, r.value)
    [] r.kind = "power" -> Legacy!AddTxPower(p, Unsigned(Power, 8))
    [] r.kind = "interval" -> Legacy!SetPreferredParams(p, r.min, r.max)
    [] r.kind = "addUuid" -> Legacy!AddServiceUUID(p, r.uuid)
    [] r.kind = "removeUuid" -> Legacy!RemoveServiceUUID(p, r.uuid)
    [] r.kind = "name" -> Legacy!SetName(p, r.value, r.complete)
    [] r.kind = "value" -> Legacy!SetValue(p, r.type, r.value)
    [] r.kind = "services" -> Legacy!SetServices(p, r.complete, r.size, r.uuids)
    [] r.kind = "serviceData" -> Legacy!SetServiceData(p, r.uuid, r.value)
    [] r.kind = "removeServices" -> Legacy!RemoveServices(p)
    [] r.kind = "clear" -> Legacy!ClearData(p)
    [] r.kind = "target" -> Legacy!AddData(p, EncodeField(Target(r.type)))

ExtendedBuilt(p, r) ==
  CASE r.kind = "flags" -> Extended!SetFlags(p, r.value)
    [] r.kind = "appearance" -> Extended!SetAppearance(p, r.value)
    [] r.kind = "power" -> Extended!AddTxPower(p, r.legacy_pdu, Unsigned(Power, 8))
    [] r.kind = "interval" -> Extended!SetPreferredParams(p, r.min, r.max)
    [] r.kind = "addUuid" -> Extended!AddServiceUUID(p, r.uuid)
    [] r.kind = "removeUuid" -> Extended!RemoveServiceUUID(p, r.uuid)
    [] r.kind = "name" -> Extended!SetName(p, r.value, r.complete)
    [] r.kind = "value" ->
         (IF r.type = URI THEN Extended!SetURI(p, r.value) ELSE Extended!SetValue(p, r.type, r.value))
    [] r.kind = "services" -> Extended!SetServices(p, r.complete, r.size, r.uuids)
    [] r.kind = "serviceData" -> Extended!SetServiceData(p, r.uuid, r.value)
    [] r.kind = "removeServices" -> Extended!RemoveServices(p)
    [] r.kind = "clear" -> Extended!ClearData(p)
    [] r.kind = "target" -> Extended!AddData(p, EncodeField(Target(r.type)))

Built(p, r) == IF build = "legacy" THEN LegacyBuilt(p, r) ELSE ExtendedBuilt(p, r)

\* The operation on fields.
ValueField(r) ==
  CASE r.kind = "name" -> (IF build = "legacy" THEN NameField(r.value, r.complete)
                           ELSE Field(IF r.complete THEN CompleteName ELSE ShortName, r.value))
    [] r.kind = "value" -> Field(r.type, r.value)

MeantServiceData(f, r) ==
  LET field == Field(ServiceData[Len(r.uuid)], r.uuid \o r.value)
  IN IF build = "extended" /\ ~Append1(f, field).ok THEN Refused(f)
     ELSE IF r.value = << >> THEN Done(Without(f, field.type).data)
     ELSE Append1(f, field)

Meant(f, r) ==
  CASE r.kind = "flags" ->
         (IF build = "legacy" THEN WithFlags(f, r.value)
          ELSE IF r.value = 0 THEN Done(Without(f, Flags).data)
          ELSE Append1(f, Field(Flags, <<FlagsByte(r.value)>>)))
    [] r.kind = "appearance" ->
         (IF r.value = 0 THEN Without(f, Appearance)
          ELSE Append1(f, Field(Appearance, <<r.value % 256, r.value \div 256>>)))
    [] r.kind = "power" ->
         (IF build = "legacy" \/ r.legacy_pdu THEN Append1(f, Field(TxPower, <<Unsigned(Power, 8)>>)) ELSE Done(f))
    [] r.kind = "interval" ->
         Append1(f, Field(ConnInterval, <<24, 0, 128, 12>>))
    [] r.kind = "addUuid" -> WithUuid(f, r.uuid)
    [] r.kind = "removeUuid" -> WithoutUuid(f, r.uuid)
    [] r.kind \in {"name", "value"} -> Append1(f, ValueField(r))
    [] r.kind = "services" ->
         (IF build = "legacy" THEN Append1(f, ListField(r.complete, r.size, r.uuids))
          ELSE Append1(f, Field(ListType(r.size) - (IF r.complete THEN 0 ELSE 1),
                                FlattenSeq(SelectSeq(r.uuids, LAMBDA u : Len(u) = r.size)))))
    [] r.kind = "serviceData" -> MeantServiceData(f, r)
    [] r.kind = "removeServices" -> Done(f)
    [] r.kind = "clear" -> Done(<< >>)
    [] r.kind = "target" -> Append1(f, Target(r.type))

\* The operations that do not do what they should: the extended build's, when a
\* value does not fit after its header or the UUIDs have not all the size that
\* its header counts; and the removal that finds a UUID beyond its list.
Spoils(p, r) ==
  \/ build = "extended" /\ r.kind \in {"name", "value"} /\ ~Built(p, r).ok
  \/ build = "extended" /\ r.kind = "services" /\ Built(p, r).ok
       /\ \E i \in DOMAIN r.uuids : Len(r.uuids[i]) # r.size
  \/ /\ r.kind = "removeUuid"
     /\ Legacy!Match(p, r.uuid) # 0
     /\ LET i == Legacy!Location(p, ListType(Len(r.uuid))) IN Legacy!Match(p, r.uuid) > i + p[i]

-----------------------------------------------------------------------------

\* What NimBLEAdvertising puts into a new advertisement.
GeneralFlags == Field(Flags, <<6>>)

\* The payloads are those of NimBLEAdvertising, or an application's own.
Init ==
  /\ build \in {"legacy", "extended"}
  /\ m_scanResp = FALSE
  /\ \E constructed \in BOOLEAN :
       /\ constructed => build = "legacy"
       /\ data = [adv |-> IF constructed THEN Legacy!SetFlags(<< >>, 2).data ELSE << >>, rsp |-> << >>]
       /\ fields = [adv |-> IF constructed THEN <<GeneralFlags>> ELSE << >>, rsp |-> << >>]
  /\ spoiled = FALSE
  /\ ops = 0

\* Nothing is asked of a payload that is spoiled.
Asked ==
  /\ ~spoiled
  /\ ops < MaxOps
  /\ ops' = ops + 1
  /\ UNCHANGED <<build, m_scanResp>>

\* A call of the payload's own object.
Change(part, r) ==
  /\ Asked
  /\ data' = [data EXCEPT ![part] = Built(@, r).data]
  /\ fields' = [fields EXCEPT ![part] = Meant(@, r).data]
  /\ spoiled' = Spoils(data[part], r)

\* A call of NimBLEAdvertising: the first of the two that has the room.
ChangeFirst(first, second, r) ==
  /\ Asked
  /\ data' = IF Built(data[first], r).ok THEN [data EXCEPT ![first] = Built(@, r).data]
             ELSE [data EXCEPT ![second] = Built(@, r).data]
  /\ fields' = IF Meant(fields[first], r).ok THEN [fields EXCEPT ![first] = Meant(@, r).data]
               ELSE [fields EXCEPT ![second] = Meant(@, r).data]
  /\ UNCHANGED spoiled

\* A NimBLEExtAdvertisement is filled for itself.
OwnCall ==
  \E r \in Requests, part \in (IF build = "legacy" THEN Parts ELSE {"adv"}) : Change(part, r)

AdvertisingCall ==
  /\ build = "legacy"
  /\ \E r \in Requests :
       /\ r.kind \in {"appearance", "power", "interval", "addUuid", "value", "serviceData"}
       /\ ChangeFirst("adv", "rsp", r)

\* setName(): the scan response comes first if it is used, and is not tried at
\* all if it is not.
SetAdvertisedName ==
  /\ build = "legacy"
  /\ \E r \in Requests :
       /\ r.kind = "name" /\ r.complete
       /\ IF m_scanResp THEN ChangeFirst("rsp", "adv", r) ELSE Change("adv", r)

\* removeServiceUUID() of NimBLEAdvertising: from both.
RemoveAdvertisedUUID ==
  /\ build = "legacy"
  /\ Asked
  /\ \E r \in Requests :
       /\ r.kind = "removeUuid"
       /\ data' = [x \in Parts |-> Built(data[x], r).data]
       /\ fields' = [x \in Parts |-> Meant(fields[x], r).data]
       /\ spoiled' = (\E x \in Parts : Spoils(data[x], r))

\* clearData() of NimBLEAdvertising keeps the flags.
ClearAdvertised ==
  /\ build = "legacy"
  /\ Asked
  /\ data' = [adv |-> Legacy!SetFlags(<< >>, 2).data, rsp |-> << >>]
  /\ fields' = [adv |-> <<GeneralFlags>>, rsp |-> << >>]
  /\ UNCHANGED spoiled

EnableScanResponse ==
  /\ build = "legacy"
  /\ m_scanResp' = ~m_scanResp
  /\ UNCHANGED <<build, data, fields, spoiled, ops>>

Next ==
  \/ OwnCall
  \/ AdvertisingCall
  \/ SetAdvertisedName
  \/ RemoveAdvertisedUUID
  \/ ClearAdvertised
  \/ EnableScanResponse

Spec == Init /\ [][Next]_vars

-----------------------------------------------------------------------------
(* Properties.                                                             *)

\* update(): the scan response of a legacy advertisement follows its data.
Received == data.adv \o data.rsp

ServicesRead(p, f) ==
  /\ ServiceUUIDCount(p) = Len(Services(f))
  /\ ListsShrink(f) =>
       /\ \A i \in DOMAIN Services(f) : ServiceUUID(p, i - 1) = Services(f)[i]
       /\ \A i \in DOMAIN Services(f) :
            LET u == UuidOf(ServiceUUID(p, i - 1)) IN FromString(TextOf(u)) = u
       /\ \A u \in Uuids :
            IsAdvertisingService(p, u) <=> \E i \in DOMAIN Services(f) : Equal(UuidOf(Services(f)[i]), u)

ServiceDataRead(p, f) ==
  LET all == AllServiceData(f)
      uuid(i) == LET n == CHOOSE k \in {2, 4, 16} : ServiceData[k] = all[i].type
                 IN SubSeq(all[i].value, 1, n)
      value(i) == SubSeq(all[i].value, Len(uuid(i)) + 1, Len(all[i].value))
  IN /\ ServiceDataCount(p) = Len(all)
     /\ \A i \in DOMAIN all : ServiceDataUUID(p, i - 1) = uuid(i) /\ ServiceDataAt(p, i - 1) = value(i)
     /\ \A u \in Uuids :
          LET of == SelectInSeq(all, LAMBDA d : /\ d.type = ServiceData[u.bits \div 8]
                                                /\ SubSeq(d.value, 1, u.bits \div 8) = UuidBytes(u))
          IN ServiceDataOf(p, u, 0) = IF of = 0 THEN << >> ELSE value(of)

TargetsRead(p, f) ==
  LET all == OfType(f, {PublicTarget}) \o OfType(f, {RandomTarget})
  IN /\ TargetAddressCount(p) = Len(all)
     /\ \A i \in DOMAIN all :
          LET a == TargetAddress(p, i - 1)
          IN /\ ReversedAddress(a) = [TargetAddressOf(all[i].type) EXCEPT !.type = all[i].type]
             /\ AddressOfText(AddressText(a, TRUE), a.type) = a
             /\ AddressOfNumber(NumberOf(a), a.type) = a /\ ~IsNull(a)
     /\ IsNull(TargetAddress(p, Len(all)))

\* Each beacon that is received is one that was asked for.
BeaconsRead(p, f) ==
  /\ \A i \in 1..ManufacturerDataCount(p) :
       LET b == SetBeacon(NewBeacon, ManufacturerData(p, i - 1))
       IN \E s \in Beacons :
            /\ Equal(GetProximityUUID(b), s.uuid) /\ GetSignalPower(b) = s.power
            /\ Swap16(GetManufacturerId(b)) = s.major
            /\ Swap16(GetMajor(b)) = s.major /\ Swap16(GetMinor(b)) = s.minor
  /\ LET t == SetTelemetry(NewTelemetry, ServiceDataOf(p, NewTelemetry.uuid, 0))
     IN t # NewTelemetry =>
          \E s \in Beacons :
            /\ t = [Telemetry(s) EXCEPT !.uuid = NewTelemetry.uuid]
            /\ Swap16(GetVolt(t)) = s.major /\ Swap16(Unsigned(GetTemp(t), 16)) = s.temp
            /\ Swap32(GetCount(t)) = s.minor /\ GetTime(t) = Swap32(s.time) \div 10

\* What was put into an advertisement and its scan response is what another
\* device reads out of it: through every addition, replacement, removal and
\* refusal the bytes are those of the fields, and the name, the UUIDs by index,
\* the services by UUID, their data and the fields of fixed length that the
\* reader finds in the two payloads together are the ones that were set.  No
\* payload is ever longer than the stack takes.
ReadBack ==
  /\ \A x \in Parts : Len(data[x]) <= MaxSize
  /\ ~spoiled =>
    LET p == Received
        f == fields.adv \o fields.rsp
    IN /\ \A x \in Parts : data[x] = Encode(fields[x])
       /\ Name(p) = NameOf(f) /\ GetURI(p) = ValueOf(f, URI)
       /\ LET all == OfType(f, {MfgData})
          IN /\ ManufacturerDataCount(p) = Len(all)
             /\ \A i \in DOMAIN all : ManufacturerData(p, i - 1) = all[i].value
       /\ AdvFlags(p) = Value(ValueOf(f, Flags)) /\ GetAppearance(p) = Value(ValueOf(f, Appearance))
       /\ TXPower(p) = (IF Have(p, TxPower) THEN Power ELSE -99) /\ GetAdvInterval(p) = 0
       /\ MinInterval(p) + 65536 * MaxInterval(p) = Value(ValueOf(f, ConnInterval))
       /\ \A t \in {Flags, Appearance, TxPower, ConnInterval, AdvInterval, URI, MfgData} :
            Have(p, t) <=> OfType(f, {t}) # << >>
       /\ HaveServiceUUID(p) <=> Services(f) # << >>
       /\ HaveServiceData(p) <=> AllServiceData(f) # << >>
       /\ HaveTargetAddress(p) <=> OfType(f, {PublicTarget, RandomTarget}) # << >>
       /\ ServicesRead(p, f)
       /\ ServiceDataRead(p, f)
       /\ TargetsRead(p, f)
       /\ BeaconsRead(p, f)
=============================================================================
