----------------------- MODULE NimBLEExtAdvertisement -----------------------
(***************************************************************************)
(* How NimBLEExtAdvertisement, of the builds with extended advertising,    *)
(* builds a payload.  Much of it repeats NimBLEAdvertisementData; what is  *)
(* different is written out.                                               *)
(***************************************************************************)
EXTENDS AdvertisementFields

LOCAL Base == INSTANCE NimBLEAdvertisementData

AddData(p, bytes) == Base!AddData(p, bytes)
Location(p, type) == Base!Location(p, type)
RemoveData(p, type) == Base!RemoveData(p, type)
SetAppearance(p, value) == Base!SetAppearance(p, value)
SetPreferredParams(p, min, max) == Base!SetPreferredParams(p, min, max)
AddServiceUUID(p, bytes) == Base!AddServiceUUID(p, bytes)
RemoveServiceUUID(p, bytes) == Base!RemoveServiceUUID(p, bytes)

RemoveServices(p) == Base!RemoveServices(p)
ClearData(p) == Base!ClearData(p)

\* addTxPower(): with extended PDUs the controller is asked to add the power.
AddTxPower(p, legacy_pdu, dbm) == IF legacy_pdu THEN Base!AddTxPower(p, dbm) ELSE Done(p)

\* setFlags(): flags that are there stay, and another field comes after them.
SetFlags(p, flag) ==
  IF flag = 0 THEN Done(RemoveData(p, Flags).data) ELSE AddData(p, <<2, Flags, FlagsByte(flag)>>)

\* Manufacturer data, and in the same way URI and name: the header, then the
\* value.  If the value does not fit the header stays; if the header does not
\* fit, two bytes of what was there go.
SetValue(p, type, value) ==
  IF ~AddData(p, <<0, 0>>).ok THEN Refused(SubSeq(p, 1, Len(p) - 2))
  ELSE AddData(p \o <<Len(value) + 1, type>>, value)

SetURI(p, uri) == SetValue(p, URI, uri)

\* No name is cut.
SetName(p, name, complete) == SetValue(p, IF complete THEN CompleteName ELSE ShortName, name)

\* setServices(): the header counts all of the UUIDs, those of the wrong size are
\* left out after it, and everything is taken back if one does not fit.
SetServices(p, complete, n, uuids) ==
  LET header == <<n * Len(uuids) + 1, IF complete THEN ListType(n) ELSE ListType(n) - 1>>
      all == p \o header \o FlattenSeq(Base!OfSize(uuids, n))
  IN IF Len(all) > MaxSize THEN Refused(p) ELSE Done(all)

\* setServiceData(): it asks for room even to take data away.
SetServiceData(p, bytes, value) ==
  IF Len(p) + 2 + Len(bytes) + Len(value) > MaxSize THEN Refused(p)
  ELSE Base!SetServiceData(p, bytes, value)
=============================================================================
