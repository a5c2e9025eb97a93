----------------------- MODULE NimBLEAdvertisementData -----------------------
(***************************************************************************)
(* How NimBLEAdvertisementData, of the builds without extended             *)
(* advertising, builds a payload, byte by byte.  An operation takes the    *)
(* bytes and gives its result and the bytes it leaves.                     *)
(***************************************************************************)
EXTENDS AdvertisementFields

\* addData(): all of the bytes or none.
AddData(p, bytes) == IF Len(p) + Len(bytes) > MaxSize THEN Refused(p) ELSE Done(p \o bytes)

\* getDataLocation(), from a position on; 0 if there is no such field.
RECURSIVE LocationFrom(_, _, _)
LocationFrom(p, type, i) ==
  IF i >= Len(p) THEN 0
  ELSE IF p[i + 1] = type THEN i ELSE LocationFrom(p, type, i + p[i] + 1)

Location(p, type) == LocationFrom(p, type, 1)

RemoveData(p, type) ==
  LET i == Location(p, type)
  IN IF i = 0 THEN Refused(p) ELSE Done(SubSeq(p, 1, i - 1) \o SubSeq(p, i + p[i] + 1, Len(p)))

SetFlags(p, flag) ==
  LET i == Location(p, Flags)
  IN IF i = 0 THEN AddData(p, <<2, Flags, FlagsByte(flag)>>)
     ELSE IF flag = 0 THEN RemoveData(p, Flags)
     ELSE Done([p EXCEPT ![i + 2] = FlagsByte(flag)])

SetAppearance(p, value) ==
  IF value = 0 THEN RemoveData(p, Appearance)
  ELSE AddData(p, <<3, Appearance>> \o LittleEndian(value, 2))

AddTxPower(p, dbm) == AddData(p, <<2, TxPower, dbm>>)

\* The limits of a connection interval, as setPreferredParams() clamps them.
Between(v, low, high) == IF v < low THEN low ELSE IF v > high THEN high ELSE v
Preferred(min, max) ==
  LET low == Between(min, 6, 3200) IN <<low, Between(Between(max, 6, 3200), low, 3200)>>

SetPreferredParams(p, min, max) ==
  AddData(p, <<5, ConnInterval>> \o LittleEndian(Preferred(min, max)[1], 2)
               \o LittleEndian(Preferred(min, max)[2], 2))

\* Mutant: the length of the list is left as it was.
AddUuidToList(p, bytes) ==
  LET i == Location(p, ListType(Len(bytes)))
  IN IF i = 0 THEN AddData(p, <<Len(bytes) + 1, ListType(Len(bytes))>> \o bytes)
     ELSE IF Len(p) + Len(bytes) > MaxSize THEN Refused(p)
     ELSE Done(SubSeq(p, 1, i + p[i]) \o bytes \o SubSeq(p, i + p[i] + 1, Len(p)))

\* addServiceUUID(): at the end of the list of its size, or in a new one.
AddServiceUUID(p, bytes) ==
  LET i == Location(p, ListType(Len(bytes)))
      more == SubSeq(p, 1, i + p[i]) \o bytes \o SubSeq(p, i + p[i] + 1, Len(p))
  IN IF i = 0 THEN AddData(p, <<Len(bytes) + 1, ListType(Len(bytes))>> \o bytes)
     ELSE IF Len(p) + Len(bytes) > MaxSize THEN Refused(p)
     ELSE Done([more EXCEPT ![i] = @ + Len(bytes)])

\* The search of removeServiceUUID() goes on to the end of the payload, beyond
\* the list.
RECURSIVE MatchFrom(_, _, _)
MatchFrom(p, bytes, i) ==
  IF i + Len(bytes) - 1 > Len(p) THEN 0
  ELSE IF SubSeq(p, i, i + Len(bytes) - 1) = bytes THEN i ELSE MatchFrom(p, bytes, i + Len(bytes))

Match(p, bytes) ==
  LET i == Location(p, ListType(Len(bytes)))
  IN IF i = 0 THEN 0 ELSE MatchFrom(p, bytes, i + 2)

RemoveServiceUUID(p, bytes) ==
  LET i == Location(p, ListType(Len(bytes)))
      at == Match(p, bytes)
  IN IF at = 0 THEN Done(p)
     ELSE IF p[i] - Len(bytes) = 1 THEN RemoveData(p, p[i + 1])
     ELSE Done([SubSeq(p, 1, at - 1) \o SubSeq(p, at + Len(bytes), Len(p))
                  EXCEPT ![i] = @ - Len(bytes)])

\* removeServices() does nothing, and says that it succeeded.
RemoveServices(p) == Done(p)

ClearData(p) == Done(<< >>)

\* setManufacturerData(), setURI() of the legacy build: the field in one piece.
SetValue(p, type, value) ==
  IF Len(value) > MaxSize - 2 THEN Refused(p) ELSE AddData(p, <<Len(value) + 1, type>> \o value)

\* A name that is too long is cut, and no longer complete.
SetName(p, name, complete) ==
  LET cut == SubSeq(name, 1, Between(Len(name), 0, MaxSize - 2))
      whole == complete /\ cut = name
  IN AddData(p, <<Len(cut) + 1, IF whole THEN CompleteName ELSE ShortName>> \o cut)

IncompleteType(bytes) == ListType(bytes) - 1

\* The loop of setServices(): the UUIDs of the right size, until one does not fit.
OfSize(uuids, n) == SelectSeq(uuids, LAMBDA b : Len(b) = n)
Fitting(uuids, n) == Between(Len(OfSize(uuids, n)), 0, (MaxSize - 1 - 2) \div n)

SetServices(p, complete, n, uuids) ==
  LET taken == FlattenSeq(SubSeq(OfSize(uuids, n), 1, Fitting(uuids, n)))
      whole == complete /\ Fitting(uuids, n) = Len(OfSize(uuids, n))
  IN AddData(p, <<Len(taken) + 1, IF whole THEN ListType(n) ELSE IncompleteType(n)>> \o taken)

\* setServiceData(): no data takes away the first field of that size.
SetServiceData(p, bytes, value) ==
  IF 2 + Len(bytes) + Len(value) > MaxSize THEN Refused(p)
  ELSE IF value = << >> THEN Done(RemoveData(p, ServiceData[Len(bytes)]).data)
  ELSE AddData(p, <<Len(bytes) + Len(value) + 1, ServiceData[Len(bytes)]>> \o bytes \o value)
=============================================================================
