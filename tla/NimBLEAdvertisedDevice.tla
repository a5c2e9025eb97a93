----------------------- MODULE NimBLEAdvertisedDevice -----------------------
(***************************************************************************)
(* How NimBLEAdvertisedDevice reads a payload that it received: the search *)
(* for a field and the functions that return the contents of one.          *)
(***************************************************************************)
EXTENDS NimBLEBeacon, NimBLEAddress

\* What one field adds to the count: its entries, for lists.
CountOf(type, length) ==
  IF type \in UuidLists THEN length \div EntrySize(type)
  ELSE IF type \in {PublicTarget, RandomTarget} THEN length \div 6
  ELSE 1

Hit(type, found) == found = type \/ (type = CompleteName /\ found = ShortName)

\* A short name is remembered, and the search goes on for a complete one.
OnlyShort(type, found) == type = CompleteName /\ found = ShortName

\* The loop of findAdvField() with a place to report, from the position i on.
RECURSIVE FindFrom(_, _, _, _, _, _)
FindFrom(p, type, index, i, count, loc) ==
  LET left == Len(p) - i + 1
      hit == Hit(type, p[i + 1])
      short == OnlyShort(type, p[i + 1])
      more == IF hit THEN count + CountOf(type, p[i]) ELSE count
      want == IF short THEN index + 1 ELSE index
  IN IF left <= 2 THEN [count |-> count, loc |-> loc]
     ELSE IF p[i] >= left THEN [count |-> count, loc |-> loc]
     ELSE IF hit /\ more > want THEN [count |-> more, loc |-> i]
     ELSE FindFrom(p, type, want, i + 1 + p[i], more, IF short THEN i ELSE loc)

\* findAdvField(type, index, &data_loc); loc is 0 if it was not set.
FindAdvField(p, type, index) == FindFrom(p, type, index, 1, 0, 0)

\* findAdvField(type): no place to report, so the whole payload is counted.
CountFields(p, type) == FindAdvField(p, type, 255).count

FieldLength(p, loc) == p[loc]
FieldValue(p, loc) == SubSeq(p, loc + 2, loc + p[loc])

\* getPayloadByType(): name, URI and manufacturer data.  With fields of the type
\* and an index past them the code reads a location that was never set: the
\* index is below the count, or there is no such field.
PayloadByType(p, type, index) ==
  LET f == FindAdvField(p, type, index)
  IN IF f.count > 0 THEN FieldValue(p, f.loc) ELSE << >>

Name(p) == PayloadByType(p, CompleteName, 0)
ManufacturerData(p, index) == PayloadByType(p, MfgData, index)
ManufacturerDataCount(p) == CountFields(p, MfgData)
GetURI(p) == PayloadByType(p, URI, 0)

\* The haveX() of the fields that are not in lists.
Have(p, type) == CountFields(p, type) > 0

\* The first field of a type, if it has the length.
FixedField(p, type, n) ==
  LET f == FindAdvField(p, type, 0)
  IN IF f.count > 0 /\ FieldLength(p, f.loc) = n + 1 THEN FieldValue(p, f.loc) ELSE << >>

\* A number of a field of n bytes, 0 if there is none.
Number(p, type, n, first, last) ==
  LET value == FixedField(p, type, n) IN IF value = << >> THEN 0 ELSE Value(SubSeq(value, first, last))

AdvFlags(p) == Number(p, Flags, 1, 1, 1)
GetAppearance(p) == Number(p, Appearance, 2, 1, 2)
GetAdvInterval(p) == Number(p, AdvInterval, 2, 1, 2)
MinInterval(p) == Number(p, ConnInterval, 4, 1, 2)
MaxInterval(p) == Number(p, ConnInterval, 4, 3, 4)
TXPower(p) == IF FixedField(p, TxPower, 1) = << >> THEN -99 ELSE Signed(FixedField(p, TxPower, 1)[1], 8)

\* The number, within its field, of an entry whose index is over all fields.
Adjusted(p, f, index, n) ==
  IF FieldLength(p, f.loc) < (index + 1) * n
  THEN index + 1 - (f.count - FieldLength(p, f.loc) \div n) ELSE index + 1

\* The entry of n bytes that the index selects, << >> for none.
Entry(p, f, index, n) ==
  LET k == Adjusted(p, f, index, n)
  IN IF FieldLength(p, f.loc) > k * n THEN SubSeq(p, f.loc + 2 + n * (k - 1), f.loc + 1 + n * k)
     ELSE << >>

\* getServiceUUID(): the types one after the other, the index less those passed.
RECURSIVE UuidFrom(_, _, _)
UuidFrom(p, type, index) ==
  LET f == FindAdvField(p, type, index)
  IN IF type \notin UuidLists THEN << >>
     ELSE IF f.count > index THEN Entry(p, f, index, EntrySize(type))
     ELSE UuidFrom(p, type + 1, index - f.count)

ServiceUUID(p, index) == UuidFrom(p, 2, index)

ServiceUUIDCount(p) == FoldSet(LAMBDA t, n : n + CountFields(p, t), 0, UuidLists)

\* A UUID that is not found is empty, and equals none.
IsAdvertisingService(p, u) ==
  \E i \in 0..ServiceUUIDCount(p) - 1 :
    ServiceUUID(p, i) # << >> /\ Equal(UuidOf(ServiceUUID(p, i)), u)

\* findServiceData(): by the size of the UUID; loc 0 stands for ULONG_MAX.
RECURSIVE ServiceDataFrom(_, _, _)
ServiceDataFrom(p, sizes, index) ==
  IF sizes = << >> THEN [loc |-> 0, bytes |-> 0]
  ELSE LET f == FindAdvField(p, ServiceData[Head(sizes)], index)
       IN IF f.count > index THEN [loc |-> f.loc, bytes |-> Head(sizes)]
          ELSE ServiceDataFrom(p, Tail(sizes), index - f.count)

FindServiceData(p, index) == ServiceDataFrom(p, <<2, 4, 16>>, index)

\* getServiceData(index) and getServiceDataUUID(index).
ServiceDataAt(p, index) ==
  LET d == FindServiceData(p, index)
  IN IF d.loc = 0 \/ FieldLength(p, d.loc) <= d.bytes THEN << >>
     ELSE SubSeq(FieldValue(p, d.loc), d.bytes + 1, FieldLength(p, d.loc) - 1)
ServiceDataUUID(p, index) ==
  LET d == FindServiceData(p, index)
  IN IF d.loc = 0 \/ FieldLength(p, d.loc) < d.bytes THEN << >>
     ELSE SubSeq(FieldValue(p, d.loc), 1, d.bytes)

ServiceDataCount(p) == FoldSet(LAMBDA n, c : c + CountFields(p, ServiceData[n]), 0, {2, 4, 16})

\* getServiceData(uuid): the first of its size that is equal.
RECURSIVE ServiceDataOf(_, _, _)
ServiceDataOf(p, u, index) ==
  LET d == FindServiceData(p, index)
  IN IF d.loc = 0 \/ d.loc > Len(p) - 2 THEN << >>
     ELSE IF d.bytes = u.bits \div 8 /\ Equal(UuidOf(ServiceDataUUID(p, index)), u)
     THEN ServiceDataAt(p, index)
     ELSE ServiceDataOf(p, u, index + 1)

HaveServiceUUID(p) == ServiceUUIDCount(p) > 0
HaveServiceData(p) == ServiceDataCount(p) > 0

\* getTargetAddress(): the public ones, then the random ones.  Its bytes are
\* taken for those of a written address, the type of its field for its own.
TargetOf(bytes, type) == IF bytes = << >> THEN NullAddress ELSE AddressOfBytes(bytes, type)
TargetAddress(p, index) ==
  LET public == FindAdvField(p, PublicTarget, index)
      random == FindAdvField(p, RandomTarget, index - public.count)
  IN IF public.count > index THEN TargetOf(Entry(p, public, index, 6), PublicTarget)
     ELSE IF random.count > 0 /\ random.loc # 0 
          THEN TargetOf(Entry(p, random, index - public.count, 6), RandomTarget)
     ELSE NullAddress

TargetAddressCount(p) == CountFields(p, PublicTarget) + CountFields(p, RandomTarget)
HaveTargetAddress(p) == TargetAddressCount(p) > 0
=============================================================================
