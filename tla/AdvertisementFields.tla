------------------------- MODULE AdvertisementFields -------------------------
(***************************************************************************)
(* What an advertisement means: a sequence of fields, each with a type and *)
(* a value.  It is the reference for the code that builds payloads, which  *)
(* keeps bytes (NimBLEAdvertisementData, NimBLEExtAdvertisement), and for  *)
(* the code that reads them (NimBLEAdvertisedDevice).                      *)
(***************************************************************************)
EXTENDS Integers, Sequences, SequencesExt, NimBLEUUID

CONSTANT MaxSize  \* the bytes a payload may have

ASSUME PayloadAssumption == MaxSize \in 3..254

\* The assigned numbers of the types of fields.
Flags == 1
UuidLists == 2..7        \* incomplete and complete, of 16, 32 and 128 bits
ShortName == 8
CompleteName == 9
TxPower == 10
ConnInterval == 18
ServiceData == [bytes \in {2, 4, 16} |->
                  CASE bytes = 2 -> 22 [] bytes = 4 -> 32 [] bytes = 16 -> 33]
PublicTarget == 23
RandomTarget == 24
Appearance == 25
AdvInterval == 26
URI == 36
MfgData == 255

\* The bytes of one entry of a list of UUIDs.
EntrySize(type) == IF type <= 3 THEN 2 ELSE IF type <= 5 THEN 4 ELSE 16

\* The first 12 bytes of the Bluetooth base UUID, and of some other one.
BaseBytes == <<251, 52, 155, 95, 128, 0, 0, 128, 0, 16, 0, 0>>
OtherBytes == [i \in 1..12 |-> 200 + i]

LittleEndian(v, n) == [i \in 1..n |-> (v \div (256 ^ (i - 1))) % 256]
Value(bytes) == FoldLeftDomain(LAMBDA acc, i : acc + bytes[i] * 256 ^ (i - 1), 0, bytes)

\* getValue(): the bytes of a UUID, and the UUID made of 2, 4 or 16 bytes.
UuidBytes(u) ==
  CASE u.bits = 16 -> LittleEndian(u.val, 2)
    [] u.bits = 32 -> LittleEndian(u.val, 4)
    [] u.bits = 128 -> (IF u.base THEN BaseBytes ELSE OtherBytes) \o LittleEndian(u.val, 4)
UuidOf(bytes) ==
  CASE Len(bytes) = 2 -> UUID16(Value(bytes))
    [] Len(bytes) = 4 -> UUID32(Value(bytes))
    [] Len(bytes) = 16 -> UUID128(Value(SubSeq(bytes, 13, 16)), SubSeq(bytes, 1, 12) = BaseBytes)

-----------------------------------------------------------------------------
(* Fields and their bytes.                                                 *)

Field(type, value) == [type |-> type, value |-> value]

EncodeField(f) == <<Len(f.value) + 1, f.type>> \o f.value

Encode(fields) == FlattenSeq([i \in DOMAIN fields |-> EncodeField(fields[i])])

\* What an operation returns, and the fields it leaves.
Done(fields) == [ok |-> TRUE, data |-> fields]
Refused(fields) == [ok |-> FALSE, data |-> fields]

SizeOf(fields) == Len(Encode(fields))

Places(fields, type) == SelectInSeq(fields, LAMBDA f : f.type = type)

Append1(fields, f) ==
  IF SizeOf(fields) + 2 + Len(f.value) <= MaxSize THEN Done(Append(fields, f)) ELSE Refused(fields)

\* The first field of a type is taken away.
Without(fields, type) ==
  IF Places(fields, type) = 0 THEN Refused(fields)
  ELSE Done(RemoveAt(fields, Places(fields, type)))

\* Any flags are advertised with "no BR/EDR", 4.
FlagsByte(flag) == IF flag < 4 THEN flag + 4 ELSE flag

\* setFlags() of the legacy build: one field, replaced in place.  Without such
\* a field 0 adds one.
WithFlags(fields, value) ==
  IF Places(fields, Flags) = 0 THEN Append1(fields, Field(Flags, <<FlagsByte(value)>>))
  ELSE IF value = 0 THEN Without(fields, Flags)
  ELSE Done([fields EXCEPT ![Places(fields, Flags)].value = <<FlagsByte(value)>>])

\* The list of complete UUIDs of a size.
ListType(bytes) == CASE bytes = 2 -> 3 [] bytes = 4 -> 5 [] bytes = 16 -> 7

\* A UUID joins the first list of its size, or begins one.
WithUuid(fields, bytes) ==
  LET i == Places(fields, ListType(Len(bytes)))
  IN IF i = 0 THEN Append1(fields, Field(ListType(Len(bytes)), bytes))
     ELSE IF SizeOf(fields) + Len(bytes) > MaxSize THEN Refused(fields)
     ELSE Done([fields EXCEPT ![i].value = @ \o bytes])

\* The entries of a list of UUIDs.
Entries(f) ==
  LET n == EntrySize(f.type)
  IN [i \in 1..Len(f.value) \div n |-> SubSeq(f.value, n * (i - 1) + 1, n * i)]

\* A name that is longer than a field is cut, and no longer complete.
NameField(name, complete) ==
  IF Len(name) > MaxSize - 2 THEN Field(ShortName, SubSeq(name, 1, MaxSize - 2))
  ELSE Field(IF complete THEN CompleteName ELSE ShortName, name)

\* A list of the UUIDs of one size: as many as fit, complete if those are all.
ListField(complete, n, uuids) ==
  LET mine == SelectSeq(uuids, LAMBDA b : Len(b) = n)
      room == (MaxSize - 2) \div n
  IN IF Len(mine) > room THEN Field(ListType(n) - 1, FlattenSeq(SubSeq(mine, 1, room)))
     ELSE Field(IF complete THEN ListType(n) ELSE ListType(n) - 1, FlattenSeq(mine))

\* The UUID leaves the first list of its size, and an empty list goes.
WithoutUuid(fields, bytes) ==
  LET i == Places(fields, ListType(Len(bytes)))
      at == IF i = 0 THEN 0 ELSE SelectInSeq(Entries(fields[i]), LAMBDA e : e = bytes)
  IN IF at = 0 THEN Done(fields)
     ELSE IF Len(fields[i].value) = Len(bytes) THEN Without(fields, fields[i].type)
     ELSE Done([fields EXCEPT ![i].value = FlattenSeq(RemoveAt(Entries(fields[i]), at))])

-----------------------------------------------------------------------------
(* What a reader should find.                                              *)

OfType(fields, types) == SelectSeq(fields, LAMBDA f : f.type \in types)

\* The UUIDs of all lists, by type and then in the order of the payload.
Services(fields) ==
  FlattenSeq([t \in 1..6 |->
    FlattenSeq([i \in DOMAIN OfType(fields, {t + 1}) |-> Entries(OfType(fields, {t + 1})[i])])])

\* Each further list of a type has at most as many UUIDs as those before it.
ListsShrink(fields) ==
  \A t \in UuidLists :
    LET lists == OfType(fields, {t})
    IN \A i \in 2..Len(lists) :
         Len(lists[i].value) <= Len(FlattenSeq([j \in 1..i - 1 |-> lists[j].value]))

\* Service data, by the size of its UUID and then in the order of the payload.
AllServiceData(fields) ==
  OfType(fields, {22}) \o OfType(fields, {32}) \o OfType(fields, {33})

\* The first complete name, else the last short one.
NameOf(fields) ==
  LET complete == OfType(fields, {CompleteName})
      short == OfType(fields, {ShortName})
  IN IF complete # << >> THEN Head(complete).value
     ELSE IF short # << >> THEN Last(short).value ELSE << >>

\* The value of the first field of a type.
ValueOf(fields, type) ==
  LET found == OfType(fields, {type}) IN IF found = << >> THEN << >> ELSE Head(found).value
=============================================================================
