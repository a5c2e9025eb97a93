----------------------------- MODULE NimBLEUUID -----------------------------
(***************************************************************************)
(* NimBLEUUID: its three sizes, their conversions and its equality.  A     *)
(* UUID of 128 bits is its last 32 bits and whether the others are those   *)
(* of the Bluetooth base UUID.                                             *)
(***************************************************************************)
EXTENDS Integers

CONSTANTS
  Short,  \* how many values 16 bits have
  Long    \* how many values 32 bits have

ASSUME SizeAssumption == Short \in Nat \ {0} /\ Long \in Nat /\ Short <= Long

UUID16(v) == [bits |-> 16, base |-> TRUE, val |-> v]
UUID32(v) == [bits |-> 32, base |-> TRUE, val |-> v]
UUID128(v, base) == [bits |-> 128, base |-> base, val |-> v]

UUID ==
  {UUID16(v) : v \in 0..Short - 1} \cup {UUID32(v) : v \in 0..Long - 1}
    \cup {UUID128(v, b) : v \in 0..Long - 1, b \in BOOLEAN}

\* A UUID that was not made of 16, 32 or 128 bits.
NoUUID == [bits |-> 0, base |-> FALSE, val |-> 0]

\* A text: what its digits say, how many characters they are and whether they
\* follow "0x".  std::string() puts it before the short forms.
Text(u, prefix) ==
  [prefix |-> prefix, base |-> u.base, val |-> u.val,
   chars |-> CASE u.bits = 16 -> 4 [] u.bits = 32 -> 8 [] u.bits = 128 -> 36]
TextOf(u) == Text(u, u.bits # 128)

\* The constructor from a text looks at its length, "0x" included.
UUIDOfText(t) ==
  LET length == IF t.prefix THEN t.chars + 2 ELSE t.chars
  IN CASE length = 4 -> UUID16(t.val) [] length = 8 -> UUID32(t.val)
       [] length = 36 -> UUID128(t.val, t.base) [] OTHER -> NoUUID

\* fromString() leaves "0x" away, but not before 36 characters.
FromString(t) ==
  CASE t.chars = 4 -> UUID16(t.val) [] t.chars = 8 -> UUID32(t.val)
    [] t.chars = 36 -> UUIDOfText(t) [] OTHER -> NoUUID

To128(u) == [u EXCEPT !.bits = 128]

\* Mutant: every UUID of 128 bits is cut.
To16Always(u) == UUID16(u.val % Short)

\* to16() looks at the first 96 bits and takes the last 16 of the value, also of
\* a UUID whose value has 32.
To16(u) == IF u.bits = 128 /\ u.base THEN UUID16(u.val % Short) ELSE u

\* operator==: only a UUID of 128 bits equals one of another size.
Equal(u, v) ==
  IF 0 \in {u.bits, v.bits} THEN FALSE
  ELSE IF u.bits # v.bits /\ 128 \notin {u.bits, v.bits} THEN FALSE ELSE To128(u) = To128(v)
=============================================================================
