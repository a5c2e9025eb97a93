--------------------------- MODULE NimBLEAddress ---------------------------
(***************************************************************************)
(* NimBLEAddress: a type and six bytes in the order of the host, the least *)
(* significant first, and the forms an address is made from and turned     *)
(* into.  A text is its digits as bytes, the most significant first, and   *)
(* whether there are delimiters.                                           *)
(***************************************************************************)
EXTENDS Integers, Sequences, SequencesExt

\* From a ble_addr_t, the native form; getVal() and getType() are its parts.
NativeAddress(val, type) == [val |-> val, type |-> type]

NullAddress == NativeAddress(<<0, 0, 0, 0, 0, 0>>, 0)

\* From six bytes in the order in which an address is written.
AddressOfBytes(bytes, type) == NativeAddress(Reverse(bytes), type)

\* From a number and into one, whose eight bytes begin with the least.
AddressOfNumber(number, type) == NativeAddress(SubSeq(number, 1, 6), type)
NumberOf(a) == a.val \o <<0, 0>>

TextLength(text) == 2 * Len(text.bytes) + (IF text.delimited THEN Len(text.bytes) - 1 ELSE 0)

\* From a text of 17 characters; every other is invalid.
AddressOfText(text, type) ==
  IF TextLength(text) = 17 THEN AddressOfNumber(Reverse(text.bytes) \o <<0, 0>>, type) ELSE NullAddress

\* The delimiter is an option of the build.
AddressText(a, delimited) == [bytes |-> Reverse(a.val), delimited |-> delimited]

ReversedAddress(a) == NativeAddress(Reverse(a.val), a.type)

SameAddress(a, b) == a.type = b.type /\ a.val = b.val
IsNull(a) == SameAddress(a, NullAddress)
=============================================================================
