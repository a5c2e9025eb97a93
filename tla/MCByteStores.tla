---------------------------- MODULE MCByteStores ----------------------------
(***************************************************************************)
(* The two places where the library keeps bytes: the ring buffer of a      *)
(* stream and the value of an attribute.  A behaviour is one of either.    *)
(***************************************************************************)
EXTENDS ByteRingBuffer, NimBLEAttValue

VARIABLE store  \* "ring" or "value"

\* What the unused ring contains makes no difference.
StoresInit ==
  /\ store \in {"ring", "value"}
  /\ Init /\ AttInit
  /\ store = "value" => \A i, j \in DOMAIN rb.buf : rb.buf[i] = rb.buf[j]
RingStep == store = "ring" /\ Next /\ UNCHANGED <<store, attVars>>
ValueStep == store = "value" /\ AttNext /\ UNCHANGED <<store, vars>>

StoresSpec == StoresInit /\ [][RingStep \/ ValueStep]_<<store, vars, attVars>>

\* Nothing is claimed of an attribute's value after a race, so that TLC stops there.
NoRace == races = {}

\* One byte, as many as there is room for, more than that, more than is allowed.
MCTexts == {<<"a">>, <<"b", "b">>, <<"c", "c", "c">>}
=============================================================================
