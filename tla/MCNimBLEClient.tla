--------------------------- MODULE MCNimBLEClient ---------------------------
(* Instances of NimBLEClient for TLC. *)
EXTENDS NimBLEClient

\* The tasks that make no call that blocks.
CONSTANT Helpers

HelperCalls == {"disconnect", "cancel", "delete"}

\* Every call is made, the blocking ones by one task only.
EveryCall ==
  [t \in Tasks |-> IF t \in Helpers THEN HelperCalls
                   ELSE AllCalls \ (HelperCalls \cup {"secureAsync"})]
WaitingCalls ==
  [t \in Tasks |-> IF t \in Helpers THEN {"cancel"}
                   ELSE {"connectAsync", "secure", "secureAsync"}]
SecureCalls == [t \in Tasks |-> {"connectAsync", "secure"}]

NoSelfDelete == {<<FALSE, FALSE>>}
=============================================================================
