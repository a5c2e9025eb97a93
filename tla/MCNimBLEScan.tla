----------------------------- MODULE MCNimBLEScan -----------------------------
\* Settings of the scanner for the model checker.
EXTENDS NimBLEScan, TLC

Active(max, dups, midway) ==
  [max |-> max, passive |-> FALSE, dups |-> dups, midway |-> midway]
Passive(max, dups) == [Active(max, dups, {}) EXCEPT !.passive = TRUE]

\* Stored results, a limit of one, and callbacks only (maxResults == 0); only
\* the first is stopped from a callback, or by a task, in the middle of a report.
\* One scan is passive.
SafetySettings == {Active(Unlimited, TRUE, {"stop", "timeout"}),
                   Active(1, TRUE, {}), Active(0, TRUE, {}), Passive(Unlimited, TRUE)}

FilteredSettings == {Active(Unlimited, FALSE, {}), Active(0, FALSE, {})}

Symmetry == Permutations(Devices)

===============================================================================
