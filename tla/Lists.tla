-------------------------------- MODULE Lists --------------------------------
(***************************************************************************)
(* Lists by the positions that are picked from them and by the order of    *)
(* their members: what a loop leaves that skips or erases elements of a    *)
(* vector, and the order in which nested loops reach their elements.       *)
(***************************************************************************)
EXTENDS Integers, Sequences, FiniteSets

\* The members of S before a, and S as a list, in the order R, a set of pairs.
Preceding(a, S, R) == {b \in S : <<b, a>> \in R}
InOrder(S, R) ==
  [k \in 1..Cardinality(S) |-> CHOOSE a \in S : Cardinality(Preceding(a, S, R)) = k - 1]

\* The position with i of the positions K before it, if there is one, and the
\* elements at the positions K.
Nth(K, i) == {k \in K : Cardinality({j \in K : j < k}) = i}
Picked(seq, K) ==
  [i \in 1..Cardinality(K) |-> seq[CHOOSE k \in K : k \in Nth(K, i - 1)]]

\* seq without the elements of D.
Kept(seq, D) == Picked(seq, {k \in DOMAIN seq : seq[k] \notin D})
=============================================================================
