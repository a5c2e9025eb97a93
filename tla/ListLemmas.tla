------------------------------ MODULE ListLemmas ------------------------------
(***************************************************************************)
(* Facts about lists without repetitions, which the library keeps in       *)
(* vectors and in intrusive lists: one member added, and one removed; and  *)
(* about positions, of which a loop finds the first.                       *)
(***************************************************************************)
EXTENDS SequencesExt, Lists, SequenceTheorems, FiniteSetTheorems, WellFoundedInduction, TLAPS

\* The members of a list.
LEMMA Members ==
  ASSUME NEW S, NEW s \in Seq(S)
  PROVE  /\ ToSet(s) \subseteq S
         /\ \A a : a \in ToSet(s) <=> \E i \in 1..Len(s) : s[i] = a
         /\ \A a : Contains(s, a) <=> a \in ToSet(s)
         /\ (s = << >>) <=> (ToSet(s) = {})
<1>1. DOMAIN s = 1..Len(s) /\ Len(s) \in Nat
  OBVIOUS
<1>2. \A a : a \in ToSet(s) <=> \E i \in 1..Len(s) : s[i] = a
  BY <1>1 DEF ToSet
<1>3. \A i \in 1..Len(s) : s[i] \in S
  OBVIOUS
<1>4. (s = << >>) <=> (ToSet(s) = {})
  <2>1. ASSUME s # << >> PROVE s[1] \in ToSet(s)
    BY <1>1, <1>2, <2>1
  <2>2. s = << >> => Len(s) = 0
    OBVIOUS
  <2> QED
    BY <1>1, <1>2, <2>1, <2>2
<1> QED
  BY <1>1, <1>2, <1>3, <1>4 DEF Contains

\* The head of a list is one of its members.
LEMMA HeadIsMember ==
  ASSUME NEW S, NEW s \in Seq(S), s # << >>
  PROVE  Head(s) = s[1] /\ Head(s) \in ToSet(s)
BY Members

\* A list without one of its members, position by position.
LEMMA RemoveFirstIs ==
  ASSUME NEW S, NEW s \in Seq(S), IsInjective(s), NEW k \in 1..Len(s)
  PROVE  LET r == RemoveFirst(s, s[k])
         IN  /\ r \in Seq(S) /\ Len(r) = Len(s) - 1
             /\ \A i \in 1..Len(r) : r[i] = IF i < k THEN s[i] ELSE s[i + 1]
<1> DEFINE a == s[k]
<1>1. {i \in 1..Len(s) : s[i] = a} = {k}
  BY DEF IsInjective
<1>2. SelectInSeq(s, LAMBDA v : v = a) = k
  <2>1. SelectInSeq(s, LAMBDA v : v = a) = Min({i \in 1..Len(s) : s[i] = a})
    BY <1>1 DEF SelectInSeq
  <2>2. Min({k}) = k
    BY DEF Min
  <2> QED
    BY <1>1, <2>1, <2>2
<1>3. RemoveFirst(s, a) = SubSeq(s, 1, k - 1) \o SubSeq(s, k + 1, Len(s))
  BY <1>2 DEF RemoveFirst, RemoveAt
<1> DEFINE u == SubSeq(s, 1, k - 1)
           v == SubSeq(s, k + 1, Len(s))
           r == u \o v
<1>4. /\ u \in Seq(S) /\ Len(u) = k - 1
      /\ \A i \in 1..(k - 1) : u[i] = s[i]
  <2>1. \A i \in 1..(k - 1) : s[i] \in S
    OBVIOUS
  <2> QED
    BY <2>1, SubSeqProperties
<1>5. /\ v \in Seq(S) /\ Len(v) = Len(s) - k
      /\ \A i \in 1..(Len(s) - k) : v[i] = s[k + i]
  <2>1. \A i \in (k + 1)..Len(s) : s[i] \in S
    OBVIOUS
  <2> QED
    BY <2>1, SubSeqProperties
<1>6. RemoveFirst(s, s[k]) = r
  BY <1>3
<1> HIDE DEF u, v
<1>7. /\ r \in Seq(S) /\ Len(r) = Len(u) + Len(v)
      /\ \A i \in 1..(Len(u) + Len(v)) : r[i] = IF i <= Len(u) THEN u[i] ELSE v[i - Len(u)]
  BY <1>4, <1>5, ConcatProperties
<1> HIDE DEF r
<1>8. Len(r) = Len(s) - 1
  BY <1>4, <1>5, <1>7
<1>9. ASSUME NEW i \in 1..Len(r) PROVE r[i] = IF i < k THEN s[i] ELSE s[i + 1]
  <2>1. CASE i < k
    <3>1. i \in 1..(k - 1) /\ i <= Len(u)
      BY <1>4, <1>8, <2>1
    <3>2. r[i] = u[i]
      BY <1>7, <3>1
    <3> QED
      BY <1>4, <2>1, <3>1, <3>2
  <2>2. CASE ~(i < k)
    <3>1. i \in Int /\ ~(i <= Len(u)) /\ i - (k - 1) \in 1..(Len(s) - k)
      BY <1>4, <1>8, <2>2
    <3>2. r[i] = v[i - Len(u)]
      BY <1>7, <3>1
    <3>3. v[i - (k - 1)] = s[k + (i - (k - 1))] /\ k + (i - (k - 1)) = i + 1
      BY <1>5, <3>1
    <3> QED
      BY <1>4, <2>2, <3>2, <3>3
  <2> QED
    BY <2>1, <2>2
<1> QED
  BY <1>6, <1>7, <1>8, <1>9

\* Where a member of the shorter list was.
From(i, k) == IF i < k THEN i ELSE i + 1

\* Removing a member, or nothing, leaves the others, once each and in their order.
LEMMA RemoveFirstLemma ==
  ASSUME NEW S, NEW s \in Seq(S), IsInjective(s), NEW a
  PROVE  LET r == RemoveFirst(s, a)
         IN  /\ r \in Seq(S)
             /\ IsInjective(r)
             /\ ToSet(r) = ToSet(s) \ {a}
             /\ \A i, j \in 1..Len(r) :
                  i < j => \E m, n \in 1..Len(s) : m < n /\ r[i] = s[m] /\ r[j] = s[n]
             /\ s # << >> /\ Head(s) # a => r # << >> /\ Head(r) = Head(s)
             /\ s # << >> /\ Head(s) = a => Len(r) = Len(s) - 1
<1> DEFINE r == RemoveFirst(s, a)
<1>0. Len(s) \in Nat /\ \A i, j \in 1..Len(s) : s[i] = s[j] => i = j
  BY DEF IsInjective
<1>1. CASE a \notin ToSet(s)
  <2>1. r = s
    BY <1>1, Members DEF RemoveFirst
  <2>2. s # << >> => Head(s) # a
    BY <1>1, HeadIsMember
  <2> QED
    BY <1>1, <2>1, <2>2
<1>2. CASE a \in ToSet(s)
  <2>1. PICK k \in 1..Len(s) : s[k] = a
    BY <1>2, Members
  <2>2. /\ r \in Seq(S) /\ Len(r) = Len(s) - 1
        /\ \A i \in 1..Len(r) : r[i] = IF i < k THEN s[i] ELSE s[i + 1]
    BY <2>1, RemoveFirstIs
  <2> HIDE DEF r
  <2>3. \A i \in 1..Len(r) : From(i, k) \in 1..Len(s) /\ From(i, k) # k /\ r[i] = s[From(i, k)]
    BY <1>0, <2>1, <2>2 DEF From
  <2>4. \A i, j \in 1..Len(r) : i < j => From(i, k) < From(j, k)
    BY <1>0, <2>1, <2>2 DEF From
  <2>5. ASSUME NEW i \in 1..Len(r), NEW j \in 1..Len(r), r[i] = r[j] PROVE i = j
    <3>1. From(i, k) = From(j, k)
      BY <1>0, <2>3, <2>5
    <3> QED
      BY <2>2, <2>4, <3>1, <1>0, <2>1 DEF From
  <2>6. DOMAIN r = 1..Len(r)
    BY <2>2
  <2>7. IsInjective(r)
    BY <2>5, <2>6 DEF IsInjective
  <2>8. ASSUME NEW b \in ToSet(s) \ {a} PROVE b \in ToSet(r)
    <3>1. PICK j \in 1..Len(s) : s[j] = b
      BY Members
    <3>2. j # k
      BY <2>1, <2>8, <3>1
    <3>3. CASE j < k
      <4>1. j \in 1..Len(r) /\ r[j] = b
        BY <1>0, <2>1, <2>2, <3>1, <3>3
      <4> QED
        BY <2>2, <4>1, Members
    <3>4. CASE j > k
      <4>1. j - 1 \in 1..Len(r) /\ r[j - 1] = b
        BY <1>0, <2>1, <2>2, <3>1, <3>4
      <4> QED
        BY <2>2, <4>1, Members
    <3> QED
      BY <1>0, <2>1, <3>2, <3>3, <3>4
  <2>9. ASSUME NEW b \in ToSet(r) PROVE b \in ToSet(s) \ {a}
    <3>1. PICK i \in 1..Len(r) : r[i] = b
      BY <2>2, Members
    <3>2. b = s[From(i, k)] /\ From(i, k) \in 1..Len(s) /\ From(i, k) # k
      BY <2>3, <3>1
    <3> QED
      BY <1>0, <2>1, <3>2, Members
  <2>10. ToSet(r) = ToSet(s) \ {a}
    BY <2>8, <2>9
  <2>11. ASSUME s # << >>, Head(s) # a PROVE r # << >> /\ Head(r) = Head(s)
    <3>1. k # 1 /\ Len(s) >= 2
      BY <1>0, <2>1, <2>11
    <3>2. 1 \in 1..Len(r) /\ r[1] = s[1]
      BY <1>0, <2>1, <2>2, <3>1
    <3> QED
      BY <2>2, <2>11, <3>2
  <2>12. \A i, j \in 1..Len(r) :
           i < j => \E m, n \in 1..Len(s) : m < n /\ r[i] = s[m] /\ r[j] = s[n]
    BY <2>3, <2>4
  <2> QED
    BY <2>2, <2>7, <2>10, <2>11, <2>12 DEF r
<1> QED
  BY <1>1, <1>2

\* A new member goes to the end.
LEMMA AppendLemma ==
  ASSUME NEW S, NEW s \in Seq(S), IsInjective(s), NEW a \in S, a \notin ToSet(s)
  PROVE  LET r == Append(s, a)
         IN  /\ r \in Seq(S)
             /\ IsInjective(r)
             /\ ToSet(r) = ToSet(s) \cup {a}
             /\ Len(r) = Len(s) + 1 /\ r[Len(s) + 1] = a
             /\ \A i \in 1..Len(s) : r[i] = s[i]
             /\ Head(r) = IF s = << >> THEN a ELSE Head(s)
<1> DEFINE r == Append(s, a)
<1>1. /\ r \in Seq(S) /\ Len(r) = Len(s) + 1 /\ r[Len(s) + 1] = a
      /\ \A i \in 1..Len(s) : r[i] = s[i]
  OBVIOUS
<1>2. Head(r) = r[1]
  BY <1>1
<1> HIDE DEF r
<1>3. \A i \in 1..Len(s) : s[i] # a
  BY Members
<1>4. Head(r) = IF s = << >> THEN a ELSE Head(s)
  BY <1>1, <1>2
<1>5. Len(s) \in Nat
  OBVIOUS
<1>6. \A i, j \in 1..Len(s) : s[i] = s[j] => i = j
  BY DEF IsInjective
<1>7. ASSUME NEW i \in 1..Len(r), NEW j \in 1..Len(r), r[i] = r[j] PROVE i = j
  BY <1>1, <1>3, <1>5, <1>6, <1>7
<1>8. IsInjective(r)
  BY <1>1, <1>7 DEF IsInjective
<1>9. \A b : b \in ToSet(r) <=> b \in ToSet(s) \cup {a}
  <2>1. \A b : b \in ToSet(r) <=> \E i \in 1..Len(r) : r[i] = b
    BY <1>1, Members
  <2>2. \A b : b \in ToSet(s) <=> \E i \in 1..Len(s) : s[i] = b
    BY Members
  <2>3. \A i : i \in 1..Len(r) <=> i \in 1..Len(s) \/ i = Len(s) + 1
    BY <1>1, <1>5
  <2> QED
    BY <1>1, <2>1, <2>2, <2>3
<1> QED
  BY <1>1, <1>4, <1>8, <1>9 DEF r

\* The head goes.
LEMMA TailLemma ==
  ASSUME NEW S, NEW s \in Seq(S), IsInjective(s), s # << >>
  PROVE  /\ Head(s) \in S /\ Tail(s) \in Seq(S) /\ IsInjective(Tail(s))
         /\ Head(s) \notin ToSet(Tail(s)) /\ ToSet(s) = {Head(s)} \cup ToSet(Tail(s))
<1> DEFINE r == Tail(s)
<1>1. /\ Head(s) \in S /\ r \in Seq(S) /\ Len(r) = Len(s) - 1 /\ \A i \in 1..Len(r) : r[i] = s[i + 1]
  BY HeadTailProperties
<1>2. Head(s) = s[1] /\ Len(s) \in Nat /\ Len(s) # 0
  OBVIOUS
<1> HIDE DEF r
<1>3. \A i, j \in 1..Len(s) : s[i] = s[j] => i = j
  BY DEF IsInjective
<1>4. ASSUME NEW i \in 1..Len(r), NEW j \in 1..Len(r), r[i] = r[j] PROVE i = j
  <2>1. i + 1 \in 1..Len(s) /\ j + 1 \in 1..Len(s) /\ s[i + 1] = s[j + 1]
    BY <1>1, <1>2, <1>4
  <2>2. i + 1 = j + 1
    BY <1>3, <2>1
  <2> QED
    BY <2>2
<1>5. IsInjective(r)
  BY <1>1, <1>4 DEF IsInjective
<1>6. \A a : a \in ToSet(s) <=> \E i \in 1..Len(s) : s[i] = a
  BY Members
<1>7. \A a : a \in ToSet(r) <=> \E i \in 1..Len(r) : r[i] = a
  BY <1>1, Members
<1>8. Head(s) \notin ToSet(r)
  <2>1. ASSUME NEW i \in 1..Len(r) PROVE r[i] # Head(s)
    <3>1. i + 1 \in 1..Len(s) /\ 1 \in 1..Len(s) /\ i + 1 # 1 /\ r[i] = s[i + 1]
      BY <1>1, <1>2
    <3> QED
      BY <1>2, <1>3, <3>1
  <2> QED
    BY <1>7, <2>1
<1>9. ASSUME NEW a PROVE a \in ToSet(s) <=> a \in {Head(s)} \cup ToSet(r)
  <2>1. ASSUME a \in ToSet(s) PROVE a \in {Head(s)} \cup ToSet(r)
    <3>1. PICK i \in 1..Len(s) : s[i] = a
      BY <1>6, <2>1
    <3>2. CASE i = 1
      BY <1>2, <3>1, <3>2
    <3>3. CASE i # 1
      <4>1. i - 1 \in 1..Len(r) /\ r[i - 1] = s[(i - 1) + 1] /\ (i - 1) + 1 = i
        BY <1>1, <1>2, <3>3
      <4> QED
        BY <1>7, <3>1, <4>1
    <3> QED
      BY <3>2, <3>3
  <2>2. ASSUME a \in ToSet(r) PROVE a \in ToSet(s)
    <3>1. PICK i \in 1..Len(r) : r[i] = a
      BY <1>7, <2>2
    <3>2. i + 1 \in 1..Len(s) /\ s[i + 1] = a
      BY <1>1, <1>2, <3>1
    <3> QED
      BY <1>6, <3>2
  <2>3. Head(s) \in ToSet(s)
    BY HeadIsMember
  <2> QED
    BY <2>1, <2>2, <2>3
<1> QED
  BY <1>1, <1>5, <1>8, <1>9 DEF r

\* Two lists, one after the other.
LEMMA ConcatLemma ==
  ASSUME NEW S, NEW s \in Seq(S), NEW t \in Seq(S)
  PROVE  /\ s \o t \in Seq(S) /\ ToSet(s \o t) = ToSet(s) \cup ToSet(t)
         /\ IsInjective(s \o t) <=>
              IsInjective(s) /\ IsInjective(t) /\ ToSet(s) \cap ToSet(t) = {}
<1> DEFINE r == s \o t
<1>1. /\ r \in Seq(S) /\ Len(r) = Len(s) + Len(t) /\ Len(s) \in Nat /\ Len(t) \in Nat
      /\ \A i \in 1..(Len(s) + Len(t)) : r[i] = IF i <= Len(s) THEN s[i] ELSE t[i - Len(s)]
  BY ConcatProperties
<1> HIDE DEF r
<1>2. \A i \in 1..Len(s) : i \in 1..Len(r) /\ r[i] = s[i]
  BY <1>1
<1>3. \A j \in 1..Len(t) : Len(s) + j \in 1..Len(r) /\ r[Len(s) + j] = t[j]
  <2>1. ASSUME NEW j \in 1..Len(t) PROVE Len(s) + j \in 1..Len(r) /\ r[Len(s) + j] = t[j]
    <3>1. Len(s) + j \in 1..(Len(s) + Len(t)) /\ ~(Len(s) + j <= Len(s)) /\ (Len(s) + j) - Len(s) = j
      BY <1>1
    <3> QED
      BY <1>1, <3>1
  <2> QED
    BY <2>1
<1>4. ASSUME NEW i \in 1..Len(r)
      PROVE  \/ i \in 1..Len(s) /\ r[i] = s[i]
             \/ i - Len(s) \in 1..Len(t) /\ r[i] = t[i - Len(s)]
  BY <1>1
<1>5. /\ \A a : a \in ToSet(r) <=> \E i \in 1..Len(r) : r[i] = a
      /\ \A a : a \in ToSet(s) <=> \E i \in 1..Len(s) : s[i] = a
      /\ \A a : a \in ToSet(t) <=> \E i \in 1..Len(t) : t[i] = a
  BY <1>1, Members
<1>6. ToSet(r) = ToSet(s) \cup ToSet(t)
  <2>1. ASSUME NEW a \in ToSet(r) PROVE a \in ToSet(s) \cup ToSet(t)
    <3>1. PICK i \in 1..Len(r) : r[i] = a
      BY <1>5
    <3> QED
      BY <1>4, <1>5, <3>1
  <2>2. ASSUME NEW a \in ToSet(s) \cup ToSet(t) PROVE a \in ToSet(r)
    BY <1>2, <1>3, <1>5
  <2> QED
    BY <2>1, <2>2
<1>7. ASSUME IsInjective(r) PROVE IsInjective(s) /\ IsInjective(t) /\ ToSet(s) \cap ToSet(t) = {}
  <2>1. \A i, j \in 1..Len(r) : r[i] = r[j] => i = j
    <3>1. DOMAIN r = 1..Len(r)
      BY <1>1
    <3> QED
      BY <1>7, <3>1 DEF IsInjective
  <2>2. IsInjective(s)
    BY <1>2, <2>1 DEF IsInjective
  <2>3. ASSUME NEW i \in 1..Len(t), NEW j \in 1..Len(t), t[i] = t[j] PROVE i = j
    <3>1. Len(s) + i = Len(s) + j
      BY <1>3, <2>1, <2>3
    <3> QED
      BY <1>1, <3>1
  <2>4. IsInjective(t)
    BY <2>3 DEF IsInjective
  <2>5. ASSUME NEW i \in 1..Len(s), NEW j \in 1..Len(t) PROVE s[i] # t[j]
    <3>1. i # Len(s) + j
      BY <1>1
    <3> QED
      BY <1>2, <1>3, <2>1, <3>1
  <2> QED
    BY <1>5, <2>2, <2>4, <2>5
<1>8. ASSUME IsInjective(s), IsInjective(t), ToSet(s) \cap ToSet(t) = {} PROVE IsInjective(r)
  <2>1. /\ \A i, j \in 1..Len(s) : s[i] = s[j] => i = j
        /\ \A i, j \in 1..Len(t) : t[i] = t[j] => i = j
    BY <1>8 DEF IsInjective
  <2>2. \A i \in 1..Len(s), j \in 1..Len(t) : s[i] # t[j]
    BY <1>5, <1>8
  <2>3. ASSUME NEW i \in 1..Len(r), NEW j \in 1..Len(r), r[i] = r[j] PROVE i = j
    <3>1. CASE i \in 1..Len(s) /\ r[i] = s[i]
      BY <1>4, <2>1, <2>2, <2>3, <3>1
    <3>2. CASE i - Len(s) \in 1..Len(t) /\ r[i] = t[i - Len(s)]
      <4>1. CASE j \in 1..Len(s) /\ r[j] = s[j]
        BY <2>2, <2>3, <3>2, <4>1
      <4>2. CASE j - Len(s) \in 1..Len(t) /\ r[j] = t[j - Len(s)]
        <5>1. i - Len(s) = j - Len(s)
          BY <2>1, <2>3, <3>2, <4>2
        <5> QED
          BY <1>1, <5>1
      <4> QED
        BY <1>4, <4>1, <4>2
    <3> QED
      BY <1>4, <3>1, <3>2
  <2> QED
    BY <1>1, <2>3 DEF IsInjective
<1> QED
  BY <1>1, <1>6, <1>7, <1>8 DEF r

\* Positions that are not none have a first.
LEMMA LeastIs ==
  ASSUME NEW S, S \subseteq Nat, S # {}
  PROVE  \E x \in S : \A y \in S : x <= y
<1> DEFINE R == OpToRel(<, Nat)
<1>1. \A x, y \in Nat : <<x, y>> \in R <=> x < y
  BY DEF OpToRel
<1>2. IsWellFoundedOn(R, Nat)
  BY NatLessThanWellFounded
<1> HIDE DEF R
<1>3. PICK x \in S : \A y \in S : <<y, x>> \notin R
  BY <1>2, WFMin
<1>4. \A y \in S : x <= y
  <2> TAKE y \in S
  <2>1. x \in Nat /\ y \in Nat
    OBVIOUS
  <2>2. ~(y < x)
    BY <1>1, <1>3, <2>1
  <2> QED
    BY <2>1, <2>2
<1> QED
  BY <1>4

\* R orders S strictly and totally.
StrictOrder(R, S) ==
  /\ \A a \in S : <<a, a>> \notin R
  /\ \A a, b \in S : a # b => <<a, b>> \in R \/ <<b, a>> \in R
  /\ \A a, b, c \in S : <<a, b>> \in R /\ <<b, c>> \in R => <<a, c>> \in R

\* Each member of an ordered set has another number of members before it.
LEMMA RanksAre ==
  ASSUME NEW S, IsFiniteSet(S), NEW R, StrictOrder(R, S)
  PROVE  /\ Cardinality(S) \in Nat
         /\ \A a \in S : Cardinality(Preceding(a, S, R)) \in 0..(Cardinality(S) - 1)
         /\ \A i \in 0..(Cardinality(S) - 1) : \E a \in S : Cardinality(Preceding(a, S, R)) = i
         /\ \A a, b \in S : <<a, b>> \in R =>
              Cardinality(Preceding(a, S, R)) < Cardinality(Preceding(b, S, R))
         /\ \A a, b \in S :
              Cardinality(Preceding(a, S, R)) = Cardinality(Preceding(b, S, R)) => a = b
<1> DEFINE Below(a) == Preceding(a, S, R)
           N == Cardinality(S)
           rank == [a \in S |-> Cardinality(Below(a))]
<1>1. N \in Nat
  BY FS_CardinalityType
<1>2. ASSUME NEW D \in SUBSET S, NEW E \in SUBSET D, D # E
      PROVE  Cardinality(D) \in Nat /\ Cardinality(E) \in Nat /\ Cardinality(E) < Cardinality(D)
  <2>1. IsFiniteSet(D)
    BY FS_Subset
  <2>2. IsFiniteSet(E) /\ Cardinality(E) <= Cardinality(D) /\ Cardinality(E) # Cardinality(D)
    BY <1>2, <2>1, FS_Subset
  <2> QED
    BY <2>1, <2>2, FS_CardinalityType
<1>3. ASSUME NEW a \in S PROVE Cardinality(Below(a)) \in 0..(N - 1)
  <2>1. Below(a) \in SUBSET S /\ a \notin Below(a)
    BY DEF StrictOrder, Preceding
  <2>2. S # Below(a)
    BY <2>1
  <2> HIDE DEF Below
  <2> QED
    BY <1>1, <1>2, <2>1, <2>2
<1>4. ASSUME NEW a \in S, NEW b \in S, <<a, b>> \in R
      PROVE  Cardinality(Below(a)) < Cardinality(Below(b))
  <2>1. Below(a) \in SUBSET Below(b) /\ a \in Below(b) /\ a \notin Below(a) /\ Below(b) \in SUBSET S
    BY <1>4 DEF StrictOrder, Preceding
  <2> HIDE DEF Below
  <2>2. Below(b) # Below(a)
    BY <2>1
  <2> QED
    BY <1>2, <2>1, <2>2
<1>5. ASSUME NEW a \in S, NEW b \in S, Cardinality(Below(a)) = Cardinality(Below(b)) PROVE a = b
  <2> HIDE DEF Below
  <2>1. a = b \/ <<a, b>> \in R \/ <<b, a>> \in R
    BY DEF StrictOrder
  <2>2. Cardinality(Below(a)) \in Nat /\ Cardinality(Below(b)) \in Nat
    BY <1>3
  <2> QED
    BY <1>4, <1>5, <2>1, <2>2
<1>6. rank \in Injection(S, 0..(N - 1))
  <2> HIDE DEF Below
  <2>1. rank \in [S -> 0..(N - 1)]
    BY <1>3
  <2>2. \A a \in S : rank[a] = Cardinality(Below(a))
    OBVIOUS
  <2> HIDE DEF rank
  <2> QED
    BY <1>5, <2>1, <2>2 DEF Injection, IsInjective
<1>7. IsFiniteSet(0..(N - 1)) /\ Cardinality(0..(N - 1)) = N
  <2> HIDE DEF N
  <2> QED
    BY <1>1, FS_Interval
<1>8. rank \in Surjection(S, 0..(N - 1))
  <2>1. PICK T : T = 0..(N - 1)
    OBVIOUS
  <2> HIDE DEF rank
  <2> QED
    BY <1>6, <1>7, <2>1, FS_Injection
<1>9. \A i \in 0..(N - 1) : \E a \in S : Cardinality(Below(a)) = i
  <2> HIDE DEF Below, N
  <2> QED
    BY <1>8 DEF Surjection
<1> QED
  BY <1>1, <1>3, <1>4, <1>5, <1>9

\* An ordered set as a list has all its members, in their order.
LEMMA InOrderIs ==
  ASSUME NEW S, IsFiniteSet(S), NEW R, StrictOrder(R, S)
  PROVE  LET q == InOrder(S, R)
         IN  /\ q \in Seq(S) /\ Len(q) = Cardinality(S) /\ ToSet(q) = S
             /\ \A i, j \in 1..Len(q) : i < j => <<q[i], q[j]>> \in R
<1> DEFINE N == Cardinality(S)
           q == InOrder(S, R)
           rank(a) == Cardinality(Preceding(a, S, R))
<1> HIDE DEF rank
<1>1. /\ N \in Nat
      /\ \A a \in S : rank(a) \in 0..(N - 1)
      /\ \A i \in 0..(N - 1) : \E a \in S : rank(a) = i
      /\ \A a, b \in S : <<a, b>> \in R => rank(a) < rank(b)
      /\ \A a, b \in S : rank(a) = rank(b) => a = b
  BY RanksAre DEF rank
<1>2. q = [k \in 1..N |-> CHOOSE a \in S : rank(a) = k - 1]
  BY DEF InOrder, rank
<1> HIDE DEF N, q
<1>3. ASSUME NEW k \in 1..N PROVE q[k] \in S /\ rank(q[k]) = k - 1
  <2>1. k - 1 \in 0..(N - 1)
    BY <1>1
  <2>2. \E a \in S : rank(a) = k - 1
    BY <1>1, <2>1
  <2> QED
    BY <1>2, <2>2
<1>4. q \in Seq(S) /\ Len(q) = N
  BY <1>1, <1>2, <1>3
<1>5. ToSet(q) = S
  <2>1. ASSUME NEW a \in S PROVE \E k \in 1..N : q[k] = a
    <3>1. rank(a) + 1 \in 1..N
      BY <1>1
    <3>2. rank(q[rank(a) + 1]) = rank(a) /\ q[rank(a) + 1] \in S
      BY <1>1, <1>3, <3>1
    <3> QED
      BY <1>1, <3>1, <3>2
  <2>2. \A a : a \in ToSet(q) <=> \E i \in 1..N : q[i] = a
    BY <1>4, Members
  <2> QED
    BY <1>3, <2>1, <2>2
<1>6. ASSUME NEW i \in 1..N, NEW j \in 1..N, i < j PROVE <<q[i], q[j]>> \in R
  <2>1. q[i] # q[j] /\ ~(rank(q[j]) < rank(q[i]))
    BY <1>1, <1>3, <1>6
  <2> QED
    BY <1>1, <1>3, <2>1 DEF StrictOrder
<1> QED
  BY <1>4, <1>5, <1>6 DEF q, N

\* The positions K of a list, one after the other.
LEMMA NthIs ==
  ASSUME NEW n \in Nat, NEW K \in SUBSET (1..n)
  PROVE  /\ IsFiniteSet(K) /\ Cardinality(K) \in 0..n
         /\ \A i \in 0..(Cardinality(K) - 1) : \E k \in K : Nth(K, i) = {k}
         /\ \A i \in Nat : i >= Cardinality(K) => Nth(K, i) = {}
         /\ \A k \in K : \E i \in 0..(Cardinality(K) - 1) : Nth(K, i) = {k}
         /\ \A i, j \in Nat : \A k, l : k \in Nth(K, i) /\ l \in Nth(K, j) /\ i < j => k < l
<1> DEFINE rank(k) == Cardinality({j \in K : j < k})
           N == Cardinality(K)
<1>1. IsFiniteSet(K) /\ N \in 0..n
  <2>1. IsFiniteSet(1..n) /\ Cardinality(1..n) = n
    BY FS_Interval
  <2>2. IsFiniteSet(K) /\ Cardinality(K) <= n
    BY <2>1, FS_Subset
  <2> QED
    BY <2>2, FS_CardinalityType
<1>2. PICK R : \A k, l \in K : <<k, l>> \in R <=> k < l
  <2> DEFINE R == {p \in K \X K : p[1] < p[2]}
  <2>1. \A k, l \in K : <<k, l>> \in R <=> k < l
    OBVIOUS
  <2> QED
    BY <2>1
<1>3. \A k \in K : Preceding(k, K, R) = {j \in K : j < k}
  BY <1>2 DEF Preceding
<1>4. StrictOrder(R, K)
  <2>1. \A k \in K : k \in Nat
    OBVIOUS
  <2> QED
    BY <1>2, <2>1 DEF StrictOrder
<1>5. /\ \A k \in K : rank(k) \in 0..(N - 1)
      /\ \A i \in 0..(N - 1) : \E k \in K : rank(k) = i
      /\ \A k, l \in K : k < l => rank(k) < rank(l)
      /\ \A k, l \in K : rank(k) = rank(l) => k = l
  <2>0. IsFiniteSet(K) /\ Cardinality(K) \in Nat
    BY <1>1
  <2>1. \A k \in K : Cardinality(Preceding(k, K, R)) = rank(k)
    BY <1>3
  <2>2. /\ \A k \in K : Cardinality(Preceding(k, K, R)) \in 0..(Cardinality(K) - 1)
        /\ \A k, l \in K : <<k, l>> \in R =>
             Cardinality(Preceding(k, K, R)) < Cardinality(Preceding(l, K, R))
        /\ \A k, l \in K :
             Cardinality(Preceding(k, K, R)) = Cardinality(Preceding(l, K, R)) => k = l
    BY <2>0, <1>4, RanksAre
  <2>3. ASSUME NEW i \in 0..(Cardinality(K) - 1)
        PROVE  \E k \in K : Cardinality(Preceding(k, K, R)) = i
    BY <2>0, <1>4, RanksAre
  <2> HIDE DEF rank, N
  <2>4. \A i \in 0..(Cardinality(K) - 1) : \E k \in K : rank(k) = i
    BY <2>1, <2>3
  <2>5. ASSUME NEW k \in K, NEW l \in K, k < l PROVE rank(k) < rank(l)
    <3>1. <<k, l>> \in R
      BY <1>2, <2>5
    <3>2. Cardinality(Preceding(k, K, R)) < Cardinality(Preceding(l, K, R))
      BY <2>2, <3>1
    <3> QED
      BY <2>1, <3>2
  <2>6. ASSUME NEW k \in K, NEW l \in K, rank(k) = rank(l) PROVE k = l
    BY <2>1, <2>2, <2>6
  <2> QED
    BY <2>1, <2>2, <2>4, <2>5, <2>6 DEF N
<1>6. \A i, k : k \in Nth(K, i) <=> k \in K /\ rank(k) = i
  BY DEF Nth
<1> HIDE DEF rank, N
<1>7. ASSUME NEW i \in 0..(N - 1) PROVE \E k \in K : Nth(K, i) = {k}
  <2>1. PICK k \in K : rank(k) = i
    BY <1>5
  <2>2. \A l : l \in Nth(K, i) <=> l = k
    BY <1>5, <1>6, <2>1
  <2> QED
    BY <2>2
<1>8. ASSUME NEW i \in Nat, i >= N PROVE Nth(K, i) = {}
  <2>1. \A k \in K : rank(k) # i
    BY <1>1, <1>5, <1>8
  <2> QED
    BY <1>6, <2>1
<1>9. ASSUME NEW k \in K PROVE \E i \in 0..(N - 1) : Nth(K, i) = {k}
  <2>1. \A l : l \in Nth(K, rank(k)) <=> l = k
    BY <1>5, <1>6
  <2>2. rank(k) \in 0..(N - 1)
    BY <1>5
  <2> QED
    BY <2>1, <2>2
<1>10. ASSUME NEW i \in Nat, NEW j \in Nat, NEW k, NEW l, k \in Nth(K, i), l \in Nth(K, j), i < j PROVE k < l
  <2>1. k \in K /\ l \in K /\ rank(k) < rank(l)
    BY <1>6, <1>10
  <2>2. k # l /\ ~(l < k) /\ k \in Nat /\ l \in Nat
    BY <1>5, <2>1, <1>10, <1>6
  <2> QED
    BY <2>2
<1> QED
  BY <1>1, <1>7, <1>8, <1>9, <1>10 DEF N

\* The elements picked from a list, by the places where they were.
LEMMA PickedIs ==
  ASSUME NEW T, NEW s \in Seq(T), NEW K \in SUBSET (1..Len(s))
  PROVE  /\ Picked(s, K) \in Seq(T) /\ Len(Picked(s, K)) = Cardinality(K)
         /\ \E f \in [1..Cardinality(K) -> K] :
              /\ \A i \in 1..Cardinality(K) : Nth(K, i - 1) = {f[i]} /\ Picked(s, K)[i] = s[f[i]]
              /\ \A k \in K : \E i \in 1..Cardinality(K) : f[i] = k
              /\ \A i, j \in 1..Cardinality(K) : i < j => f[i] < f[j]
<1> DEFINE N == Cardinality(K)
           f == [i \in 1..N |-> CHOOSE k \in K : k \in Nth(K, i - 1)]
<1>1. N \in Nat
  BY NthIs
<1>2. Picked(s, K) = [i \in 1..N |-> s[f[i]]]
  BY DEF Picked
<1>3. \A i \in 1..N : f[i] = CHOOSE k \in K : k \in Nth(K, i - 1)
  OBVIOUS
<1>4. DOMAIN f = 1..N /\ f = [i \in 1..N |-> f[i]]
  OBVIOUS
<1> HIDE DEF f
<1>5. ASSUME NEW i \in 1..N PROVE f[i] \in K /\ Nth(K, i - 1) = {f[i]}
  <2>1. i - 1 \in 0..(N - 1)
    BY <1>1
  <2>2. PICK k \in K : Nth(K, i - 1) = {k}
    BY <2>1, NthIs
  <2>3. k \in K /\ k \in Nth(K, i - 1)
    BY <2>2
  <2>4. f[i] \in K /\ f[i] \in Nth(K, i - 1)
    BY <1>3, <2>3
  <2> QED
    BY <2>2, <2>4
<1>6. ASSUME NEW k \in K PROVE \E i \in 1..N : f[i] = k
  <2>1. PICK i \in 0..(N - 1) : Nth(K, i) = {k}
    BY NthIs
  <2>2. i + 1 \in 1..N /\ (i + 1) - 1 = i
    BY <1>1
  <2>3. {f[i + 1]} = {k}
    BY <1>5, <2>1, <2>2
  <2> QED
    BY <2>2, <2>3
<1>7. ASSUME NEW i \in 1..N, NEW j \in 1..N, i < j PROVE f[i] < f[j]
  <2>1. i - 1 \in Nat /\ j - 1 \in Nat /\ i - 1 < j - 1
    BY <1>1, <1>7
  <2>2. f[i] \in Nth(K, i - 1) /\ f[j] \in Nth(K, j - 1)
    BY <1>5
  <2> QED
    BY <2>1, <2>2, NthIs
<1>8. f \in [1..N -> K]
  BY <1>4, <1>5
<1> HIDE DEF N
<1>9. Picked(s, K) \in Seq(T) /\ Len(Picked(s, K)) = N
  <2>1. ASSUME NEW i \in 1..N PROVE s[f[i]] \in T
    <3>1. f[i] \in 1..Len(s)
      BY <1>5
    <3> QED
      BY <3>1
  <2> QED
    BY <1>1, <1>2, <2>1
<1>10. \A i \in 1..N : Nth(K, i - 1) = {f[i]} /\ Picked(s, K)[i] = s[f[i]]
  BY <1>2, <1>5
<1> QED
  BY <1>6, <1>7, <1>8, <1>9, <1>10 DEF N

\* A list without the elements of D: the others are left, in their order, and
\* those before the first that goes stay in their places.
LEMMA KeptIs ==
  ASSUME NEW T, NEW s \in Seq(T), IsInjective(s), NEW D
  PROVE  LET q == Kept(s, D)
         IN  /\ q \in Seq(T) /\ IsInjective(q) /\ ToSet(q) = ToSet(s) \ D
             /\ Len(q) <= Len(s)
             /\ \A i, j \in 1..Len(q), m, n \in 1..Len(s) :
                  q[i] = s[m] /\ q[j] = s[n] => (i < j <=> m < n)
             /\ \A m \in 0..Len(s) :
                  (\A i \in 1..m : s[i] \notin D) => m <= Len(q) /\ \A i \in 1..m : q[i] = s[i]
<1> DEFINE K == {k \in 1..Len(s) : s[k] \notin D}
           q == Kept(s, D)
           N == Cardinality(K)
<1>0. Len(s) \in Nat /\ DOMAIN s = 1..Len(s)
  OBVIOUS
<1>1. q = Picked(s, K) /\ K \in SUBSET (1..Len(s))
  BY <1>0 DEF Kept
<1>6. \A k : k \in K <=> k \in 1..Len(s) /\ s[k] \notin D
  OBVIOUS
<1> HIDE DEF K, q
<1>2. N \in 0..Len(s) /\ \A i \in Nat : i >= N => Nth(K, i) = {}
  BY <1>0, <1>1, NthIs
<1>3. q \in Seq(T) /\ Len(q) = N
  BY <1>1, PickedIs
<1>4. PICK f \in [1..N -> K] :
        /\ \A i \in 1..N : Nth(K, i - 1) = {f[i]} /\ q[i] = s[f[i]]
        /\ \A k \in K : \E i \in 1..N : f[i] = k
        /\ \A i, j \in 1..N : i < j => f[i] < f[j]
  BY <1>1, PickedIs
<1>5. \A i \in 1..N : f[i] \in K /\ f[i] \in 1..Len(s) /\ s[f[i]] \notin D
  BY <1>6
<1>7. \A k, l \in 1..Len(s) : s[k] = s[l] => k = l
  BY DEF IsInjective
<1> HIDE DEF N
<1>8. ASSUME NEW i \in 1..N, NEW j \in 1..N, f[i] = f[j] PROVE i = j
  <2>1. i < j \/ j < i \/ i = j
    BY <1>2
  <2>2. ~(f[i] < f[j]) /\ ~(f[j] < f[i])
    BY <1>5, <1>8
  <2> QED
    BY <1>4, <2>1, <2>2
<1>9. IsInjective(q)
  <2>1. ASSUME NEW i \in 1..N, NEW j \in 1..N, q[i] = q[j] PROVE i = j
    BY <1>4, <1>5, <1>7, <1>8, <2>1
  <2> QED
    BY <1>3, <2>1 DEF IsInjective
<1>10. ToSet(q) = ToSet(s) \ D
  <2>1. /\ \A a : a \in ToSet(q) <=> \E i \in 1..N : q[i] = a
        /\ \A a : a \in ToSet(s) <=> \E i \in 1..Len(s) : s[i] = a
    BY <1>3, Members
  <2>2. ASSUME NEW i \in 1..N PROVE q[i] \in ToSet(s) \ D
    BY <1>4, <1>5, <2>1
  <2>3. ASSUME NEW k \in 1..Len(s), s[k] \notin D PROVE \E i \in 1..N : q[i] = s[k]
    BY <1>4, <1>6, <2>3
  <2> QED
    BY <2>1, <2>2, <2>3
<1>11. ASSUME NEW i \in 1..N, NEW j \in 1..N, NEW m \in 1..Len(s), NEW n \in 1..Len(s),
              q[i] = s[m], q[j] = s[n]
       PROVE  i < j <=> m < n
  <2>1. f[i] = m /\ f[j] = n
    BY <1>4, <1>5, <1>7, <1>11
  <2>2. i < j => m < n
    BY <1>4, <2>1
  <2>3. j < i => n < m
    BY <1>4, <2>1
  <2> QED
    BY <1>2, <2>1, <2>2, <2>3
<1>12. ASSUME NEW m \in 0..Len(s), \A i \in 1..m : s[i] \notin D
       PROVE  m <= Len(q) /\ \A i \in 1..m : q[i] = s[i]
  <2>1. ASSUME NEW i \in 1..m PROVE i \in 1..N /\ f[i] = i
    <3>1. i \in K /\ i - 1 \in Nat /\ i \in Nat
      BY <1>0, <1>6, <1>12
    <3>2. \A j : j \in {k \in K : k < i} <=> j \in 1..(i - 1)
      <4>1. \A k \in K : k \in Nat /\ k >= 1
        BY <1>6
      <4>2. ASSUME NEW k \in 1..(i - 1) PROVE k \in K /\ k < i
        <5>1. k \in 1..m /\ k \in 1..Len(s) /\ k < i
          BY <1>0
        <5> QED
          BY <5>1, <1>6, <1>12
      <4>3. \A k \in K : k < i => k \in 1..(i - 1)
        BY <3>1, <4>1
      <4> QED
        BY <4>2, <4>3
    <3>3. Cardinality({k \in K : k < i}) = i - 1
      <4>1. {k \in K : k < i} = 1..(i - 1)
        BY <3>2
      <4>2. Cardinality(1..(i - 1)) = IF 1 > i - 1 THEN 0 ELSE (i - 1) - 1 + 1
        BY <3>1, FS_Interval
      <4>3. Cardinality(1..(i - 1)) = i - 1
        BY <3>1, <4>2
      <4> QED
        BY <4>1, <4>3
    <3>4. i \in Nth(K, i - 1)
      BY <3>1, <3>3 DEF Nth
    <3>5. i - 1 < N
      <4>1. Nth(K, i - 1) # {}
        BY <3>4
      <4> QED
        BY <1>2, <3>1, <4>1
    <3>6. i \in 1..N
      BY <1>2, <3>1, <3>5
    <3> QED
      BY <1>4, <3>4, <3>6
  <2>2. m <= N
    <3>1. CASE m = 0
      BY <1>2, <3>1
    <3>2. CASE m # 0
      BY <1>2, <2>1, <3>2
    <3> QED
      BY <3>1, <3>2
  <2> QED
    BY <1>3, <1>4, <2>1, <2>2
<1> QED
  BY <1>2, <1>3, <1>9, <1>10, <1>11, <1>12 DEF q

\* What a loop over a list finds first.
LEMMA FirstIs ==
  ASSUME NEW T, NEW s \in Seq(T), NEW S
  PROVE  LET i == SelectInSeq(s, LAMBDA a : a \in S)
         IN  \/ i = 0 /\ ToSet(s) \cap S = {}
             \/ i \in 1..Len(s) /\ s[i] \in S /\ \A j \in 1..(i - 1) : s[j] \notin S
<1> DEFINE I == {i \in 1..Len(s) : s[i] \in S}
           i == SelectInSeq(s, LAMBDA a : a \in S)
<1>1. i = IF I # {} THEN Min(I) ELSE 0
  BY DEF SelectInSeq
<1>2. \A k : k \in I <=> k \in 1..Len(s) /\ s[k] \in S
  OBVIOUS
<1> HIDE DEF i, I
<1>3. CASE I = {}
  BY <1>1, <1>2, <1>3, Members DEF i
<1>4. CASE I # {}
  <2>1. \E x \in I : \A y \in I : x <= y
    <3>1. I \subseteq Nat
      BY <1>2
    <3> QED
      BY <1>4, <3>1, LeastIs
  <2>2. i \in I /\ \A y \in I : i <= y
    BY <1>1, <1>4, <2>1 DEF Min
  <2>3. i \in 1..Len(s) /\ s[i] \in S
    BY <1>2, <2>2
  <2>4. ASSUME NEW j \in 1..(i - 1) PROVE s[j] \notin S
    <3>1. j \in 1..Len(s) /\ ~(i <= j)
      BY <2>3
    <3> QED
      BY <1>2, <2>2, <3>1
  <2> QED
    BY <2>3, <2>4 DEF i
<1> QED
  BY <1>3, <1>4
=============================================================================
