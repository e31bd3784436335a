----------------------------- MODULE PickProofs -----------------------------
(***************************************************************************)
(* Induction over the natural numbers, for predicates given as sets, and   *)
(* what Picked returns for every sequence and every choice of places.      *)
(***************************************************************************)
EXTENDS Pick, FunctionTheorems, FiniteSetTheorems, SequenceTheorems, WellFoundedInduction,
        TLAPS

(* Induction.                                                              *)

\* Every set of numbers that is not empty has a least one.
LEMMA LeastNumber ==
    ASSUME NEW T, T \subseteq Nat, T # {}
    PROVE  \E m \in T : \A k \in T : m <= k
  <1>1. PICK m \in T : \A k \in T : <<k, m>> \notin OpToRel(<, Nat)
    BY WFMin, NatLessThanWellFounded, Zenon
  <1>2. \A k \in T : ~(k < m)
    BY <1>1, Zenon DEF OpToRel
  <1>3. m \in Nat /\ \A k \in T : k \in Nat
    OBVIOUS
  <1> QED
    BY <1>2, <1>3

LEMMA InductionOnSet ==
    ASSUME NEW S, 0 \in S, \A n \in Nat : n \in S => n + 1 \in S
    PROVE  Nat \subseteq S
  <1> SUFFICES ASSUME NEW x \in Nat, x \notin S
               PROVE  FALSE
    OBVIOUS
  <1>1. PICK m \in Nat \ S : \A k \in Nat \ S : m <= k
    BY LeastNumber, Zenon
  <1>2. m # 0 /\ m - 1 \in Nat /\ m - 1 \in S
    BY <1>1
  <1> QED
    BY <1>1, <1>2

-----------------------------------------------------------------------------
(* Counting chosen places.                                                 *)

LEMMA FinitePlaces ==
    ASSUME NEW n \in Nat, NEW P, P \subseteq 1..n
    PROVE  /\ IsFiniteSet(P) /\ Cardinality(P) \in Nat
           /\ \A i : IsFiniteSet(P \cap 1..i) /\ Cardinality(P \cap 1..i) \in Nat
  <1>1. IsFiniteSet(1..n)
    BY FS_Interval
  <1>2. IsFiniteSet(P)
    BY <1>1, FS_Subset
  <1>3. \A i : IsFiniteSet(P \cap 1..i)
    BY <1>2, FS_Subset
  <1> QED
    BY <1>2, <1>3, FS_CardinalityType

\* The number of chosen places up to i, from one place to the next.
LEMMA CountStep ==
    ASSUME NEW n \in Nat, NEW P, P \subseteq 1..n, NEW i \in Nat
    PROVE  Cardinality(P \cap 1..(i + 1)) =
              Cardinality(P \cap 1..i) + IF i + 1 \in P THEN 1 ELSE 0
  <1> DEFINE Q == P \cap 1..i
  <1>1. IsFiniteSet(Q) /\ Cardinality(Q) \in Nat /\ i + 1 \notin Q
    BY FinitePlaces
  <1>2. CASE i + 1 \in P
    <2>1. P \cap 1..(i + 1) = Q \cup {i + 1}
      BY <1>2
    <2> QED
      BY <1>1, <1>2, <2>1, FS_AddElement
  <1>3. CASE i + 1 \notin P
    <2>1. P \cap 1..(i + 1) = Q
      BY <1>3
    <2>2. Cardinality(P \cap 1..(i + 1)) = Cardinality(Q)
      BY <2>1
    <2>3. Cardinality(Q) + 0 = Cardinality(Q)
      BY <1>1
    <2> QED
      BY <1>3, <2>2, <2>3
  <1> QED
    BY <1>2, <1>3

LEMMA CountStrict ==
    ASSUME NEW n \in Nat, NEW P, P \subseteq 1..n, NEW i \in Nat, NEW j \in P, i < j
    PROVE  Cardinality(P \cap 1..i) < Cardinality(P \cap 1..j)
  <1> DEFINE Q == P \cap 1..i
             R == P \cap 1..j
  <1>1. IsFiniteSet(R) /\ Cardinality(Q) \in Nat /\ Cardinality(R) \in Nat
    BY FinitePlaces
  <1>2. Q \in SUBSET R /\ j \in R /\ j \notin Q
    OBVIOUS
  <1>3. Cardinality(Q) <= Cardinality(R) /\ Cardinality(Q) # Cardinality(R)
    BY <1>1, <1>2, FS_Subset
  <1> QED
    BY <1>1, <1>3

\* The k-th chosen place is the only one with k chosen places up to it.
LEMMA NthExists ==
    ASSUME NEW n \in Nat, NEW P, P \subseteq 1..n, NEW k \in 1..Cardinality(P)
    PROVE  \E i \in P : Cardinality(P \cap 1..i) = k
  <1> DEFINE c(i) == Cardinality(P \cap 1..i)
             T == {i \in Nat : k <= c(i)}
  <1>1. n \in T
    <2>1. P \cap 1..n = P
      OBVIOUS
    <2>2. Cardinality(P) \in Nat
      BY FinitePlaces
    <2>3. Cardinality(P \cap 1..n) = Cardinality(P)
      BY <2>1
    <2>4. k <= Cardinality(P \cap 1..n)
      BY <2>2, <2>3
    <2> QED
      BY <2>4
  <1>2. PICK m \in T : \A i \in T : m <= i
    BY <1>1, LeastNumber
  <1>3. c(0) = 0
    <2>1. P \cap 1..0 = {}
      OBVIOUS
    <2> QED
      BY <2>1, FS_EmptySet
  <1>4. m # 0
    BY <1>2, <1>3, FinitePlaces
  <1>5. m - 1 \in Nat /\ ~(k <= c(m - 1)) /\ c(m - 1) \in Nat /\ c(m) \in Nat
    BY <1>2, <1>4, FinitePlaces
  <1>6. c((m - 1) + 1) = c(m - 1) + IF (m - 1) + 1 \in P THEN 1 ELSE 0
    BY <1>5, CountStep
  <1>7. (m - 1) + 1 = m /\ k \in Nat /\ k <= c(m)
    BY <1>2, FinitePlaces
  <1>8. m \in P /\ c(m) = k
    BY <1>5, <1>6, <1>7
  <1> QED
    BY <1>8

\* h takes the members of P by how many of them there are up to each.
ByCount(P, c, h) ==
    /\ c = Cardinality(P)
    /\ h \in [1..c -> P]
    /\ \A k \in 1..c : Cardinality(P \cap 1..h[k]) = k

\* h goes through P in order.
InOrder(P, c, h) ==
    /\ \A k, l \in 1..c : k < l => h[k] < h[l]
    /\ \A i \in P : \E k \in 1..c : h[k] = i

LEMMA PlacesInOrder ==
    ASSUME NEW n \in Nat, NEW P, P \subseteq 1..n, NEW c, NEW h, ByCount(P, c, h)
    PROVE  InOrder(P, c, h)
  <1> USE DEF ByCount
  <1>1. c \in Nat /\ \A i : Cardinality(P \cap 1..i) \in Nat
    BY FinitePlaces
  <1> P \subseteq Nat
    OBVIOUS
  <1>2. \A k \in 1..c : h[k] \in P /\ h[k] \in Nat
    BY Zenon
  <1>3. ASSUME NEW i \in P, NEW j \in P, Cardinality(P \cap 1..i) <= Cardinality(P \cap 1..j)
        PROVE  i <= j
    <2>1. i \in Nat /\ j \in Nat
      BY Zenon
    <2>2. j < i => Cardinality(P \cap 1..j) < Cardinality(P \cap 1..i)
      BY <2>1, CountStrict
    <2>3. Cardinality(P \cap 1..i) \in Nat /\ Cardinality(P \cap 1..j) \in Nat
      BY <1>1, Zenon
    <2>4. ~(j < i)
      BY <1>3, <2>2, <2>3
    <2> QED
      BY <2>1, <2>4
  <1>4. ASSUME NEW k \in 1..c, NEW l \in 1..c, k < l
        PROVE  h[k] < h[l]
    <2>1. Cardinality(P \cap 1..h[k]) = k /\ Cardinality(P \cap 1..h[l]) = l
      OBVIOUS
    <2>2. k <= l /\ h[k] # h[l]
      BY <1>1, <1>4, <2>1
    <2>3. h[k] <= h[l]
      BY <1>2, <1>3, <2>1, <2>2
    <2> QED
      BY <1>2, <2>2, <2>3
  <1>5. ASSUME NEW i \in P
        PROVE  \E k \in 1..c : h[k] = i
    <2> DEFINE k == Cardinality(P \cap 1..i)
    <2>1. i \in Nat /\ i # 0 /\ k \in Nat
      <3>1. i \in 1..n
        BY Zenon
      <3>2. i \in Nat /\ i # 0
        BY <3>1
      <3>3. k \in Nat
        BY <1>1, Zenon
      <3> QED
        BY <3>2, <3>3
    <2>2. 0 < k
      <3>1. 0 < i
        BY <2>1
      <3>2. Cardinality(P \cap 1..0) < k
        BY <3>1, CountStrict
      <3>3. Cardinality(P \cap 1..0) \in Nat
        BY <1>1, Zenon
      <3> QED
        BY <2>1, <3>2, <3>3
    <2>3. k <= c
      <3>1. IsFiniteSet(P) /\ P \cap 1..i \in SUBSET P
        BY FinitePlaces
      <3> QED
        BY <3>1, FS_Subset
    <2>4. k \in 1..c
      BY <1>1, <2>1, <2>2, <2>3
    <2>5. Cardinality(P \cap 1..h[k]) = k /\ h[k] \in P
      BY <1>2, <2>4
    <2> HIDE DEF k
    <2>6. h[k] <= i /\ i <= h[k]
      <3>1. k <= k /\ Cardinality(P \cap 1..i) = k
        BY <2>1 DEF k
      <3> QED
        BY <1>3, <2>5, <3>1, Zenon
    <2>7. h[k] = i
      BY <1>2, <2>1, <2>4, <2>6
    <2> QED
      BY <2>4, <2>7
  <1> QED
    BY <1>4, <1>5 DEF InOrder

-----------------------------------------------------------------------------
\* t is what s has at the places of P, in their order; h are the places.
Takes(s, P, t, h) ==
    /\ h \in [1..Len(t) -> P]
    /\ \A k \in 1..Len(t) : t[k] = s[h[k]]
    /\ \A k, l \in 1..Len(t) : k < l => h[k] < h[l]
    /\ \A i \in P : \E k \in 1..Len(t) : h[k] = i

\* The places that Picked takes, in order: all of I, and each once.
THEOREM PickedAt ==
    ASSUME NEW S, NEW s \in Seq(S), NEW I
    PROVE  LET P == I \cap DOMAIN s
               t == Picked(s, I)
           IN /\ Cardinality(P) \in Nat /\ IsFiniteSet(P)
              /\ t \in Seq(S) /\ Len(t) = Cardinality(P) /\ Len(t) <= Len(s)
              /\ \E h : Takes(s, P, t, h)
  <1> DEFINE P == I \cap DOMAIN s
             Nth(k) == CHOOSE i \in P : Cardinality(P \cap 1..i) = k
             t == Picked(s, I)
  <1>1. Len(s) \in Nat /\ DOMAIN s = 1..Len(s) /\ P \subseteq 1..Len(s)
    BY LenProperties
  <1>2. PICK c : c = Cardinality(P)
    OBVIOUS
  <1>3. c \in Nat /\ IsFiniteSet(P)
    BY <1>1, <1>2, FinitePlaces
  <1>4. \A k \in 1..c : Nth(k) \in P /\ Cardinality(P \cap 1..Nth(k)) = k
    <2>1. \A k \in 1..c : \E i \in P : Cardinality(P \cap 1..i) = k
      <3> HIDE DEF P
      <3> QED
        BY <1>1, <1>2, NthExists
    <2> QED
      BY <2>1, Zenon
  <1>5. t = [k \in 1..c |-> s[Nth(k)]]
    BY <1>2 DEF Picked
  <1>6. PICK h : h = [k \in 1..c |-> Nth(k)]
    OBVIOUS
  <1>7. /\ h \in [1..c -> P]
        /\ \A k \in 1..c : Cardinality(P \cap 1..h[k]) = k
        /\ \A k \in 1..c : t[k] = s[h[k]]
        /\ DOMAIN t = 1..c
    BY <1>4, <1>5, <1>6
  <1> HIDE DEF Nth, P, t
  <1>8. /\ \A k, l \in 1..c : k < l => h[k] < h[l]
        /\ \A i \in P : \E k \in 1..c : h[k] = i
    <2>1. Len(s) \in Nat /\ P \subseteq 1..Len(s)
      BY <1>1
    <2>2. ByCount(P, c, h)
      BY <1>2, <1>7 DEF ByCount
    <2>3. InOrder(P, c, h)
      BY <2>1, <2>2, PlacesInOrder
    <2> QED
      BY <2>3 DEF InOrder
  <1>9. \A k \in 1..c : t[k] \in S
    <2>1. \A k \in 1..c : h[k] \in 1..Len(s)
      BY <1>1, <1>7, Zenon
    <2>2. \A i \in 1..Len(s) : s[i] \in S
      BY <1>1
    <2> QED
      BY <1>7, <2>1, <2>2, Zenon
  <1>10. t \in Seq(S) /\ Len(t) = c
    BY <1>3, <1>5, <1>9
  <1>11. c <= Len(s)
    <2>1. IsFiniteSet(1..Len(s)) /\ Cardinality(1..Len(s)) = Len(s)
      <3>1. 1 \in Int /\ Len(s) \in Int /\ (1 > Len(s) => Len(s) = 0) /\ (Len(s) - 1) + 1 = Len(s)
        BY <1>1
      <3>2. IsFiniteSet(1..Len(s))
        BY <3>1, FS_Interval
      <3>3. Cardinality(1..Len(s)) = IF 1 > Len(s) THEN 0 ELSE (Len(s) - 1) + 1
        BY <3>1, FS_Interval
      <3> QED
        BY <3>1, <3>2, <3>3
    <2>2. Cardinality(P) <= Cardinality(1..Len(s))
      BY <1>1, <2>1, FS_Subset
    <2> QED
      BY <1>2, <2>1, <2>2
  <1>12. Takes(s, P, t, h)
    BY <1>7, <1>8, <1>10, Zenon DEF Takes
  <1>13. /\ Cardinality(P) \in Nat /\ IsFiniteSet(P)
         /\ t \in Seq(S) /\ Len(t) = Cardinality(P) /\ Len(t) <= Len(s)
    BY <1>2, <1>3, <1>10, <1>11
  <1> QED
    BY <1>12, <1>13, Zenon DEF P, t

\* Sets that a function matches one to one have the same number of members.
LEMMA SameSize ==
    ASSUME NEW K, NEW Q, IsFiniteSet(Q), NEW g \in [K -> Q],
           \A k, l \in K : g[k] = g[l] => k = l,
           \A i \in Q : \E k \in K : g[k] = i
    PROVE  IsFiniteSet(K) /\ Cardinality(K) = Cardinality(Q)
  <1>1. g \in Injection(K, Q)
    BY DEF Injection, IsInjective
  <1>2. g \in Surjection(K, Q)
    BY DEF Surjection
  <1>3. ExistsBijection(K, Q)
    BY <1>1, <1>2 DEF Bijection, ExistsBijection
  <1>4. ExistsBijection(Q, K)
    BY <1>3, Fun_ExistsBijSymmetric
  <1> QED
    BY <1>4, FS_Bijection

\* The elements that are picked, and no others; each in one place if it was in one.
THEOREM PickedElements ==
    ASSUME NEW S, NEW s \in Seq(S), NEW I
    PROVE  LET t == Picked(s, I)
           IN /\ {t[k] : k \in DOMAIN t} = {s[i] : i \in I \cap DOMAIN s}
              /\ (\A i, j \in DOMAIN s : s[i] = s[j] => i = j)
                 => \A k, l \in DOMAIN t : t[k] = t[l] => k = l
  <1> DEFINE P == I \cap DOMAIN s
             t == Picked(s, I)
  <1>1. PICK h : Takes(s, P, t, h)
    BY PickedAt
  <1>2. DOMAIN t = 1..Len(t) /\ Len(t) \in Nat
    BY PickedAt, LenProperties
  <1>3. P \subseteq DOMAIN s /\ \A i \in P : i \in Nat
    BY LenProperties
  <1> HIDE DEF t, P
  <1> USE <1>1 DEF Takes
  <1>4. \A k \in DOMAIN t : h[k] \in P
    BY <1>2
  <1>5. {t[k] : k \in DOMAIN t} = {s[i] : i \in P}
    <2>1. \A k \in DOMAIN t : \E i \in P : t[k] = s[i]
      BY <1>1, <1>2, <1>4
    <2>2. \A i \in P : \E k \in DOMAIN t : t[k] = s[i]
      BY <1>1, <1>2
    <2> QED
      BY <2>1, <2>2
  <1>6. ASSUME \A i, j \in DOMAIN s : s[i] = s[j] => i = j,
               NEW k \in DOMAIN t, NEW l \in DOMAIN t, t[k] = t[l]
        PROVE  k = l
    <2>1. t[k] = s[h[k]] /\ t[l] = s[h[l]] /\ h[k] \in P /\ h[l] \in P
      BY <1>1, <1>2, <1>4
    <2>2. h[k] = h[l] /\ h[k] \in Nat
      BY <1>3, <1>6, <2>1
    <2>3. ~(k < l) /\ ~(l < k)
      BY <1>1, <1>2, <2>2
    <2> QED
      BY <1>2, <2>3
  <1> QED
    BY <1>5, <1>6 DEF P, t

\* How many of the elements of q, and of those at places in I, are of the kind B.
CountIn(q, B) == Cardinality({k \in DOMAIN q : q[k] \in B})

CountAt(q, I, B) == Cardinality({k \in I \cap DOMAIN q : q[k] \in B})

\* What is picked of a kind is counted by the places of that kind.
THEOREM PickedCount ==
    ASSUME NEW S, NEW s \in Seq(S), NEW I, NEW B
    PROVE  CountIn(Picked(s, I), B) = CountAt(s, I, B)
  <1> DEFINE P == I \cap DOMAIN s
             t == Picked(s, I)
             K == {k \in DOMAIN t : t[k] \in B}
             Q == {i \in P : s[i] \in B}
  <1>1. PICK h : Takes(s, P, t, h)
    BY PickedAt
  <1>2. DOMAIN t = 1..Len(t) /\ Len(t) \in Nat /\ IsFiniteSet(P)
    BY PickedAt, LenProperties
  <1>3. P \subseteq DOMAIN s /\ \A i \in P : i \in Nat
    BY LenProperties
  <1> HIDE DEF t, P
  <1> USE <1>1 DEF Takes
  <1>4. \A k \in DOMAIN t : h[k] \in P
    BY <1>2
  <1>5. IsFiniteSet(Q)
    BY <1>2, FS_Subset
  <1>6. PICK g : g = [k \in K |-> h[k]]
    OBVIOUS
  <1>7. g \in [K -> Q]
    BY <1>1, <1>2, <1>4, <1>6
  <1>8. \A k, l \in K : g[k] = g[l] => k = l
    <2> SUFFICES ASSUME NEW k \in K, NEW l \in K, g[k] = g[l]
                 PROVE  k = l
      OBVIOUS
    <2>1. h[k] = h[l] /\ h[k] \in Nat
      BY <1>3, <1>4, <1>6
    <2>2. ~(k < l) /\ ~(l < k)
      BY <1>1, <1>2, <2>1
    <2> QED
      BY <1>2, <2>2
  <1>9. \A i \in Q : \E k \in K : g[k] = i
    BY <1>1, <1>2, <1>6
  <1>10. Cardinality(K) = Cardinality(Q)
    <2> HIDE DEF K, Q
    <2> QED
      BY <1>5, <1>7, <1>8, <1>9, SameSize
  <1> QED
    BY <1>10 DEF P, t, CountIn, CountAt

\* The places of a kind in two sequences, one after the other.
THEOREM CountConcat ==
    ASSUME NEW S, NEW s \in Seq(S), NEW t \in Seq(S), NEW B
    PROVE  /\ CountIn(s, B) \in Nat /\ CountIn(t, B) \in Nat
           /\ CountIn(s \o t, B) = CountIn(s, B) + CountIn(t, B)
  <1> DEFINE K(q) == {k \in DOMAIN q : q[k] \in B}
             r == s \o t
  <1>1. /\ Len(s) \in Nat /\ DOMAIN s = 1..Len(s)
        /\ Len(t) \in Nat /\ DOMAIN t = 1..Len(t)
    BY LenProperties
  <1>2. /\ DOMAIN r = 1..(Len(s) + Len(t))
        /\ \A i \in 1..(Len(s) + Len(t)) :
              r[i] = IF i <= Len(s) THEN s[i] ELSE t[i - Len(s)]
    BY ConcatProperties, LenProperties
  <1>3. /\ IsFiniteSet(K(s)) /\ Cardinality(K(s)) \in Nat
        /\ IsFiniteSet(K(t)) /\ Cardinality(K(t)) \in Nat
        /\ IsFiniteSet(K(r)) /\ Cardinality(K(r)) \in Nat
    <2>1. K(s) \subseteq 1..Len(s) /\ K(t) \subseteq 1..Len(t) /\ K(r) \subseteq 1..(Len(s) + Len(t))
      BY <1>1, <1>2
    <2>2. Len(s) + Len(t) \in Nat
      BY <1>1
    <2> HIDE DEF K
    <2> QED
      BY <1>1, <2>1, <2>2, FinitePlaces
  <1> DEFINE Later == {k \in K(r) : Len(s) < k}
  <1>4. K(r) = K(s) \cup Later /\ K(s) \cap Later = {}
    <2> HIDE DEF r
    <2>1. ASSUME NEW k
          PROVE  k \in K(r) <=> k \in K(s) \/ k \in Later
      <3>1. CASE k \in DOMAIN s
        <4>1. k \in DOMAIN r /\ r[k] = s[k] /\ ~(Len(s) < k)
          BY <1>1, <1>2, <3>1
        <4> QED
          BY <3>1, <4>1
      <3>2. CASE k \notin DOMAIN s
        <4>1. k \in DOMAIN r => Len(s) < k
          BY <1>1, <1>2, <3>2
        <4> QED
          BY <3>2, <4>1
      <3> QED
        BY <3>1, <3>2
    <2>2. \A k \in K(s) : ~(Len(s) < k)
      BY <1>1
    <2> QED
      BY <2>1, <2>2
  <1>5. IsFiniteSet(Later) /\ Cardinality(Later) = Cardinality(K(t))
    <2>1. PICK g : g = [k \in Later |-> k - Len(s)]
      OBVIOUS
    <2> HIDE DEF r
    <2>2. g \in [Later -> K(t)]
      <3>1. \A k \in Later : k - Len(s) \in K(t)
        BY <1>1, <1>2
      <3> HIDE DEF K, Later
      <3> QED
        BY <2>1, <3>1
    <2>3. \A k, m \in Later : g[k] = g[m] => k = m
      <3>1. \A k \in Later : k \in Nat
        BY <1>1, <1>2
      <3> HIDE DEF K, Later
      <3> QED
        BY <1>1, <2>1, <3>1
    <2>4. \A i \in K(t) : \E k \in Later : g[k] = i
      <3> SUFFICES ASSUME NEW i \in K(t)
                   PROVE  \E k \in Later : g[k] = i
        OBVIOUS
      <3>1. i \in 1..Len(t) /\ t[i] \in B
        BY <1>1
      <3>2. /\ i + Len(s) \in 1..(Len(s) + Len(t)) /\ Len(s) < i + Len(s)
            /\ (i + Len(s)) - Len(s) = i /\ ~(i + Len(s) <= Len(s))
        BY <1>1, <3>1
      <3>3. r[i + Len(s)] = t[i]
        BY <1>2, <3>2
      <3>4. i + Len(s) \in Later
        BY <1>2, <3>1, <3>2, <3>3
      <3> HIDE DEF Later, K
      <3> QED
        BY <2>1, <3>2, <3>4
    <2> HIDE DEF Later, K
    <2> QED
      BY <1>3, <2>2, <2>3, <2>4, SameSize
  <1> HIDE DEF K, Later, r
  <1>6. Cardinality(K(r)) = Cardinality(K(s)) + Cardinality(K(t))
    <2>1. Cardinality(K(s) \cup Later) =
             Cardinality(K(s)) + Cardinality(Later) - Cardinality(K(s) \cap Later)
      BY <1>3, <1>5, FS_Union
    <2>2. Cardinality(K(s) \cap Later) = 0
      BY <1>4, FS_EmptySet
    <2>3. Cardinality(K(r)) = Cardinality(K(s) \cup Later)
      BY <1>4
    <2> QED
      BY <1>3, <1>5, <2>1, <2>2, <2>3
  <1> QED
    BY <1>3, <1>6 DEF K, r, CountIn

\* Places that follow each other give a piece of the sequence.
LEMMA PickedInterval ==
    ASSUME NEW S, NEW s \in Seq(S), NEW a \in Nat \ {0}, NEW b \in Nat,
           a <= b + 1, b <= Len(s), NEW I, I \cap DOMAIN s = a..b
    PROVE  Picked(s, I) = SubSeq(s, a, b)
  <1> DEFINE P == I \cap DOMAIN s
             Nth(k) == CHOOSE i \in P : Cardinality(P \cap 1..i) = k
  <1>1. Cardinality(a..b) = b + 1 - a
    <2>1. Cardinality(a..b) = IF a > b THEN 0 ELSE b - a + 1
      BY FS_Interval
    <2> QED
      BY <2>1
  <1>2. ASSUME NEW i \in a..b
        PROVE  Cardinality(P \cap 1..i) = i + 1 - a
    <2>1. P \cap 1..i = a..i
      BY <1>2
    <2>2. Cardinality(a..i) = IF a > i THEN 0 ELSE i - a + 1
      BY <1>2, FS_Interval
    <2>3. i \in Nat /\ ~(a > i)
      BY <1>2
    <2>4. Cardinality(a..i) = i + 1 - a
      BY <2>2, <2>3
    <2> HIDE DEF P
    <2> QED
      BY <2>1, <2>4
  <1>3. ASSUME NEW k \in 1..(b + 1 - a)
        PROVE  Nth(k) = a + k - 1
    <2>1. a + k - 1 \in P /\ Cardinality(P \cap 1..(a + k - 1)) = k
      BY <1>2, <1>3
    <2>2. \A i \in P : Cardinality(P \cap 1..i) = k => i = a + k - 1
      BY <1>2, <1>3
    <2> HIDE DEF P
    <2> QED
      BY <2>1, <2>2
  <1>4. Picked(s, I) = [k \in 1..(b + 1 - a) |-> s[Nth(k)]]
    BY <1>1 DEF Picked
  <1>5. SubSeq(s, a, b) = [k \in 1..(b + 1 - a) |-> s[a + k - 1]]
    <2>1. /\ SubSeq(s, a, b) \in Seq(S)
          /\ Len(SubSeq(s, a, b)) = IF a <= b THEN b - a + 1 ELSE 0
          /\ \A k \in 1..(b - a + 1) : SubSeq(s, a, b)[k] = s[a + k - 1]
      BY SubSeqProperties
    <2>2. Len(SubSeq(s, a, b)) = b + 1 - a /\ b - a + 1 = b + 1 - a
      BY <2>1
    <2>3. SubSeq(s, a, b) = [k \in 1..Len(SubSeq(s, a, b)) |-> SubSeq(s, a, b)[k]]
      BY <2>1
    <2> QED
      BY <2>1, <2>2, <2>3
  <1> HIDE DEF Nth
  <1> QED
    BY <1>3, <1>4, <1>5

\* No place gives no element.
LEMMA PickedNone ==
    ASSUME NEW s, NEW I, I \cap DOMAIN s = {}
    PROVE  Picked(s, I) = <<>>
  <1> DEFINE t == Picked(s, I)
  <1>1. Cardinality(I \cap DOMAIN s) = 0
    BY FS_EmptySet
  <1>2. t = [k \in 1..Cardinality(I \cap DOMAIN s) |-> t[k]]
    BY DEF Picked
  <1> HIDE DEF t
  <1>3. t \in [1..0 -> {}]
    BY <1>1, <1>2
  <1>4. t \in Seq({}) /\ Len(t) = 0
    BY <1>3
  <1> QED
    BY <1>4, EmptySeq DEF t

\* What is picked depends on the elements at the places alone.
PickedAll(s, P) ==
    [k \in 1..Cardinality(P) |-> s[CHOOSE i \in P : Cardinality(P \cap 1..i) = k]]

LEMMA PickedSame ==
    ASSUME NEW s, NEW t, NEW I, NEW J, I \cap DOMAIN s = J \cap DOMAIN t,
           \A i \in I \cap DOMAIN s : s[i] = t[i], NEW n \in Nat,
           I \cap DOMAIN s \subseteq 1..n
    PROVE  Picked(s, I) = Picked(t, J)
  <1> DEFINE P == I \cap DOMAIN s
             Nth(k) == CHOOSE i \in P : Cardinality(P \cap 1..i) = k
  <1>1. PICK c : c = Cardinality(P)
    OBVIOUS
  <1>2. Picked(s, I) = [k \in 1..c |-> s[Nth(k)]]
    BY <1>1 DEF Picked
  <1>3. Picked(t, J) = [k \in 1..c |-> t[Nth(k)]]
    <2>1. Picked(t, J) = PickedAll(t, J \cap DOMAIN t)
      BY DEF Picked, PickedAll
    <2>2. Picked(t, J) = PickedAll(t, P)
      BY <2>1
    <2> QED
      BY <1>1, <2>2 DEF PickedAll
  <1>4. ASSUME NEW k \in 1..c
        PROVE  Nth(k) \in P
    <2>1. \E i \in P : Cardinality(P \cap 1..i) = k
      BY <1>1, <1>4, NthExists
    <2> QED
      BY <2>1
  <1> HIDE DEF P, Nth
  <1>5. \A k \in 1..c : s[Nth(k)] = t[Nth(k)]
    BY <1>4 DEF P
  <1> QED
    BY <1>2, <1>3, <1>5

=============================================================================
