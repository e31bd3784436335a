--------------------------- MODULE WorkfileProofs ---------------------------
(***************************************************************************)
(* Proofs about Workfile for files, scripts and data of any length: what a *)
(* job serves against the data that it was made of, and against what       *)
(* wresume selects.                                                        *)
(***************************************************************************)
EXTENDS Workfile, DataSourcesProofs

-----------------------------------------------------------------------------
(* The number of separators before a line.                                 *)

LEMMA BeforeType ==
    ASSUME NEW f, NEW i \in Nat
    PROVE  Before(f, i) \in Nat /\ IsFiniteSet({j \in 1..(i - 1) : f[j] = Sep})
  <1>1. IsFiniteSet(1..(i - 1))
    BY FS_Interval
  <1>2. {j \in 1..(i - 1) : f[j] = Sep} \subseteq 1..(i - 1)
    OBVIOUS
  <1>3. IsFiniteSet({j \in 1..(i - 1) : f[j] = Sep})
    BY <1>1, <1>2, FS_Subset
  <1> QED
    BY <1>3, FS_CardinalityType DEF Before

LEMMA BeforeFirst ==
    ASSUME NEW f
    PROVE  Before(f, 1) = 0
  <1>1. {j \in 1..(1 - 1) : f[j] = Sep} = {}
    OBVIOUS
  <1> QED
    BY <1>1, FS_EmptySet DEF Before

LEMMA BeforeStep ==
    ASSUME NEW f, NEW i \in Nat \ {0}
    PROVE  Before(f, i + 1) = Before(f, i) + IF f[i] = Sep THEN 1 ELSE 0
  <1> DEFINE Q == {j \in 1..(i - 1) : f[j] = Sep}
             R == {j \in 1..((i + 1) - 1) : f[j] = Sep}
  <1>1. IsFiniteSet(Q) /\ i \notin Q /\ Before(f, i) \in Nat
    BY BeforeType
  <1>2. CASE f[i] = Sep
    <2>1. R = Q \cup {i}
      BY <1>2
    <2>2. Cardinality(R) = Cardinality(Q) + 1
      BY <1>1, <2>1, FS_AddElement
    <2> QED
      BY <1>2, <2>2 DEF Before
  <1>3. CASE f[i] # Sep
    <2>1. R = Q
      BY <1>3
    <2>2. Cardinality(R) = Cardinality(Q)
      BY <2>1
    <2> QED
      BY <1>1, <1>3, <2>2 DEF Before
  <1> QED
    BY <1>2, <1>3

LEMMA BeforeMonotone ==
    ASSUME NEW f, NEW i \in Nat, NEW j \in Nat, i <= j
    PROVE  Before(f, i) <= Before(f, j)
  <1> DEFINE Q == {l \in 1..(i - 1) : f[l] = Sep}
             R == {l \in 1..(j - 1) : f[l] = Sep}
  <1>1. IsFiniteSet(R) /\ Q \in SUBSET R
    BY BeforeType
  <1>2. Cardinality(Q) <= Cardinality(R)
    BY <1>1, FS_Subset
  <1> QED
    BY <1>2 DEF Before

LEMMA BeforeSame ==
    ASSUME NEW f, NEW i \in Nat \ {0}, NEW j \in Nat, i <= j,
           \A l \in i..(j - 1) : f[l] # Sep
    PROVE  Before(f, j) = Before(f, i)
  <1>1. {l \in 1..(i - 1) : f[l] = Sep} = {l \in 1..(j - 1) : f[l] = Sep}
    OBVIOUS
  <1> QED
    BY <1>1 DEF Before

LEMMA BeforeAgree ==
    ASSUME NEW f, NEW g, NEW i \in Nat, \A l \in 1..(i - 1) : f[l] = g[l]
    PROVE  Before(f, i) = Before(g, i)
  <1>1. {l \in 1..(i - 1) : f[l] = Sep} = {l \in 1..(i - 1) : g[l] = Sep}
    OBVIOUS
  <1> QED
    BY <1>1 DEF Before

-----------------------------------------------------------------------------
(* Where the blocks are.                                                   *)

\* The block after m separators starts at line i.
Starts(f, i, m) ==
    /\ i \in DOMAIN f => Before(f, i) = m
    /\ \A j \in DOMAIN f : j < i => Before(f, j) < m

\* The block that starts at line i ends before line e.
Ends(f, i, e) ==
    /\ e = Len(f) + 1 \/ f[e] = Sep
    /\ \A j \in i..(e - 1) : f[j] # Sep

LEMMA BlockIs ==
    ASSUME NEW S, NEW f \in Seq(S), NEW i \in Nat \ {0}, NEW m \in Nat, Starts(f, i, m),
           NEW e \in Nat, i <= e, e <= Len(f) + 1, Ends(f, i, e)
    PROVE  Block(f, m + 1) = SubSeq(f, i, e - 1) /\ Starts(f, e + 1, m + 1)
  <1> DEFINE I == {j \in DOMAIN f : f[j] # Sep /\ Before(f, j) = (m + 1) - 1}
  <1>1. Len(f) \in Nat /\ DOMAIN f = 1..Len(f)
    BY LenProperties
  <1>2. \A j \in Nat : Before(f, j) \in Nat
    BY BeforeType
  <1>3. ASSUME NEW j \in i..e, i \in DOMAIN f
        PROVE  Before(f, j) = m
    <2>1. \A l \in i..(j - 1) : f[l] # Sep
      BY <1>3 DEF Ends
    <2>2. Before(f, j) = Before(f, i)
      BY <1>3, <2>1, BeforeSame
    <2> QED
      BY <1>3, <2>2 DEF Starts
  <1>4. ASSUME NEW j \in DOMAIN f, e < j
        PROVE  Before(f, j) > m
    <2>1. /\ f[e] = Sep /\ i \in DOMAIN f /\ e \in i..e /\ e \in Nat \ {0}
          /\ j \in Nat /\ e + 1 <= j
      BY <1>1, <1>4 DEF Ends
    <2>2. Before(f, e) = m
      BY <1>3, <2>1
    <2>3. Before(f, e + 1) = m + 1
      BY <2>1, <2>2, BeforeStep
    <2>4. Before(f, e + 1) <= Before(f, j)
      BY <2>1, BeforeMonotone
    <2>5. Before(f, j) \in Nat
      BY <2>1, BeforeType
    <2> QED
      BY <2>3, <2>4, <2>5
  <1>5. ASSUME NEW j \in i..(e - 1)
        PROVE  j \in I
    <2>1. i \in DOMAIN f /\ j \in DOMAIN f /\ j \in i..e
      BY <1>1, <1>5
    <2> QED
      BY <1>3, <1>5, <2>1 DEF Ends
  <1>6. ASSUME NEW j \in I
        PROVE  j \in i..(e - 1)
    <2>1. j \in DOMAIN f /\ f[j] # Sep /\ Before(f, j) = m
      BY <1>6
    <2>2. ~(j < i)
      BY <2>1 DEF Starts
    <2>3. ~(e < j)
      BY <1>4, <2>1
    <2>4. j # e
      BY <1>1, <2>1 DEF Ends
    <2> QED
      BY <1>1, <2>1, <2>2, <2>3, <2>4
  <1>7. I \cap DOMAIN f = i..(e - 1)
    BY <1>5, <1>6
  <1>8. Block(f, m + 1) = SubSeq(f, i, e - 1)
    <2>1. e - 1 \in Nat /\ i <= (e - 1) + 1 /\ e - 1 <= Len(f)
      BY <1>1
    <2>2. Picked(f, I) = SubSeq(f, i, e - 1)
      BY <1>7, <2>1, PickedInterval
    <2> QED
      BY <2>2 DEF Block
  <1>9. Starts(f, e + 1, m + 1)
    <2>1. ASSUME e + 1 \in DOMAIN f
          PROVE  Before(f, e + 1) = m + 1
      <3>1. f[e] = Sep /\ i \in DOMAIN f /\ e \in Nat \ {0} /\ e \in i..e
        BY <1>1, <2>1 DEF Ends
      <3> QED
        BY <1>3, <3>1, BeforeStep
    <2>2. ASSUME NEW j \in DOMAIN f, j < e + 1
          PROVE  Before(f, j) < m + 1
      <3>1. CASE j < i
        BY <1>1, <1>2, <3>1 DEF Starts
      <3>2. CASE i <= j
        <4>1. i \in DOMAIN f /\ j \in i..e
          BY <1>1, <2>2, <3>2
        <4> QED
          BY <1>3, <4>1
      <3> QED
        BY <1>1, <3>1, <3>2
    <2> QED
      BY <2>1, <2>2 DEF Starts
  <1> QED
    BY <1>8, <1>9

LEMMA BlockAfter ==
    ASSUME NEW S, NEW f \in Seq(S), NEW i \in Nat, NEW m \in Nat, Starts(f, i, m), i > Len(f)
    PROVE  Block(f, m + 1) = <<>> /\ Starts(f, i, m + 1)
  <1> DEFINE I == {j \in DOMAIN f : f[j] # Sep /\ Before(f, j) = (m + 1) - 1}
  <1>1. Len(f) \in Nat /\ DOMAIN f = 1..Len(f)
    BY LenProperties
  <1>2. \A j \in DOMAIN f : j < i /\ Before(f, j) < m /\ Before(f, j) \in Nat
    <2>1. \A j \in DOMAIN f : j \in Nat /\ j < i
      BY <1>1
    <2> QED
      BY <2>1, BeforeType DEF Starts
  <1>3. I \cap DOMAIN f = {}
    BY <1>2
  <1>4. Block(f, m + 1) = <<>>
    BY <1>3, PickedNone DEF Block
  <1>5. Starts(f, i, m + 1)
    BY <1>1, <1>2 DEF Starts
  <1> QED
    BY <1>4, <1>5

\* The line at which an item ends is there, and is the first of its kind.
LEMMA ItemEndIs ==
    ASSUME NEW S, NEW f \in Seq(S), NEW i \in Nat \ {0}, i <= Len(f)
    PROVE  LET e == ItemEnd(f, i)
           IN e \in Nat /\ i <= e /\ e <= Len(f) + 1 /\ Ends(f, i, e)
  <1>1. Len(f) \in Nat
    BY LenProperties
  <1> DEFINE T == {e \in i..(Len(f) + 1) : e = Len(f) + 1 \/ f[e] = Sep}
  <1>2. Len(f) + 1 \in T /\ T \subseteq Nat
    BY <1>1
  <1>3. PICK e \in T : \A l \in T : e <= l
    BY <1>2, LeastNumber
  <1>4. \A j \in i..(e - 1) : f[j] # Sep
    BY <1>1, <1>3
  <1>5. \E x \in i..(Len(f) + 1) :
           /\ x = Len(f) + 1 \/ IsSeparator(f[x])
           /\ \A j \in i..(x - 1) : ~IsSeparator(f[j])
    BY <1>3, <1>4 DEF IsSeparator
  <1>6. /\ ItemEnd(f, i) \in i..(Len(f) + 1)
        /\ ItemEnd(f, i) = Len(f) + 1 \/ IsSeparator(f[ItemEnd(f, i)])
        /\ \A j \in i..(ItemEnd(f, i) - 1) : ~IsSeparator(f[j])
    BY <1>5 DEF ItemEnd
  <1> QED
    BY <1>1, <1>6 DEF Ends, IsSeparator

\* An item that is read at the start of a block is that block, and the next
\* one is read at the start of the next.
LEMMA ItemIsBlock ==
    ASSUME NEW S, NEW f \in Seq(S), NEW i \in 1..(Len(f) + 2), NEW m \in Nat, Starts(f, i, m)
    PROVE  /\ ItemAt(f, i) = Block(f, m + 1)
           /\ AfterItem(f, i) \in 1..(Len(f) + 2)
           /\ Starts(f, AfterItem(f, i), m + 1)
  <1>1. Len(f) \in Nat /\ i \in Nat \ {0}
    BY LenProperties
  <1>2. CASE i > Len(f)
    BY <1>1, <1>2, BlockAfter DEF ItemAt, AfterItem
  <1>3. CASE i <= Len(f)
    <2>1. PICK e : e = ItemEnd(f, i)
      OBVIOUS
    <2>2. e \in Nat /\ i <= e /\ e <= Len(f) + 1 /\ Ends(f, i, e)
      BY <1>1, <1>3, <2>1, ItemEndIs
    <2>3. Block(f, m + 1) = SubSeq(f, i, e - 1) /\ Starts(f, e + 1, m + 1)
      BY <1>1, <2>2, BlockIs
    <2>4. ItemAt(f, i) = SubSeq(f, i, e - 1) /\ AfterItem(f, i) = e + 1
      <3>1. ~(i > Len(f))
        BY <1>1, <1>3
      <3> QED
        BY <2>1, <3>1 DEF ItemAt, AfterItem
    <2> QED
      BY <1>1, <2>2, <2>3, <2>4
  <1> QED
    BY <1>1, <1>2, <1>3

LEMMA FirstStarts ==
    ASSUME NEW S, NEW f \in Seq(S)
    PROVE  Starts(f, 1, 0)
  <1>1. DOMAIN f = 1..Len(f) /\ Len(f) \in Nat
    BY LenProperties
  <1> QED
    BY <1>1, BeforeFirst DEF Starts

-----------------------------------------------------------------------------
(* The blocks of a file that is made of blocks.                            *)

SeparatorFree(b) == \A j \in DOMAIN b : b[j] # Sep

\* A separator and one block more.
Joins(g, f, b) == g = f \o (<<Sep>> \o b)

LEMMA BlockMore ==
    ASSUME NEW S, NEW f \in Seq(S), NEW b \in Seq(S), Sep \in S, SeparatorFree(b),
           NEW n \in Nat, Before(f, Len(f) + 1) = n,
           NEW g, Joins(g, f, b)
    PROVE  /\ g \in Seq(S)
           /\ Before(g, Len(g) + 1) = n + 1
           /\ Block(g, n + 2) = b
           /\ \A k \in 1..(n + 1) : Block(g, k) = Block(f, k)
  <1>1. /\ Len(f) \in Nat /\ DOMAIN f = 1..Len(f)
        /\ Len(b) \in Nat /\ DOMAIN b = 1..Len(b)
    BY LenProperties
  <1>2. PICK m \in Nat, l \in Nat : m = Len(f) /\ l = Len(b)
    BY <1>1
  <1> DEFINE c == <<Sep>> \o b
  <1>3. /\ c \in Seq(S) /\ Len(c) = 1 + l /\ c[1] = Sep
        /\ \A j \in 1..l : c[1 + j] = b[j]
    <2>1. <<Sep>> \in Seq(S) /\ Len(<<Sep>>) = 1 /\ <<Sep>>[1] = Sep
      OBVIOUS
    <2>2. /\ c \in Seq(S) /\ Len(c) = 1 + l
          /\ \A i \in 1..(1 + l) : c[i] = IF i <= 1 THEN <<Sep>>[i] ELSE b[i - 1]
      BY <1>2, <2>1, ConcatProperties
    <2>3. \A j \in 1..l : 1 + j \in 1..(1 + l) /\ ~(1 + j <= 1) /\ (1 + j) - 1 = j
      BY <1>2
    <2>4. 1 \in 1..(1 + l) /\ 1 <= 1
      BY <1>2
    <2> HIDE DEF c
    <2> QED
      BY <2>1, <2>2, <2>3, <2>4
  <1> HIDE DEF c
  <1>4. /\ g \in Seq(S) /\ Len(g) = m + 1 + l
        /\ \A i \in 1..m : g[i] = f[i]
        /\ g[m + 1] = Sep
        /\ \A j \in 1..l : g[m + 1 + j] = b[j]
    <2>1. /\ g \in Seq(S) /\ Len(g) = m + (1 + l)
          /\ \A i \in 1..(m + (1 + l)) : g[i] = IF i <= m THEN f[i] ELSE c[i - m]
      BY <1>2, <1>3, ConcatProperties DEF c, Joins
    <2>2. \A j \in 1..l : /\ m + 1 + j \in 1..(m + (1 + l)) /\ ~(m + 1 + j <= m)
                          /\ (m + 1 + j) - m = 1 + j
      BY <1>2
    <2>3. m + 1 \in 1..(m + (1 + l)) /\ ~(m + 1 <= m) /\ (m + 1) - m = 1
      BY <1>2
    <2>4. \A i \in 1..m : i \in 1..(m + (1 + l)) /\ i <= m
      BY <1>2
    <2>5. Len(g) = m + 1 + l
      BY <1>2, <2>1
    <2> QED
      BY <1>3, <2>1, <2>2, <2>3, <2>4, <2>5
  <1>5. DOMAIN g = 1..(m + 1 + l)
    BY <1>4, LenProperties
  <1>6. \A i \in 1..(m + 1) : Before(g, i) = Before(f, i) /\ Before(f, i) \in Nat /\ Before(f, i) <= n
    <2> SUFFICES ASSUME NEW i \in 1..(m + 1)
                 PROVE  Before(g, i) = Before(f, i) /\ Before(f, i) \in Nat /\ Before(f, i) <= n
      OBVIOUS
    <2>1. i \in Nat /\ m + 1 \in Nat /\ i <= m + 1 /\ \A j \in 1..(i - 1) : j \in 1..m
      BY <1>2
    <2>2. \A j \in 1..(i - 1) : g[j] = f[j]
      BY <1>4, <2>1
    <2>3. Before(g, i) = Before(f, i)
      BY <2>1, <2>2, BeforeAgree
    <2>4. Before(f, i) <= Before(f, m + 1)
      BY <2>1, BeforeMonotone
    <2> QED
      BY <1>2, <2>1, <2>3, <2>4, BeforeType
  <1>7. Before(g, m + 2) = n + 1
    <2>1. m + 1 \in Nat \ {0} /\ (m + 1) + 1 = m + 2 /\ m + 1 \in 1..(m + 1)
      BY <1>2
    <2>2. Before(g, m + 1) = n
      BY <1>2, <1>6, <2>1
    <2>3. Before(g, (m + 1) + 1) = n + 1
      BY <1>4, <2>1, <2>2, BeforeStep
    <2> QED
      BY <2>1, <2>3
  <1>8. \A i \in (m + 2)..(m + 1 + l) : g[i] # Sep
    <2> SUFFICES ASSUME NEW i \in (m + 2)..(m + 1 + l)
                 PROVE  g[i] # Sep
      OBVIOUS
    <2>1. i - (m + 1) \in 1..l /\ m + 1 + (i - (m + 1)) = i
      BY m \in Nat, l \in Nat
    <2>2. PICK j \in 1..l : m + 1 + j = i
      BY <2>1
    <2>3. j \in DOMAIN b /\ g[i] = b[j]
      BY <1>1, <1>2, <1>4, <2>2
    <2> QED
      BY <2>3 DEF SeparatorFree
  <1>9. \A i \in (m + 2)..(m + 2 + l) : Before(g, i) = n + 1
    <2> SUFFICES ASSUME NEW i \in (m + 2)..(m + 2 + l)
                 PROVE  Before(g, i) = n + 1
      OBVIOUS
    <2>1. /\ m + 2 \in Nat \ {0} /\ i \in Nat /\ m + 2 <= i
          /\ \A j \in (m + 2)..(i - 1) : j \in (m + 2)..(m + 1 + l)
      BY <1>2
    <2>2. \A j \in (m + 2)..(i - 1) : g[j] # Sep
      BY <1>8, <2>1
    <2>3. Before(g, i) = Before(g, m + 2)
      BY <2>1, <2>2, BeforeSame
    <2> QED
      BY <1>7, <2>3
  <1>10. Before(g, Len(g) + 1) = n + 1
    <2>1. Len(g) + 1 = m + 2 + l /\ m + 2 + l \in (m + 2)..(m + 2 + l)
      BY <1>2, <1>4
    <2> QED
      BY <1>9, <2>1
  <1>11. Block(g, n + 2) = b
    <2>1. Starts(g, m + 2, n + 1)
      <3>1. ASSUME NEW j \in DOMAIN g, j < m + 2
            PROVE  Before(g, j) < n + 1
        <4>1. j \in 1..(m + 1)
          BY <1>2, <1>5, <3>1
        <4>2. Before(g, j) \in Nat /\ Before(g, j) <= n
          BY <1>6, <4>1
        <4> QED
          BY <4>2
      <3> QED
        BY <1>7, <3>1 DEF Starts
    <2>2. PICK a \in Nat, e \in Nat, q \in Nat : a = m + 2 /\ e = m + 2 + l /\ q = n + 1
      BY <1>2
    <2>3. a \in Nat \ {0} /\ a <= e /\ e = Len(g) + 1 /\ e - 1 = m + 1 + l /\ Starts(g, a, q)
      BY <1>2, <1>4, <2>1, <2>2
    <2>4. Ends(g, a, e)
      BY <1>8, <2>2, <2>3 DEF Ends
    <2>5. Block(g, q + 1) = SubSeq(g, a, e - 1)
      <3>1. /\ g \in Seq(S) /\ a \in Nat \ {0} /\ q \in Nat /\ e \in Nat
            /\ a <= e /\ e <= Len(g) + 1 /\ Starts(g, a, q) /\ Ends(g, a, e)
        BY <1>4, <2>3, <2>4
      <3> HIDE DEF Block
      <3> QED
        BY ONLY <3>1, BlockIs
    <2>6. SubSeq(g, a, e - 1) = b
      <3>1. PICK d \in Int : d = e - 1
        BY <2>2
      <3>2. \A i \in a..d : g[i] \in S
        <4>1. \A i \in a..d : i \in 1..Len(g)
          BY <1>2, <1>4, <2>2, <3>1
        <4> QED
          BY <1>4, <4>1, ElementOfSeq
      <3>3. /\ SubSeq(g, a, d) \in Seq(S)
            /\ Len(SubSeq(g, a, d)) = IF a <= d THEN d - a + 1 ELSE 0
            /\ \A i \in 1..(d - a + 1) : SubSeq(g, a, d)[i] = g[a + i - 1]
        <4>1. a \in Int /\ d \in Int
          OBVIOUS
        <4> QED
          BY ONLY <3>2, <4>1, SubSeqProperties
      <3>4. d - a + 1 = l /\ (a <= d <=> l # 0)
        BY <1>2, <2>2, <3>1
      <3>5. Len(SubSeq(g, a, d)) = l
        BY <3>3, <3>4
      <3>6. \A i \in 1..l : a + i - 1 = m + 1 + i
        BY <1>2, <2>2
      <3>7. \A i \in 1..l : SubSeq(g, a, d)[i] = b[i]
        BY <1>4, <3>3, <3>4, <3>6
      <3> QED
        BY <1>2, <3>1, <3>3, <3>5, <3>7, SeqEqual
    <2>7. q + 1 = n + 2
      BY <2>2
    <2> QED
      BY <2>5, <2>6, <2>7
  <1>12. ASSUME NEW k \in 1..(n + 1)
         PROVE  Block(g, k) = Block(f, k)
    <2> DEFINE I == {i \in DOMAIN g : g[i] # Sep /\ Before(g, i) = k - 1}
               J == {i \in DOMAIN f : f[i] # Sep /\ Before(f, i) = k - 1}
    <2>1. ASSUME NEW i \in I
          PROVE  i \in 1..m /\ i \in J
      <3>1. i \in 1..(m + 1 + l) /\ g[i] # Sep /\ Before(g, i) = k - 1
        BY <1>5, <2>1
      <3>2. i \notin (m + 2)..(m + 2 + l)
        <4>1. k - 1 # n + 1
          BY <1>12
        <4> QED
          BY <1>9, <3>1, <4>1
      <3>3. i # m + 1
        BY <1>4, <3>1
      <3>4. i \in 1..m /\ i \in 1..(m + 1)
        BY <1>2, <3>1, <3>2, <3>3
      <3> QED
        BY <1>1, <1>2, <1>4, <1>6, <3>1, <3>4
    <2>2. ASSUME NEW i \in J
          PROVE  i \in I
      <3>1. i \in 1..m /\ i \in 1..(m + 1) /\ i \in 1..(m + 1 + l)
        BY <1>1, <1>2
      <3> QED
        BY <1>4, <1>5, <1>6, <3>1
    <2>3. I \cap DOMAIN g = J \cap DOMAIN f /\ I \cap DOMAIN g \subseteq 1..m
      BY <2>1, <2>2
    <2>4. \A i \in I \cap DOMAIN g : g[i] = f[i]
      BY <1>4, <2>3
    <2> HIDE DEF I, J
    <2>5. Picked(g, I) = Picked(f, J)
      BY ONLY <2>3, <2>4, m \in Nat, PickedSame
    <2> QED
      BY <2>5 DEF Block, I, J
  <1> QED
    BY <1>4, <1>10, <1>11, <1>12


\* The first n blocks of a file, which has no more.
HasBlocks(f, blocks, n) ==
    /\ Before(f, Len(f) + 1) = n - 1
    /\ \A k \in 1..n : Block(f, k) = blocks[k]

LEMMA NoBlockAfter ==
    ASSUME NEW S, NEW f \in Seq(S), NEW n \in Nat, Before(f, Len(f) + 1) <= n - 1,
           NEW k \in Nat, k > n
    PROVE  Block(f, k) = <<>>
  <1> DEFINE I == {j \in DOMAIN f : f[j] # Sep /\ Before(f, j) = k - 1}
  <1>1. Len(f) \in Nat /\ DOMAIN f = 1..Len(f)
    BY LenProperties
  <1>2. ASSUME NEW j \in DOMAIN f
        PROVE  Before(f, j) # k - 1
    <2>1. j \in Nat /\ Len(f) + 1 \in Nat /\ j <= Len(f) + 1
      BY <1>1
    <2>2. Before(f, j) <= Before(f, Len(f) + 1) /\ Before(f, j) \in Nat
          /\ Before(f, Len(f) + 1) \in Nat
      BY <2>1, BeforeMonotone, BeforeType
    <2> QED
      BY <2>2
  <1>3. I \cap DOMAIN f = {}
    BY <1>2
  <1> QED
    BY <1>3, PickedNone DEF Block

\* What is flattened: the blocks, each but the first after a separator.
BlocksApart(seqs, blocks, n) ==
    \A k \in 1..n : seqs[k] = IF k = 1 THEN blocks[k] ELSE <<Sep>> \o blocks[k]

LEMMA SeparatedIs ==
    ASSUME NEW S, NEW blocks \in Seq(Seq(S)), Sep \in S
    PROVE  /\ Separated(blocks) \in Seq(S)
           /\ \E seqs \in Seq(Seq(S)) :
                 /\ Len(seqs) = Len(blocks) /\ Separated(blocks) = FlattenSeq(seqs)
                 /\ BlocksApart(seqs, blocks, Len(blocks))
  <1> DEFINE seqs == [k \in DOMAIN blocks |-> IF k = 1 THEN blocks[k] ELSE <<Sep>> \o blocks[k]]
  <1>1. PICK n \in Nat : n = Len(blocks) /\ DOMAIN blocks = 1..n
    BY LenProperties
  <1>2. \A k \in 1..n : blocks[k] \in Seq(S)
    BY <1>1, ElementOfSeq
  <1>3. /\ seqs \in Seq(Seq(S)) /\ Len(seqs) = n
        /\ \A k \in 1..n : seqs[k] = IF k = 1 THEN blocks[k] ELSE <<Sep>> \o blocks[k]
    <2>1. <<Sep>> \in Seq(S)
      OBVIOUS
    <2>2. \A k \in 1..n : <<Sep>> \o blocks[k] \in Seq(S)
      BY <1>2, <2>1, ConcatProperties
    <2>3. seqs \in [1..n -> Seq(S)]
      BY <1>1, <1>2, <2>2
    <2>4. \A k \in 1..n : seqs[k] = IF k = 1 THEN blocks[k] ELSE <<Sep>> \o blocks[k]
      BY <1>1
    <2> HIDE DEF seqs
    <2> QED
      BY <2>3, <2>4
  <1>4. Separated(blocks) = FlattenSeq(seqs)
    BY DEF Separated
  <1> HIDE DEF seqs
  <1>5. Separated(blocks) \in Seq(S)
    BY <1>3, <1>4, FlattenType
  <1> QED
    BY <1>1, <1>3, <1>4, <1>5 DEF BlocksApart

LEMMA SeparatedBlocks ==
    ASSUME NEW S, NEW blocks \in Seq(Seq(S)), Sep \in S,
           \A k \in DOMAIN blocks : SeparatorFree(blocks[k])
    PROVE  /\ Separated(blocks) \in Seq(S)
           /\ \A k \in DOMAIN blocks : Block(Separated(blocks), k) = blocks[k]
           /\ \A k \in Nat : k > Len(blocks) => Block(Separated(blocks), k) = <<>>
  <1> DEFINE OK(f, n) == f \in Seq(S) /\ HasBlocks(f, blocks, n)
  <1>1. PICK n \in Nat : n = Len(blocks) /\ DOMAIN blocks = 1..n
    BY LenProperties
  <1>2. \A k \in 1..n : blocks[k] \in Seq(S) /\ SeparatorFree(blocks[k])
    BY <1>1, ElementOfSeq
  <1>3. PICK seqs \in Seq(Seq(S)) :
           /\ Len(seqs) = n /\ Separated(blocks) = FlattenSeq(seqs)
           /\ BlocksApart(seqs, blocks, n)
    BY <1>1, SeparatedIs
  <1>4. \A k \in 1..n : seqs[k] = IF k = 1 THEN blocks[k] ELSE <<Sep>> \o blocks[k]
    BY <1>3 DEF BlocksApart
  <1>5. Separated(blocks) \in Seq(S)
    BY SeparatedIs
  <1>6. CASE n = 0
    <2>1. seqs = <<>>
      BY <1>3, <1>6, EmptySeq
    <2>2. Separated(blocks) = <<>>
      BY <1>3, <2>1 DEF FlattenSeq
    <2>3. \A k : Block(<<>>, k) = <<>>
      <3>1. DOMAIN <<>> = {}
        BY EmptySeq
      <3> QED
        BY <3>1, PickedNone DEF Block
    <2> QED
      BY <1>1, <1>5, <1>6, <2>2, <2>3
  <1>7. CASE n # 0
    <2>1. PICK F : Flattens(F, seqs, n) /\ FlattenSeq(seqs) = F[n]
      BY <1>3, <1>7, FlattenAt
    <2>2. \A i \in 1..n : F[i] = IF i = 1 THEN seqs[i] ELSE F[i - 1] \o seqs[i]
      BY <2>1 DEF Flattens
    <2> DEFINE T == {k \in Nat : k + 1 \in 1..n => OK(F[k + 1], k + 1)}
    <2>3. 0 \in T
      <3> SUFFICES OK(F[1], 1)
        OBVIOUS
      <3>1. 1 \in 1..n
        BY <1>7
      <3>2. PICK f : f = F[1] /\ f = blocks[1]
        BY <1>4, <2>2, <3>1
      <3>3. f \in Seq(S) /\ SeparatorFree(f) /\ Len(f) \in Nat /\ DOMAIN f = 1..Len(f)
        BY <1>2, <3>1, <3>2, LenProperties
      <3>4. Before(f, Len(f) + 1) = 0
        <4>1. \A j \in 1..((Len(f) + 1) - 1) : f[j] # Sep
          BY <3>3 DEF SeparatorFree
        <4>2. 1 \in Nat \ {0} /\ Len(f) + 1 \in Nat /\ 1 <= Len(f) + 1
          BY <3>3
        <4>3. Before(f, Len(f) + 1) = Before(f, 1)
          BY <4>1, <4>2, BeforeSame
        <4> QED
          BY <4>3, BeforeFirst
      <3>5. Block(f, 1) = f
        <4>1. PICK e \in Nat, i \in Nat \ {0}, m \in Nat : e = Len(f) + 1 /\ i = 1 /\ m = 0
          BY <3>3
        <4>2. Ends(f, i, e) /\ i <= e /\ e <= Len(f) + 1
          <5>1. \A j \in i..(e - 1) : j \in DOMAIN f
            BY <3>3, <4>1
          <5>2. \A j \in i..(e - 1) : f[j] # Sep
            BY <3>3, <5>1 DEF SeparatorFree
          <5>3. e = Len(f) + 1 /\ i <= e /\ e <= Len(f) + 1
            BY <3>3, <4>1
          <5> QED
            BY <5>2, <5>3 DEF Ends
        <4>3. Starts(f, i, m) /\ f \in Seq(S)
          BY <3>3, <4>1, FirstStarts
        <4>4. Block(f, m + 1) = SubSeq(f, i, e - 1)
          BY ONLY <4>2, <4>3, i \in Nat \ {0}, m \in Nat, e \in Nat, BlockIs
        <4>5. SubSeq(f, i, e - 1) = f
          <5>1. e - 1 = Len(f)
            BY <3>3, <4>1
          <5> QED
            BY <3>3, <4>1, <5>1, SubSeqFull
        <4>6. m + 1 = 1
          BY <4>1
        <4> QED
          BY <4>4, <4>5, <4>6
      <3>6. \A k \in 1..1 : Block(f, k) = blocks[k]
        BY <3>2, <3>5
      <3> QED
        BY <3>2, <3>3, <3>4, <3>6 DEF HasBlocks
    <2>4. ASSUME NEW k \in Nat, k \in T
          PROVE  k + 1 \in T
      <3> SUFFICES ASSUME (k + 1) + 1 \in 1..n
                   PROVE  OK(F[(k + 1) + 1], (k + 1) + 1)
        OBVIOUS
      <3>1. PICK j \in Nat, i \in Nat : j = (k + 1) + 1 /\ i = k + 1
        OBVIOUS
      <3>2. j \in 1..n /\ i \in 1..n /\ j - 1 = i /\ j # 1 /\ k + 2 = j /\ i - 1 = k /\ j - 1 = k + 1
        BY <3>1
      <3>3. OK(F[i], i)
        BY <2>4, <3>1, <3>2
      <3>4. F[j] = F[i] \o (<<Sep>> \o blocks[j])
        <4>1. F[j] = F[j - 1] \o seqs[j]
          BY <2>2, <3>2
        <4>2. seqs[j] = <<Sep>> \o blocks[j]
          BY <1>4, <3>2
        <4> QED
          BY <3>2, <4>1, <4>2
      <3>5. PICK f, g, b : f = F[i] /\ g = F[j] /\ b = blocks[j]
        OBVIOUS
      <3>6. f \in Seq(S) /\ b \in Seq(S) /\ SeparatorFree(b) /\ Before(f, Len(f) + 1) = k
            /\ Joins(g, f, b)
        BY <1>2, <3>2, <3>3, <3>4, <3>5 DEF HasBlocks, Joins
      <3>7. /\ g \in Seq(S)
            /\ Before(g, Len(g) + 1) = k + 1
            /\ Block(g, k + 2) = b
            /\ \A x \in 1..(k + 1) : Block(g, x) = Block(f, x)
        BY ONLY <3>6, Sep \in S, k \in Nat, BlockMore
      <3>8. ASSUME NEW x \in 1..j
            PROVE  Block(g, x) = blocks[x]
        <4>1. CASE x = j
          BY <3>2, <3>5, <3>7, <4>1
        <4>2. CASE x # j
          <5>1. x \in 1..(k + 1) /\ x \in 1..i
            BY <3>1, <4>2
          <5>2. Block(g, x) = Block(f, x)
            BY <3>7, <5>1
          <5>3. Block(f, x) = blocks[x]
            BY <3>3, <3>5, <5>1 DEF HasBlocks
          <5> QED
            BY <5>2, <5>3
        <4> QED
          BY <4>1, <4>2
      <3>9. OK(g, j)
        BY <3>2, <3>7, <3>8 DEF HasBlocks
      <3> QED
        BY <3>1, <3>5, <3>9
    <2> HIDE DEF T
    <2>5. Nat \subseteq T
      BY <2>3, <2>4, InductionOnSet
    <2>6. n - 1 \in T /\ (n - 1) + 1 = n /\ n \in 1..n
      BY <1>7, <2>5
    <2>7. OK(F[n], n)
      BY <2>6 DEF T
    <2>8. PICK f : f = Separated(blocks) /\ OK(f, n)
      BY <1>3, <2>1, <2>7
    <2>9. Before(f, Len(f) + 1) <= n - 1 /\ \A k \in 1..n : Block(f, k) = blocks[k]
      BY <1>1, <2>8 DEF HasBlocks
    <2>10. ASSUME NEW k \in Nat, k > n
           PROVE  Block(f, k) = <<>>
      BY ONLY <2>8, <2>9, <2>10, n \in Nat, k \in Nat, NoBlockAfter
    <2> QED
      BY <1>1, <2>8, <2>9, <2>10
  <1> QED
    BY <1>6, <1>7

-----------------------------------------------------------------------------
(* WorkfileParser, whose loop is a recursive function of the line.         *)

\* The state of the parser after each of the first n lines.
Parses(A, f, n) ==
    A = [k \in 0..n |-> IF k = 0 THEN [yielded |-> <<>>, workitem |-> <<>>]
                        ELSE ParseLine(A[k - 1], f[k])]

LEMMA ParsesExists ==
    ASSUME NEW f, NEW n \in Nat
    PROVE  \E A : Parses(A, f, n)
  <1> DEFINE T == {k \in Nat : \E A : Parses(A, f, k)}
             start == [yielded |-> <<>>, workitem |-> <<>>]
  <1>1. 0 \in T
    <2> DEFINE A == [k \in 0..0 |-> start]
    <2>1. A = [k \in 0..0 |-> IF k = 0 THEN start ELSE ParseLine(A[k - 1], f[k])]
      OBVIOUS
    <2> QED
      BY <2>1 DEF Parses
  <1>2. ASSUME NEW k \in Nat, k \in T
        PROVE  k + 1 \in T
    <2>1. PICK A : Parses(A, f, k)
      BY <1>2
    <2> DEFINE last == ParseLine(A[k], f[k + 1])
               B == [i \in 0..(k + 1) |-> IF i = k + 1 THEN last ELSE A[i]]
    <2> HIDE DEF start
    <2>2. \A i \in 0..k : A[i] = IF i = 0 THEN start ELSE ParseLine(A[i - 1], f[i])
      BY <2>1 DEF Parses, start
    <2> HIDE DEF last
    <2>3. ASSUME NEW i \in 0..(k + 1)
          PROVE  B[i] = IF i = 0 THEN start ELSE ParseLine(B[i - 1], f[i])
      <3>1. CASE i = k + 1
        <4>1. i # 0 /\ i - 1 = k /\ k \in 0..(k + 1) /\ k # k + 1 /\ i \in 0..(k + 1)
          BY <3>1
        <4>2. B[i] = last /\ B[i - 1] = A[k]
          BY <3>1, <4>1
        <4> QED
          BY <3>1, <4>1, <4>2 DEF last
      <3>2. CASE i # k + 1
        <4>1. i \in 0..k /\ (i # 0 => i - 1 \in 0..k /\ i - 1 \in 0..(k + 1) /\ i - 1 # k + 1)
          BY <3>2
        <4> QED
          BY <2>2, <3>2, <4>1
      <3> QED
        BY <3>1, <3>2
    <2>4. B = [i \in 0..(k + 1) |-> IF i = 0 THEN start ELSE ParseLine(B[i - 1], f[i])]
      BY <2>3
    <2> HIDE DEF B
    <2>5. Parses(B, f, k + 1)
      BY <2>4 DEF Parses, start
    <2>6. \E C : Parses(C, f, k + 1)
      BY <2>5
    <2> QED
      BY <2>6
  <1> HIDE DEF T
  <1>3. Nat \subseteq T
    BY <1>1, <1>2, InductionOnSet
  <1> QED
    BY <1>3 DEF T

LEMMA ParseAt ==
    ASSUME NEW f, Len(f) \in Nat
    PROVE  \E A : Parses(A, f, Len(f)) /\ Parse(f) = A[Len(f)].yielded
  <1> DEFINE A == CHOOSE B : Parses(B, f, Len(f))
  <1>1. Parses(A, f, Len(f))
    BY ParsesExists
  <1>2. Parse(f) = A[Len(f)].yielded
    BY DEF Parse, Parses
  <1> QED
    BY <1>1, <1>2

\* What the parser has after n lines: items without a separator, and, in a file
\* without padded separators, the blocks before the one that line n is in, and
\* what it has read of that.
ParserTypes(S, state) ==
    /\ state \in [yielded : Seq(Seq(S)), workitem : Seq(S)]
    /\ \A k \in DOMAIN state.yielded : SeparatorFree(state.yielded[k])
    /\ SeparatorFree(state.workitem)

ParserPlace(f, n, state) ==
    /\ \A k \in DOMAIN state.yielded : state.yielded[k] = Block(f, k)
    /\ \E i \in 1..(n + 1) :
          /\ Starts(f, i, Len(state.yielded))
          /\ state.workitem = SubSeq(f, i, n)
          /\ \A j \in i..n : f[j] # Sep

LEMMA LinesDiffer ==
    Sep # Padded /\ Sep # Text /\ Sep # Blank
  BY DEF Sep, Padded, Text, Blank

LEMMA AppendFree ==
    ASSUME NEW S, NEW b \in Seq(S), SeparatorFree(b), NEW line \in S, line # Sep
    PROVE  Append(b, line) \in Seq(S) /\ SeparatorFree(Append(b, line))
  <1>1. /\ Append(b, line) \in Seq(S) /\ Len(Append(b, line)) = Len(b) + 1
        /\ \A i \in 1..Len(b) : Append(b, line)[i] = b[i]
        /\ Append(b, line)[Len(b) + 1] = line
    BY AppendProperties
  <1>2. /\ Len(b) \in Nat /\ DOMAIN b = 1..Len(b)
        /\ DOMAIN Append(b, line) = 1..(Len(b) + 1)
    BY <1>1, LenProperties
  <1>3. ASSUME NEW i \in 1..(Len(b) + 1)
        PROVE  Append(b, line)[i] # Sep
    <2>1. CASE i = Len(b) + 1
      BY <1>1, <2>1
    <2>2. CASE i # Len(b) + 1
      <3>1. i \in 1..Len(b)
        BY <1>2, <2>2
      <3> QED
        BY <1>1, <1>2, <3>1 DEF SeparatorFree
    <2> QED
      BY <2>1, <2>2
  <1> QED
    BY <1>1, <1>2, <1>3 DEF SeparatorFree

LEMMA ParserTypesKept ==
    ASSUME NEW S, NEW state, ParserTypes(S, state), NEW line \in S
    PROVE  ParserTypes(S, ParseLine(state, line))
  <1> DEFINE y == state.yielded
             w == state.workitem
  <1>1. /\ y \in Seq(Seq(S)) /\ w \in Seq(S) /\ SeparatorFree(w)
        /\ \A k \in DOMAIN y : SeparatorFree(y[k])
        /\ state = [yielded |-> y, workitem |-> w]
    BY DEF ParserTypes
  <1> HIDE DEF y, w
  <1>2. CASE IsSeparatorStripped(line)
    <2>1. ParseLine(state, line) = [yielded |-> Append(y, w), workitem |-> <<>>]
      BY <1>2 DEF ParseLine, y, w
    <2>2. /\ Append(y, w) \in Seq(Seq(S)) /\ Len(Append(y, w)) = Len(y) + 1
          /\ \A i \in 1..Len(y) : Append(y, w)[i] = y[i]
          /\ Append(y, w)[Len(y) + 1] = w
      BY <1>1, AppendProperties
    <2>3. /\ Len(y) \in Nat /\ DOMAIN y = 1..Len(y)
          /\ DOMAIN Append(y, w) = 1..(Len(y) + 1)
      BY <1>1, <2>2, LenProperties
    <2>4. ASSUME NEW k \in 1..(Len(y) + 1)
          PROVE  SeparatorFree(Append(y, w)[k])
      <3>1. CASE k = Len(y) + 1
        BY <1>1, <2>2, <3>1
      <3>2. CASE k # Len(y) + 1
        <4>1. k \in 1..Len(y)
          BY <2>3, <3>2
        <4> QED
          BY <1>1, <2>2, <2>3, <4>1
      <3> QED
        BY <3>1, <3>2
    <2>5. <<>> \in Seq(S) /\ SeparatorFree(<<>>)
      BY EmptySeq DEF SeparatorFree
    <2> QED
      BY <2>1, <2>2, <2>3, <2>4, <2>5 DEF ParserTypes
  <1>3. CASE ~IsSeparatorStripped(line)
    <2>1. ParseLine(state, line) = [yielded |-> y, workitem |-> Append(w, line)]
      BY <1>1, <1>3 DEF ParseLine
    <2>2. line # Sep
      BY <1>3 DEF IsSeparatorStripped
    <2>3. Append(w, line) \in Seq(S) /\ SeparatorFree(Append(w, line))
      BY <1>1, <2>2, AppendFree
    <2>4. PICK v : v = Append(w, line)
      OBVIOUS
    <2>5. ParserTypes(S, [yielded |-> y, workitem |-> v])
      BY <1>1, <2>3, <2>4 DEF ParserTypes
    <2> QED
      BY <2>1, <2>4, <2>5
  <1> QED
    BY <1>2, <1>3

LEMMA ParserPlaceKept ==
    ASSUME NEW S, NEW f \in Seq(S), NEW n \in Nat, n + 1 \in 1..Len(f),
           NEW state, ParserTypes(S, state), ParserPlace(f, n, state),
           f[n + 1] # Padded
    PROVE  ParserPlace(f, n + 1, ParseLine(state, f[n + 1]))
  <1> DEFINE y == state.yielded
             w == state.workitem
  <1>1. /\ y \in Seq(Seq(S)) /\ w \in Seq(S) /\ state = [yielded |-> y, workitem |-> w]
        /\ \A k \in DOMAIN y : y[k] = Block(f, k)
    BY DEF ParserTypes, ParserPlace
  <1>2. PICK i \in 1..(n + 1) : Starts(f, i, Len(y)) /\ w = SubSeq(f, i, n)
                                /\ \A j \in i..n : f[j] # Sep
    BY DEF ParserPlace
  <1> HIDE DEF y, w
  <1>3. PICK m \in Nat, e \in Nat : m = Len(y) /\ e = n + 1
    BY <1>1, LenProperties
  <1>4. DOMAIN y = 1..m /\ Len(f) \in Nat /\ e \in 1..Len(f) /\ e - 1 = n
        /\ i \in Nat \ {0} /\ i <= e /\ e <= Len(f) + 1
    BY <1>1, <1>3, LenProperties
  <1>5. CASE f[e] = Sep
    <2>1. ParseLine(state, f[e]) = [yielded |-> Append(y, w), workitem |-> <<>>]
      BY <1>5 DEF ParseLine, IsSeparatorStripped, y, w
    <2>2. Ends(f, i, e) /\ Starts(f, i, m)
      BY <1>2, <1>3, <1>4, <1>5 DEF Ends
    <2>3. Block(f, m + 1) = SubSeq(f, i, e - 1) /\ Starts(f, e + 1, m + 1)
      BY ONLY <1>4, <2>2, f \in Seq(S), m \in Nat, e \in Nat, BlockIs
    <2>4. Block(f, m + 1) = w
      BY <1>2, <1>4, <2>3
    <2>5. /\ Append(y, w) \in Seq(Seq(S)) /\ Len(Append(y, w)) = m + 1
          /\ \A k \in 1..m : Append(y, w)[k] = y[k]
          /\ Append(y, w)[m + 1] = w
      BY <1>1, <1>3, AppendProperties
    <2>6. DOMAIN Append(y, w) = 1..(m + 1)
      BY <2>5, LenProperties
    <2>7. ASSUME NEW k \in 1..(m + 1)
          PROVE  Append(y, w)[k] = Block(f, k)
      <3>1. CASE k = m + 1
        BY <2>4, <2>5, <3>1
      <3>2. CASE k # m + 1
        <4>1. k \in 1..m
          BY <3>2
        <4> QED
          BY <1>1, <1>4, <2>5, <4>1
      <3> QED
        BY <3>1, <3>2
    <2>8. <<>> = SubSeq(f, e + 1, e)
      <3>1. e + 1 \in Int /\ e \in Int /\ e < e + 1
        OBVIOUS
      <3> QED
        BY ONLY <3>1, SubSeqEmpty
    <2>9. e + 1 \in 1..(e + 1) /\ \A j \in (e + 1)..e : FALSE
      OBVIOUS
    <2>10. ParserPlace(f, e, [yielded |-> Append(y, w), workitem |-> <<>>])
      BY <2>3, <2>5, <2>6, <2>7, <2>8, <2>9 DEF ParserPlace
    <2> QED
      BY <1>3, <2>1, <2>10
  <1>6. CASE f[e] # Sep
    <2>1. ParseLine(state, f[e]) = [yielded |-> y, workitem |-> Append(w, f[e])]
      BY <1>1, <1>3, <1>6 DEF ParseLine, IsSeparatorStripped
    <2>2. Append(w, f[e]) = SubSeq(f, i, e)
      <3>1. i \in 1..Len(f) /\ e \in i..Len(f)
        BY <1>4
      <3>2. SubSeq(f, i, e) = SubSeq(f, i, e - 1) \o <<f[e]>>
        BY <3>1, SubSeqRecursiveSecond
      <3>3. f[e] \in S
        BY <1>4, ElementOfSeq
      <3>4. Append(w, f[e]) = w \o <<f[e]>>
        BY <1>1, <3>3, AppendIsConcat
      <3> QED
        BY <1>2, <1>4, <3>2, <3>4
    <2>3. \A j \in i..e : f[j] # Sep
      <3>1. \A j \in i..e : j = e \/ j \in i..n
        BY <1>4
      <3> QED
        BY <1>2, <1>6, <3>1
    <2>4. i \in 1..(e + 1) /\ Starts(f, i, Len(y))
      BY <1>2, <1>4
    <2>5. ParserPlace(f, e, [yielded |-> y, workitem |-> Append(w, f[e])])
      BY <1>1, <2>2, <2>3, <2>4 DEF ParserPlace
    <2> QED
      BY <1>3, <2>1, <2>5
  <1> QED
    BY <1>5, <1>6

\* The items of the parser have no separator, and are the blocks of a file that
\* has no padded separators.
LEMMA ParseItems ==
    ASSUME NEW S, NEW f \in Seq(S)
    PROVE  /\ Parse(f) \in Seq(Seq(S))
           /\ \A k \in DOMAIN Parse(f) : SeparatorFree(Parse(f)[k])
           /\ (\A i \in DOMAIN f : f[i] # Padded)
              => \A k \in DOMAIN Parse(f) : Parse(f)[k] = Block(f, k)
  <1>1. PICK n \in Nat : n = Len(f) /\ DOMAIN f = 1..n
    BY LenProperties
  <1>2. PICK A : Parses(A, f, n) /\ Parse(f) = A[n].yielded
    BY <1>1, ParseAt
  <1>3. /\ A[0] = [yielded |-> <<>>, workitem |-> <<>>]
        /\ \A k \in 1..n : A[k] = ParseLine(A[k - 1], f[k])
    <2>1. \A k \in 0..n : A[k] = IF k = 0 THEN [yielded |-> <<>>, workitem |-> <<>>]
                                 ELSE ParseLine(A[k - 1], f[k])
      BY <1>2 DEF Parses
    <2>2. 0 \in 0..n /\ \A k \in 1..n : k \in 0..n /\ k # 0
      OBVIOUS
    <2> QED
      BY <2>1, <2>2
  <1> DEFINE Right(k) ==
        /\ ParserTypes(S, A[k])
        /\ (\A i \in DOMAIN f : f[i] # Padded) => ParserPlace(f, k, A[k])
             T == {k \in Nat : k \in 0..n => Right(k)}
  <1>4. 0 \in T
    <2>1. <<>> \in Seq(S) /\ <<>> \in Seq(Seq(S)) /\ Len(<<>>) = 0 /\ DOMAIN <<>> = {}
      BY EmptySeq
    <2>2. ParserTypes(S, A[0])
      BY <1>3, <2>1 DEF ParserTypes, SeparatorFree
    <2>3. <<>> = SubSeq(f, 1, 0) /\ \A j \in 1..0 : FALSE
      BY SubSeqEmpty
    <2>4. 1 \in 1..(0 + 1) /\ Starts(f, 1, 0)
      BY FirstStarts
    <2>5. ParserPlace(f, 0, A[0])
      BY <1>3, <2>1, <2>3, <2>4 DEF ParserPlace
    <2> QED
      BY <2>2, <2>5
  <1>5. ASSUME NEW k \in Nat, k \in T
        PROVE  k + 1 \in T
    <2> SUFFICES ASSUME k + 1 \in 0..n
                 PROVE  Right(k + 1)
      OBVIOUS
    <2>1. k \in 0..n /\ k + 1 \in 1..n /\ (k + 1) - 1 = k
      BY <1>1
    <2>2. A[k + 1] = ParseLine(A[k], f[k + 1])
      BY <1>3, <2>1
    <2>3. f[k + 1] \in S /\ k + 1 \in DOMAIN f /\ k + 1 \in 1..Len(f)
      BY <1>1, <2>1, ElementOfSeq
    <2>4. Right(k)
      BY <1>5, <2>1
    <2>5. ParserTypes(S, A[k + 1])
      BY <2>2, <2>3, <2>4, ParserTypesKept
    <2>6. (\A i \in DOMAIN f : f[i] # Padded) => ParserPlace(f, k + 1, A[k + 1])
      BY <2>2, <2>3, <2>4, ParserPlaceKept
    <2> QED
      BY <2>5, <2>6
  <1> HIDE DEF T, Right
  <1>6. Nat \subseteq T
    BY <1>4, <1>5, InductionOnSet
  <1>7. n \in 0..n
    OBVIOUS
  <1>8. Right(n)
    BY <1>6, <1>7 DEF T
  <1> QED
    BY <1>2, <1>8 DEF Right, ParserTypes, ParserPlace

-----------------------------------------------------------------------------
(* The server's reader: it stands at the start of a block.                 *)

Reads(f, i, next, nr, its) ==
    /\ IsSequence(f) /\ IsSequence(its)
    /\ nr = Len(its)
    /\ i \in 1..(Len(f) + 2)
    /\ \A k \in DOMAIN its : its[k] = Block(f, k) /\ its[k] # <<>>
    /\ next = Block(f, nr + 1)
    /\ Starts(f, i, nr + 1)

ReaderInv == Reads(file, ifs, next_item, nr_items, items)

LEMMA ReadsFirst ==
    ASSUME NEW f, IsSequence(f)
    PROVE  Reads(f, AfterItem(f, 1), ItemAt(f, 1), 0, <<>>)
  <1>1. PICK S : f \in Seq(S)
    BY DEF IsSequence
  <1>2. Len(f) \in Nat
    BY <1>1, LenProperties
  <1>3. PICK i, m \in Nat : i = 1 /\ m = 0 /\ i \in 1..(Len(f) + 2)
    BY <1>2
  <1>4. Starts(f, i, m)
    BY <1>1, <1>3, FirstStarts
  <1>5. /\ ItemAt(f, i) = Block(f, m + 1)
        /\ AfterItem(f, i) \in 1..(Len(f) + 2)
        /\ Starts(f, AfterItem(f, i), m + 1)
    BY ONLY <1>1, <1>3, <1>4, ItemIsBlock
  <1>6. IsSequence(<<>>) /\ Len(<<>>) = 0 /\ DOMAIN <<>> = {}
    BY EmptySeq DEF IsSequence
  <1> QED
    BY <1>3, <1>5, <1>6 DEF Reads

LEMMA ReadsNext ==
    ASSUME NEW f, NEW i, NEW next, NEW nr, NEW its, Reads(f, i, next, nr, its), next # <<>>
    PROVE  Reads(f, AfterItem(f, i), ItemAt(f, i), nr + 1, Append(its, next))
  <1>1. PICK S : f \in Seq(S)
    BY DEF Reads, IsSequence
  <1>2. /\ IsSequence(its) /\ nr = Len(its) /\ i \in 1..(Len(f) + 2)
        /\ \A k \in DOMAIN its : its[k] = Block(f, k) /\ its[k] # <<>>
        /\ next = Block(f, nr + 1)
        /\ Starts(f, i, nr + 1)
    BY DEF Reads
  <1>3. PICK all : all = Append(its, next)
    OBVIOUS
  <1>4. /\ IsSequence(all) /\ Len(its) \in Nat /\ DOMAIN its = 1..Len(its)
        /\ Len(all) = Len(its) + 1 /\ DOMAIN all = 1..(Len(its) + 1)
        /\ \A k \in DOMAIN its : all[k] = its[k]
        /\ all[Len(its) + 1] = next
    BY <1>2, <1>3, AppendRow
  <1>5. PICK m \in Nat : m = nr + 1
    BY <1>2, <1>4
  <1>6. Starts(f, i, m)
    BY <1>2, <1>5
  <1>7. /\ ItemAt(f, i) = Block(f, m + 1)
        /\ AfterItem(f, i) \in 1..(Len(f) + 2)
        /\ Starts(f, AfterItem(f, i), m + 1)
    BY ONLY <1>1, <1>2, <1>6, m \in Nat, ItemIsBlock
  <1>8. ASSUME NEW k \in DOMAIN all
        PROVE  all[k] = Block(f, k) /\ all[k] # <<>>
    <2>1. CASE k = Len(its) + 1
      BY <1>2, <1>4, <2>1
    <2>2. CASE k # Len(its) + 1
      <3>1. k \in DOMAIN its
        BY <1>4, <2>2
      <3> QED
        BY <1>2, <1>4, <3>1
    <2> QED
      BY <2>1, <2>2
  <1>9. Reads(f, AfterItem(f, i), ItemAt(f, i), m, all)
    BY <1>1, <1>2, <1>4, <1>5, <1>7, <1>8 DEF Reads, IsSequence
  <1> QED
    BY <1>3, <1>5, <1>9

\* When a reader has come to the end of a file that is made of blocks, none of
\* them empty, it has read these blocks.
LEMMA ReadsAll ==
    ASSUME NEW S, Sep \in S, NEW blocks \in Seq(Seq(S)),
           \A k \in DOMAIN blocks : SeparatorFree(blocks[k]) /\ blocks[k] # <<>>,
           NEW i, NEW nr, NEW its, Reads(Separated(blocks), i, <<>>, nr, its)
    PROVE  its = blocks
  <1>1. PICK f : f = Separated(blocks)
    OBVIOUS
  <1>2. /\ \A k \in DOMAIN blocks : Block(f, k) = blocks[k]
        /\ \A k \in Nat : k > Len(blocks) => Block(f, k) = <<>>
    BY <1>1, SeparatedBlocks
  <1>3. PICK T : its \in Seq(T)
    BY DEF Reads, IsSequence
  <1>4. /\ Len(its) \in Nat /\ DOMAIN its = 1..Len(its)
        /\ Len(blocks) \in Nat /\ DOMAIN blocks = 1..Len(blocks)
    BY <1>3, LenProperties
  <1>5. /\ \A k \in 1..Len(its) : its[k] = Block(f, k) /\ its[k] # <<>>
        /\ Block(f, Len(its) + 1) = <<>>
    BY <1>1, <1>4 DEF Reads
  <1>6. ~(Len(its) > Len(blocks))
    <2>1. Len(its) > Len(blocks) => Len(its) \in 1..Len(its)
      BY <1>4
    <2> QED
      BY <1>2, <1>4, <1>5, <2>1
  <1>7. ~(Len(its) < Len(blocks))
    <2>1. Len(its) < Len(blocks) => Len(its) + 1 \in DOMAIN blocks
      BY <1>4
    <2> QED
      BY <1>2, <1>5, <2>1
  <1>8. Len(its) = Len(blocks)
    <2>1. PICK a \in Nat, b \in Nat : a = Len(its) /\ b = Len(blocks)
      BY <1>4
    <2>2. ~(a > b) /\ ~(a < b)
      BY <1>6, <1>7, <2>1
    <2>3. a = b
      BY <2>2
    <2> QED
      BY <2>1, <2>3
  <1>9. \A k \in 1..Len(blocks) : its[k] = blocks[k]
    BY <1>2, <1>4, <1>5, <1>8
  <1>10. its = [k \in 1..Len(its) |-> its[k]] /\ blocks = [k \in 1..Len(blocks) |-> blocks[k]]
    BY <1>3
  <1> QED
    BY <1>8, <1>9, <1>10

-----------------------------------------------------------------------------
(* The files that create_workfile and filter_workfile make.                *)

ScriptLine == {Sep, Padded, Text, Blank}

LEMMA ScriptType ==
    ASSUME NEW s \in {<<>>} \cup Printed
    PROVE  s \in Seq(ScriptLine)
  <1>1. ASSUME NEW t \in Script
        PROVE  t \in Seq(ScriptLine)
    <2>1. t \in Seq(Line)
      BY UpToType, WorkfileAssumption DEF Script
    <2>2. Line \subseteq ScriptLine
      BY DEF Line, ScriptLine
    <2> QED
      BY <2>1, <2>2, SeqOfSubset
  <1>2. CASE s = <<>>
    BY <1>2, EmptySeq
  <1>3. CASE s \in Script \ {<<>>}
    BY <1>1, <1>3
  <1>4. CASE s \in {Append(t, Blank) : t \in Script}
    <2>1. PICK t \in Script : s = Append(t, Blank)
      BY <1>4
    <2>2. Blank \in ScriptLine
      BY DEF ScriptLine
    <2> QED
      BY <1>1, <2>1, <2>2, AppendProperties
  <1> QED
    BY <1>2, <1>3, <1>4 DEF Printed

\* The lines of a workfile of the given rows.
ContentLine(data) == ScriptLine \cup {<<"export", data[k]>> : k \in DOMAIN data}

LEMMA WrittenIs ==
    ASSUME NEW data, NEW k \in DOMAIN data, NEW s \in Seq(ScriptLine)
    PROVE  /\ Written(data[k], s) \in Seq(ContentLine(data))
           /\ Written(data[k], s) # <<>>
           /\ SeparatorFree(s) => SeparatorFree(Written(data[k], s))
  <1> DEFINE L == ContentLine(data)
  <1>1. PICK line : line = <<"export", data[k]>>
    OBVIOUS
  <1>2. line \in L /\ Blank \in L /\ ScriptLine \subseteq L
    BY <1>1 DEF ContentLine, ScriptLine
  <1>3. line # Sep /\ Blank # Sep
    <2>1. Len(<<"export", data[k]>>) = 2 /\ Len(<<"sep">>) = 1
      OBVIOUS
    <2>2. line # Sep
      BY <1>1, <2>1 DEF Sep
    <2> QED
      BY <2>2, LinesDiffer
  <1> HIDE DEF L
  <1>4. s \in Seq(L)
    BY <1>2, SeqOfSubset
  <1>5. PICK n \in Nat : n = Len(s) /\ DOMAIN s = 1..n
    BY <1>4, LenProperties
  <1>6. PICK head : head = IF data[k] = EmptyRow THEN <<>> ELSE <<line>>
    OBVIOUS
  <1>7. head = <<>> \/ head = <<line>>
    BY <1>6
  <1>8. PICK top : top = head \o <<Blank>>
    OBVIOUS
  <1>9. /\ top \in Seq(L) /\ Len(top) \in Nat \ {0}
        /\ \A j \in 1..Len(top) : top[j] # Sep
    <2>1. head \in Seq(L) /\ SeparatorFree(head) /\ Len(head) \in Nat
      <3>1. CASE head = <<>>
        BY <3>1, EmptySeq DEF SeparatorFree
      <3>2. CASE head = <<line>>
        <4>1. <<line>> \in Seq(L) /\ Len(<<line>>) = 1 /\ <<line>>[1] = line
          BY <1>2
        <4>2. DOMAIN <<line>> = 1..1
          BY <4>1, LenProperties
        <4>3. \A j \in 1..1 : j = 1
          OBVIOUS
        <4> QED
          BY <1>3, <3>2, <4>1, <4>2, <4>3 DEF SeparatorFree
      <3> QED
        BY <1>7, <3>1, <3>2
    <2>2. top = Append(head, Blank)
      BY <1>2, <1>8, <2>1, AppendIsConcat
    <2>3. top \in Seq(L) /\ SeparatorFree(top)
      BY <1>2, <1>3, <2>1, <2>2, AppendFree
    <2>4. Len(top) = Len(head) + 1
      BY <1>2, <2>1, <2>2, AppendProperties
    <2>5. DOMAIN top = 1..Len(top)
      BY <2>3, LenProperties
    <2> QED
      BY <2>1, <2>3, <2>4, <2>5 DEF SeparatorFree
  <1>10. PICK all : all = top \o s
    OBVIOUS
  <1>11. Written(data[k], s) = all
    BY <1>1, <1>6, <1>8, <1>10 DEF Written
  <1>12. /\ all \in Seq(L) /\ Len(all) = Len(top) + n
         /\ \A j \in 1..(Len(top) + n) : all[j] = IF j <= Len(top) THEN top[j] ELSE s[j - Len(top)]
    BY <1>4, <1>5, <1>9, <1>10, ConcatProperties
  <1>13. all # <<>>
    <2>1. Len(all) # 0
      BY <1>9, <1>12
    <2> QED
      BY <2>1, EmptySeq
  <1>14. ASSUME SeparatorFree(s), NEW j \in DOMAIN all
         PROVE  all[j] # Sep
    <2>1. j \in 1..(Len(top) + n)
      BY <1>12, <1>14, LenProperties
    <2>2. CASE j <= Len(top)
      <3>1. j \in 1..Len(top)
        BY <1>9, <2>1, <2>2
      <3> QED
        BY <1>9, <1>12, <2>1, <2>2, <3>1
    <2>3. CASE ~(j <= Len(top))
      <3>1. j - Len(top) \in DOMAIN s
        BY <1>5, <1>9, <2>1, <2>3
      <3>2. all[j] = s[j - Len(top)]
        BY <1>12, <2>1, <2>3
      <3> QED
        BY <1>14, <3>1, <3>2 DEF SeparatorFree
    <2> QED
      BY <2>2, <2>3
  <1> QED
    BY <1>11, <1>12, <1>13, <1>14 DEF SeparatorFree, L

LEMMA ContentType ==
    ASSUME NEW data, IsSequence(data), NEW s \in Seq(ScriptLine)
    PROVE  /\ [k \in DOMAIN data |-> Written(data[k], s)] \in Seq(Seq(ContentLine(data)))
           /\ Sep \in ContentLine(data)
           /\ IsSequence(Content(data, s))
  <1> DEFINE blocks == [k \in DOMAIN data |-> Written(data[k], s)]
             L == ContentLine(data)
  <1>1. PICK n \in Nat : DOMAIN data = 1..n
    BY LenProperties DEF IsSequence
  <1>2. \A k \in 1..n : Written(data[k], s) \in Seq(L)
    BY <1>1, WrittenIs
  <1>3. blocks \in [1..n -> Seq(L)]
    BY <1>1, <1>2
  <1>4. Sep \in L
    BY DEF ContentLine, ScriptLine
  <1>5. Content(data, s) = Separated(blocks)
    BY DEF Content
  <1> HIDE DEF blocks, L
  <1>6. blocks \in Seq(Seq(L))
    BY <1>3
  <1>7. Separated(blocks) \in Seq(L)
    BY <1>4, <1>6, SeparatedIs
  <1>8. IsSequence(Content(data, s))
    BY <1>5, <1>7 DEF IsSequence
  <1> QED
    BY <1>4, <1>6, <1>8 DEF blocks, L

\* Items that can be put into a file.
Items(sel) ==
    \E S : sel \in Seq(Seq(S)) /\ \A k \in DOMAIN sel : SeparatorFree(sel[k])

LEMMA ReprintedType ==
    ASSUME NEW sel, Items(sel)
    PROVE  \E S : /\ Sep \in S /\ Reprinted(sel) \in Seq(Seq(S))
                  /\ \A k \in DOMAIN Reprinted(sel) :
                        SeparatorFree(Reprinted(sel)[k]) /\ Reprinted(sel)[k] # <<>>
  <1>1. PICK S : sel \in Seq(Seq(S)) /\ \A k \in DOMAIN sel : SeparatorFree(sel[k])
    BY DEF Items
  <1>2. PICK T : T = S \cup {Sep, Blank}
    OBVIOUS
  <1>3. Sep \in T /\ Blank \in T /\ S \subseteq T
    BY <1>2
  <1>4. PICK n \in Nat : n = Len(sel) /\ DOMAIN sel = 1..n
    BY <1>1, LenProperties
  <1>5. ASSUME NEW k \in 1..n
        PROVE  /\ Append(sel[k], Blank) \in Seq(T) /\ SeparatorFree(Append(sel[k], Blank))
               /\ Append(sel[k], Blank) # <<>>
    <2>1. sel[k] \in Seq(S) /\ SeparatorFree(sel[k])
      BY <1>1, <1>4, ElementOfSeq
    <2>2. sel[k] \in Seq(T)
      BY <1>3, <2>1, SeqOfSubset
    <2> QED
      BY <1>3, <2>1, <2>2, AppendFree, AppendProperties, LinesDiffer
  <1>6. PICK r : r = Reprinted(sel)
    OBVIOUS
  <1>7. r = [k \in 1..n |-> Append(sel[k], Blank)]
    BY <1>4, <1>6 DEF Reprinted
  <1>8. r \in [1..n -> Seq(T)] /\ \A k \in 1..n : r[k] = Append(sel[k], Blank)
    BY <1>5, <1>7
  <1>9. r \in Seq(Seq(T)) /\ DOMAIN r = 1..n
    BY <1>8
  <1>10. \A k \in DOMAIN r : SeparatorFree(r[k]) /\ r[k] # <<>>
    BY <1>5, <1>8, <1>9
  <1> QED
    BY <1>3, <1>6, <1>9, <1>10

LEMMA SelectedItems ==
    ASSUME NEW f, IsSequence(f), NEW ids
    PROVE  Items(Selected(f, ids))
  <1>1. PICK S : f \in Seq(S)
    BY DEF IsSequence
  <1>2. PICK p : p = Parse(f)
    OBVIOUS
  <1>3. p \in Seq(Seq(S)) /\ \A k \in DOMAIN p : SeparatorFree(p[k])
    BY <1>1, <1>2, ParseItems
  <1> DEFINE sel == Picked(p, ids)
  <1>5. sel \in Seq(Seq(S))
    BY <1>3, PickedAt
  <1>6. {sel[k] : k \in DOMAIN sel} = {p[i] : i \in ids \cap DOMAIN p}
    BY <1>3, PickedElements
  <1> HIDE DEF sel
  <1>7. \A k \in DOMAIN sel : SeparatorFree(sel[k])
    <2> SUFFICES ASSUME NEW k \in DOMAIN sel
                 PROVE  SeparatorFree(sel[k])
      OBVIOUS
    <2>1. sel[k] \in {p[i] : i \in ids \cap DOMAIN p}
      BY <1>6
    <2>2. PICK i \in ids \cap DOMAIN p : sel[k] = p[i]
      BY <2>1
    <2> QED
      BY <1>3, <2>2
  <1>8. Items(sel)
    BY <1>5, <1>7 DEF Items
  <1> QED
    BY <1>2, <1>8 DEF Selected, sel

-----------------------------------------------------------------------------
(* The invariant.                                                          *)

MadeOfRows(f, data, s) == f = Content(data, s)

MadeOfItems(f, sel) == f = Separated(Reprinted(sel)) /\ Items(sel)

\* Where the file comes from, if it is not somebody's own.
Origin ==
    /\ script \in {<<>>} \cup Printed
    /\ reading = "served" /\ rows # <<>> /\ asked = <<>> => MadeOfRows(file, rows, script)
    /\ asked # <<>> => reading = "served" /\ MadeOfItems(file, asked)

WInv == DInv /\ ReaderInv /\ Origin

LEMMA OpenReads ==
    ASSUME NEW f, IsSequence(f), Open(f)
    PROVE  ReaderInv'
  <1>1. Reads(f, AfterItem(f, 1), ItemAt(f, 1), 0, <<>>)
    BY ReadsFirst
  <1> QED
    BY <1>1 DEF Open, ReaderInv

LEMMA WInvInit ==
    Init => WInv
  <1> SUFFICES ASSUME Init
               PROVE  WInv
    OBVIOUS
  <1>1. DInv
    BY SourcesInit DEF Init
  <1>2. ReaderInv
    <2>1. IsSequence(<<>>) /\ Len(<<>>) = 0 /\ DOMAIN <<>> = {}
      BY EmptySeq DEF IsSequence
    <2>2. Block(<<>>, 0 + 1) = <<>>
      BY <2>1, PickedNone DEF Block
    <2>3. Starts(<<>>, 1, 0 + 1)
      BY <2>1 DEF Starts
    <2>4. Reads(<<>>, 1, <<>>, 0, <<>>)
      BY <2>1, <2>2, <2>3 DEF Reads
    <2> QED
      BY <2>4 DEF Init, ReaderInv
  <1>3. Origin
    BY DEF Init, InitSources, Origin
  <1> QED
    BY <1>1, <1>2, <1>3 DEF WInv

\* The sources are gone.
LEMMA SourcesGone ==
    ASSUME DInv, reading' = "served",
           files' = <<>> /\ sources' = <<>> /\ pos' = <<>> /\ turn' = 1,
           array' \in Array, UNCHANGED rows
    PROVE  DInv'
  <1>1. <<>> \in Seq(File) /\ <<>> \in Seq(Source) /\ <<>> \in Seq(Nat)
        /\ Len(<<>>) = 0 /\ DOMAIN <<>> = {}
    BY EmptySeq
  <1>2. SourceTypes'
    BY <1>1 DEF DInv, SourceTypes, IsSequence
  <1>3. InStep'
    BY DEF InStep, ShortestDecides
  <1> QED
    BY <1>2, <1>3 DEF DInv

LEMMA MakeItemsKeeps ==
    ASSUME WInv, MakeItems
    PROVE  WInv'
  <1>1. SourceStep /\ UNCHANGED <<script, file, ifs, next_item, nr_items, items, asked>>
    BY DEF MakeItems, fileVars, parserVars
  <1>2. DInv'
    BY <1>1, SourcesKeepStep DEF WInv
  <1>3. ReaderInv'
    BY <1>1 DEF WInv, ReaderInv
  <1>4. reading # "served" /\ reading' # "served"
    BY <1>1 DEF SourceStep, OpenFile, OpenFileFails, OpenArray, OpenArrayFails, NextLine,
                Exhausted, Opened, Fails
  <1>5. Origin'
    BY <1>1, <1>4 DEF WInv, Origin
  <1> QED
    BY <1>2, <1>3, <1>5 DEF WInv

LEMMA CreateWorkfileKeeps ==
    ASSUME WInv, NEW s \in Printed, CreateWorkfile(s)
    PROVE  WInv'
  <1>1. [kind |-> "absent", ranges |-> <<>>] \in Array
    BY DEF Array
  <1>2. DInv'
    BY <1>1, SourcesGone DEF WInv, CreateWorkfile
  <1>3. IsSequence(rows)
    BY DEF WInv, DInv, SourceTypes
  <1>4. IsSequence(Content(rows, s))
    BY <1>3, ScriptType, ContentType
  <1>5. ReaderInv'
    BY <1>4, OpenReads DEF CreateWorkfile
  <1>6. asked = <<>>
    BY DEF WInv, Origin, CreateWorkfile
  <1>7. Origin'
    BY <1>6 DEF CreateWorkfile, Open, Origin, MadeOfRows
  <1> QED
    BY <1>2, <1>5, <1>7 DEF WInv

LEMMA OpenByHandKeeps ==
    ASSUME WInv, NEW f \in WorkfileByHand, OpenByHand(f)
    PROVE  WInv'
  <1>1. /\ reading = "open" /\ reading' = "served"
        /\ UNCHANGED <<files, array, sources, pos, turn, row, rows, script, asked>>
    BY DEF OpenByHand
  <1>2. rows = <<>> /\ asked = <<>>
    BY <1>1 DEF WInv, DInv, InStep, Origin
  <1>3. SourceTypes'
    BY <1>1 DEF WInv, DInv, SourceTypes, IsSequence
  <1>4. InStep'
    BY <1>1 DEF InStep, ShortestDecides
  <1>5. IsSequence(f)
    BY UpToType, WorkfileAssumption DEF WorkfileByHand, IsSequence
  <1>6. ReaderInv'
    BY <1>5, OpenReads DEF OpenByHand
  <1>7. Origin'
    BY <1>1, <1>2 DEF WInv, Origin
  <1> QED
    BY <1>3, <1>4, <1>6, <1>7 DEF WInv, DInv

LEMMA NextItemKeeps ==
    ASSUME WInv, NextItem
    PROVE  WInv'
  <1>1. /\ items' = Append(items, next_item) /\ nr_items' = nr_items + 1
        /\ next_item' = ItemAt(file, ifs) /\ ifs' = AfterItem(file, ifs)
        /\ next_item # <<>> /\ UNCHANGED <<sourceVars, script, file, asked>>
    BY DEF NextItem, HasNext
  <1>2. DInv'
    BY <1>1, SourcesStutter DEF WInv
  <1>3. Reads(file, AfterItem(file, ifs), ItemAt(file, ifs), nr_items + 1, Append(items, next_item))
    BY <1>1, ReadsNext DEF WInv, ReaderInv
  <1>4. ReaderInv'
    BY <1>1, <1>3 DEF ReaderInv
  <1>5. Origin'
    BY <1>1 DEF WInv, Origin, sourceVars
  <1> QED
    BY <1>2, <1>4, <1>5 DEF WInv

LEMMA ResumeKeeps ==
    ASSUME WInv, NEW ids, Resume(ids)
    PROVE  WInv'
  <1>1. /\ reading = "served" /\ UNCHANGED <<sourceVars, script>>
        /\ asked' = Selected(file, ids) /\ asked' # <<>> /\ Open(Filter(file, ids))
    BY DEF Resume
  <1>2. DInv'
    BY <1>1, SourcesStutter DEF WInv
  <1>3. PICK sel : sel = Selected(file, ids)
    OBVIOUS
  <1>4. Items(sel)
    BY <1>3, SelectedItems DEF WInv, ReaderInv, Reads
  <1>5. PICK f : f = Filter(file, ids) /\ f = Separated(Reprinted(sel))
    BY <1>3 DEF Filter
  <1>6. IsSequence(f)
    <2>1. PICK S : Sep \in S /\ Reprinted(sel) \in Seq(Seq(S))
      BY <1>4, ReprintedType
    <2>2. Separated(Reprinted(sel)) \in Seq(S)
      BY <2>1, SeparatedIs
    <2> QED
      BY <1>5, <2>2 DEF IsSequence
  <1>7. ReaderInv'
    BY <1>1, <1>5, <1>6, OpenReads
  <1>8. MadeOfItems(f, sel)
    BY <1>4, <1>5 DEF MadeOfItems
  <1>9. file' = f /\ asked' = sel
    BY <1>1, <1>3, <1>5 DEF Open
  <1>10. Origin'
    BY <1>1, <1>8, <1>9 DEF WInv, Origin, sourceVars
  <1> QED
    BY <1>2, <1>7, <1>10 DEF WInv

LEMMA WInvNext ==
    ASSUME WInv, [Next]_vars
    PROVE  WInv'
  <1>1. CASE MakeItems
    BY <1>1, MakeItemsKeeps
  <1>2. ASSUME NEW s \in Printed, CreateWorkfile(s)
        PROVE  WInv'
    BY <1>2, CreateWorkfileKeeps
  <1>3. ASSUME NEW f \in WorkfileByHand, OpenByHand(f)
        PROVE  WInv'
    BY <1>3, OpenByHandKeeps
  <1>4. CASE NextItem
    BY <1>4, NextItemKeeps
  <1>5. ASSUME NEW ids \in SUBSET (1..nr_items), Resume(ids)
        PROVE  WInv'
    BY <1>5, ResumeKeeps
  <1>6. CASE UNCHANGED vars
    <2>1. UNCHANGED <<sourceVars, script, file, ifs, next_item, nr_items, items, asked>>
      BY <1>6 DEF vars, fileVars, parserVars
    <2>2. DInv'
      BY <2>1, SourcesStutter DEF WInv
    <2> QED
      BY <2>1, <2>2 DEF WInv, ReaderInv, Origin, sourceVars
  <1> QED
    BY <1>1, <1>2, <1>3, <1>4, <1>5, <1>6 DEF Next

LEMMA WInvIsTypeOK ==
    WInv => TypeOK
  <1> SUFFICES ASSUME WInv
               PROVE  TypeOK
    OBVIOUS
  <1>1. /\ reading \in {"open", "rows", "end", "data_error", "exception", "served"}
        /\ Len(pos) = Len(sources) /\ turn \in 1..(Len(sources) + 1)
        /\ \A k \in DOMAIN rows : DOMAIN rows[k] = Name
    BY DEF WInv, DInv, SourceTypes
  <1>2. \A i \in DOMAIN pos : pos[i] \in 0..Len(sources[i].lines)
    <2>1. SourceTypes
      BY DEF WInv, DInv
    <2>2. /\ DOMAIN pos = 1..Len(sources)
          /\ \A i \in 1..Len(sources) : /\ Len(sources[i].lines) \in Nat
                                         /\ pos[i] \in Nat /\ pos[i] <= Len(sources[i].lines)
      BY <2>1, Sizes
    <2>3. \A i \in 1..Len(sources) : pos[i] \in 0..Len(sources[i].lines)
      BY <2>2
    <2> QED
      BY <2>2, <2>3
  <1>3. /\ nr_items = Len(items) /\ IsSequence(items) /\ ifs \in 1..(Len(file) + 2)
        /\ \A k \in DOMAIN items : items[k] # <<>>
    BY DEF WInv, ReaderInv, Reads
  <1>4. nr_items \in Nat
    BY <1>3, LenProperties DEF IsSequence
  <1>5. script \in {<<>>} \cup Printed
    BY DEF WInv, Origin
  <1> QED
    BY <1>1, <1>2, <1>3, <1>4, <1>5 DEF TypeOK

LEMMA WInvIsItemsAreBlocks ==
    WInv => ItemsAreBlocks
  BY DEF WInv, ReaderInv, Reads, ItemsAreBlocks

LEMMA WInvIsSameNumbers ==
    WInv => SameNumbers
  <1> SUFFICES ASSUME WInv, \A i \in DOMAIN file : file[i] # Padded,
                      NEW k \in DOMAIN items \cap DOMAIN Parse(file)
               PROVE  items[k] = Parse(file)[k]
    BY DEF SameNumbers
  <1>1. PICK S : file \in Seq(S)
    BY DEF WInv, ReaderInv, Reads, IsSequence
  <1>2. Parse(file)[k] = Block(file, k)
    BY <1>1, ParseItems
  <1> QED
    BY <1>2 DEF WInv, ReaderInv, Reads

LEMMA WInvIsRowsAreServed ==
    WInv => RowsAreServed
  <1> SUFFICES ASSUME WInv, reading = "served", rows # <<>>, asked = <<>>, ~HasNext,
                      \A n \in DOMAIN script : script[n] # Sep
               PROVE  items = [k \in DOMAIN rows |-> Written(rows[k], script)]
    BY DEF RowsAreServed
  <1> DEFINE blocks == [k \in DOMAIN rows |-> Written(rows[k], script)]
  <1>1. script \in Seq(ScriptLine) /\ SeparatorFree(script)
    BY ScriptType DEF WInv, Origin, SeparatorFree
  <1>2. IsSequence(rows)
    BY DEF WInv, DInv, SourceTypes
  <1>3. PICK L : L = ContentLine(rows)
    OBVIOUS
  <1>4. Sep \in L /\ blocks \in Seq(Seq(L))
    BY <1>1, <1>2, <1>3, ContentType
  <1>5. ASSUME NEW k \in DOMAIN rows
        PROVE  /\ SeparatorFree(Written(rows[k], script))
               /\ Written(rows[k], script) # <<>>
    BY <1>1, WrittenIs
  <1>6. \A k \in DOMAIN blocks : SeparatorFree(blocks[k]) /\ blocks[k] # <<>>
    BY <1>5
  <1>7. file = Separated(blocks)
    BY DEF WInv, Origin, MadeOfRows, Content
  <1>8. Reads(Separated(blocks), ifs, <<>>, nr_items, items)
    BY <1>7 DEF WInv, ReaderInv, HasNext
  <1> HIDE DEF blocks
  <1>9. items = blocks
    BY ONLY <1>4, <1>6, <1>8, ReadsAll
  <1> QED
    BY <1>9 DEF blocks

LEMMA WInvIsResumeServesSelected ==
    WInv => ResumeServesSelected
  <1> SUFFICES ASSUME WInv, asked # <<>>, ~HasNext
               PROVE  items = Reprinted(asked)
    BY DEF ResumeServesSelected
  <1>1. file = Separated(Reprinted(asked)) /\ Items(asked)
    BY DEF WInv, Origin, MadeOfItems
  <1>2. PICK blocks : blocks = Reprinted(asked)
    OBVIOUS
  <1>3. PICK S : /\ Sep \in S /\ blocks \in Seq(Seq(S))
                 /\ \A k \in DOMAIN blocks : SeparatorFree(blocks[k]) /\ blocks[k] # <<>>
    BY <1>1, <1>2, ReprintedType
  <1>4. Reads(Separated(blocks), ifs, <<>>, nr_items, items)
    BY <1>1, <1>2 DEF WInv, ReaderInv, HasNext
  <1>5. items = blocks
    BY ONLY <1>3, <1>4, ReadsAll
  <1> QED
    BY <1>2, <1>5

-----------------------------------------------------------------------------
(* The theorems.                                                           *)

\* The invariant holds of the data sources, the workfile and its readers.
THEOREM WorkfileInvariance == Spec => []WInv
  BY WInvInit, WInvNext, PTL DEF Spec

\* All variables have their types, the server's reader never leaves the file,
\* and no item that it returns is empty.
THEOREM TypesHold == Spec => []TypeOK
  BY WorkfileInvariance, WInvIsTypeOK, PTL

\* A row has the values of one line of every source: DataSource never lets
\* them get out of step, whatever cells their lines miss.
THEOREM RowsStayInStep == Spec => []RowsInStep
  <1>1. WInv => RowsInStep
    BY ZippedIsRow DEF WInv
  <1> QED
    BY <1>1, WorkfileInvariance, PTL

\* When DataSource ends, there are as many rows as its shortest source has
\* lines, and one at least.
THEOREM ShortestAlwaysDecides == Spec => []ShortestDecides
  <1>1. WInv => ShortestDecides
    BY DEF WInv, DInv, InStep
  <1> QED
    BY <1>1, WorkfileInvariance, PTL

\* The items that Work_parser returns are the blocks of the file, in order.
THEOREM ItemsAlwaysAreBlocks == Spec => []ItemsAreBlocks
  BY WorkfileInvariance, WInvIsItemsAreBlocks, PTL

\* Work_parser and WorkfileParser agree on the number of an item, in a file
\* without padded separators.
THEOREM NumbersAgree == Spec => []SameNumbers
  BY WorkfileInvariance, WInvIsSameNumbers, PTL

\* A job that wsub made of data serves an item for each row, with that row's
\* values and the whole script, unless the script has a separator.
THEOREM RowsAlwaysAreServed == Spec => []RowsAreServed
  BY WorkfileInvariance, WInvIsRowsAreServed, PTL

\* A resumed job serves the items that wresume selected, each as one item.
THEOREM SelectedAreServed == Spec => []ResumeServesSelected
  BY WorkfileInvariance, WInvIsResumeServesSelected, PTL

=============================================================================
