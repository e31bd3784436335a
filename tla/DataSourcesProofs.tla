-------------------------- MODULE DataSourcesProofs --------------------------
(***************************************************************************)
(* Proofs about DataSources: the steps of DataSource keep the sources in   *)
(* step, for any number of sources, ranges and lines.                      *)
(***************************************************************************)
EXTENDS DataSources, PickProofs

-----------------------------------------------------------------------------
(* FlattenSeq, which the community modules define by a recursive function. *)

\* The sequences of seqs up to each place, one after the other.
Flattens(F, seqs, n) ==
    F = [i \in 1..n |-> IF i = 1 THEN seqs[i] ELSE F[i - 1] \o seqs[i]]

\* The recursive function exists, shown for one more sequence at a time.
LEMMA FlattenExists ==
    ASSUME NEW seqs, NEW n \in Nat
    PROVE  \E F : Flattens(F, seqs, n)
  <1> DEFINE T == {k \in Nat : \E F : Flattens(F, seqs, k)}
  <1>1. 0 \in T
    <2> DEFINE F == [i \in 1..0 |-> seqs[i]]
    <2>1. F = [i \in 1..0 |-> IF i = 1 THEN seqs[i] ELSE F[i - 1] \o seqs[i]]
      OBVIOUS
    <2> QED
      BY <2>1 DEF Flattens
  <1>2. ASSUME NEW k \in Nat, k \in T
        PROVE  k + 1 \in T
    <2>1. PICK F : Flattens(F, seqs, k)
      BY <1>2
    <2> DEFINE last == IF k = 0 THEN seqs[1] ELSE F[k] \o seqs[k + 1]
               G == [i \in 1..(k + 1) |-> IF i = k + 1 THEN last ELSE F[i]]
    <2>2. F = [i \in 1..k |-> IF i = 1 THEN seqs[i] ELSE F[i - 1] \o seqs[i]]
      BY <2>1 DEF Flattens
    <2>3. \A i \in 1..k : F[i] = IF i = 1 THEN seqs[i] ELSE F[i - 1] \o seqs[i]
      BY <2>2
    <2> HIDE DEF last
    <2>4. ASSUME NEW i \in 1..(k + 1)
          PROVE  G[i] = IF i = 1 THEN seqs[i] ELSE G[i - 1] \o seqs[i]
      <3>1. CASE i = k + 1
        BY <3>1 DEF last
      <3>2. CASE i # k + 1
        <4>1. i \in 1..k /\ (i # 1 => i - 1 \in 1..k /\ i - 1 \in 1..(k + 1) /\ i - 1 # k + 1)
          BY <3>2
        <4> QED
          BY <2>3, <3>2, <4>1
      <3> QED
        BY <3>1, <3>2
    <2>5. G = [i \in 1..(k + 1) |-> IF i = 1 THEN seqs[i] ELSE G[i - 1] \o seqs[i]]
      BY <2>4
    <2> HIDE DEF G
    <2>6. Flattens(G, seqs, k + 1)
      BY <2>5 DEF Flattens
    <2>7. \E H : Flattens(H, seqs, k + 1)
      BY <2>6
    <2> QED
      BY <2>7
  <1> HIDE DEF T
  <1>3. Nat \subseteq T
    BY <1>1, <1>2, InductionOnSet
  <1> QED
    BY <1>3 DEF T

LEMMA FlattenAt ==
    ASSUME NEW seqs, Len(seqs) \in Nat, Len(seqs) # 0
    PROVE  \E F : Flattens(F, seqs, Len(seqs)) /\ FlattenSeq(seqs) = F[Len(seqs)]
  <1> DEFINE F == CHOOSE G : Flattens(G, seqs, Len(seqs))
  <1>1. Flattens(F, seqs, Len(seqs))
    BY FlattenExists
  <1>2. FlattenSeq(seqs) = F[Len(seqs)]
    BY DEF FlattenSeq, Flattens
  <1> QED
    BY <1>1, <1>2

\* What is flattened is a sequence of the same elements.
LEMMA FlattenType ==
    ASSUME NEW S, NEW seqs \in Seq(Seq(S))
    PROVE  FlattenSeq(seqs) \in Seq(S)
  <1>1. Len(seqs) \in Nat /\ DOMAIN seqs = 1..Len(seqs)
    BY LenProperties
  <1>2. CASE Len(seqs) = 0
    <2>1. seqs = <<>>
      BY <1>2, EmptySeq
    <2> QED
      BY <1>2, <2>1, EmptySeq DEF FlattenSeq
  <1>3. CASE Len(seqs) # 0
    <2>1. PICK F : Flattens(F, seqs, Len(seqs)) /\ FlattenSeq(seqs) = F[Len(seqs)]
      BY <1>1, <1>3, FlattenAt
    <2>2. \A i \in 1..Len(seqs) : F[i] = IF i = 1 THEN seqs[i] ELSE F[i - 1] \o seqs[i]
      BY <2>1 DEF Flattens
    <2> DEFINE T == {k \in Nat : k + 1 \in 1..Len(seqs) => F[k + 1] \in Seq(S)}
    <2>3. 0 \in T
      BY <1>1, <2>2
    <2>4. ASSUME NEW k \in Nat, k \in T
          PROVE  k + 1 \in T
      <3> SUFFICES ASSUME NEW j, j = (k + 1) + 1, j \in 1..Len(seqs)
                   PROVE  F[j] \in Seq(S)
        OBVIOUS
      <3>1. j - 1 \in 1..Len(seqs) /\ j # 1 /\ j - 1 = k + 1
        BY <1>1
      <3>2. F[j - 1] \in Seq(S)
        BY <2>4, <3>1
      <3>3. F[j] = F[j - 1] \o seqs[j]
        BY <2>2, <3>1
      <3>4. seqs[j] \in Seq(S)
        BY <1>1
      <3> QED
        BY <3>2, <3>3, <3>4, ConcatProperties
    <2> HIDE DEF T
    <2>5. Nat \subseteq T
      BY <2>3, <2>4, InductionOnSet
    <2>6. Len(seqs) - 1 \in T /\ (Len(seqs) - 1) + 1 = Len(seqs) /\ Len(seqs) \in 1..Len(seqs)
      BY <1>1, <1>3, <2>5
    <2>7. F[Len(seqs)] \in Seq(S)
      BY <2>6 DEF T
    <2> QED
      BY <2>1, <2>7
  <1> QED
    BY <1>2, <1>3

-----------------------------------------------------------------------------
(* The sources and their lines.                                            *)

Source ==
    [kind : {"table", "column", "range"}, header : UNION {Headers, {<<ArrayVar>>}}, lines : Seq(Nat)]

LEMMA UpToType ==
    ASSUME NEW n \in Nat, NEW S, NEW s \in UpTo(n, S)
    PROVE  s \in Seq(S)
  BY DEF UpTo

LEMMA SeqOfSubset ==
    ASSUME NEW A, NEW B, A \subseteq B, NEW s \in Seq(A)
    PROVE  s \in Seq(B)
  <1>1. Len(s) \in Nat /\ s \in [1..Len(s) -> A]
    BY LenProperties
  <1>2. s \in [1..Len(s) -> B]
    BY <1>1
  <1> QED
    BY <1>1, <1>2

LEMMA FileIsSource ==
    ASSUME NEW f \in File, f.kind \in {"table", "column"}
    PROVE  f \in Source
  <1>1. CASE f \in Table
    <2>1. f.lines \in Seq(LineCells)
      BY <1>1, UpToType, DataSourcesAssumption DEF Table
    <2>2. f.lines \in Seq(Nat)
      BY <2>1, SeqOfSubset, DataSourcesAssumption
    <2> QED
      BY <1>1, <2>2 DEF Table, Source
  <1>2. CASE f \in Column
    <2>1. f.lines \in Seq({1})
      BY <1>2, UpToType, DataSourcesAssumption DEF Column
    <2>2. f.lines \in Seq(Nat)
      BY <2>1, SeqOfSubset
    <2> QED
      BY <1>2, <2>2 DEF Column, Source
  <1> QED
    BY <1>1, <1>2 DEF File, NoFile

LEMMA RangeIsSource ==
    ASSUME NEW a \in Array, a.kind = "ranges"
    PROVE  RangeSource(a.ranges) \in Source
  <1> DEFINE seqs == [k \in DOMAIN a.ranges |-> RangeIds(a.ranges[k])]
  <1>1. a.ranges \in Seq(ArrayRange)
    BY UpToType, DataSourcesAssumption DEF Array
  <1>2. ASSUME NEW r \in ArrayRange
        PROVE  RangeIds(r) \in Seq(Nat)
    <2>1. r.from \in Nat /\ r.to \in Nat
      BY DataSourcesAssumption DEF ArrayRange
    <2>2. PICK n \in Nat : 1..(r.to + 1 - r.from) = 1..n
      <3>1. CASE r.to + 1 - r.from \in Nat
        BY <3>1
      <3>2. CASE r.to + 1 - r.from \notin Nat
        <4>1. 1..(r.to + 1 - r.from) = 1..0
          BY <2>1, <3>2
        <4> QED
          BY <4>1
      <3> QED
        BY <3>1, <3>2
    <2>3. \A k \in 1..(r.to + 1 - r.from) : r.from + k - 1 \in Nat
      BY <2>1
    <2>4. RangeIds(r) \in [1..n -> Nat]
      BY <2>2, <2>3 DEF RangeIds
    <2> QED
      BY <2>4
  <1>3. seqs \in Seq(Seq(Nat))
    <2>1. DOMAIN a.ranges = 1..Len(a.ranges) /\ Len(a.ranges) \in Nat
      BY <1>1, LenProperties
    <2>2. \A k \in 1..Len(a.ranges) : a.ranges[k] \in ArrayRange
      BY <1>1
    <2>3. seqs \in [1..Len(a.ranges) -> Seq(Nat)]
      BY <1>2, <2>1, <2>2
    <2> QED
      BY <2>1, <2>3
  <1>4. FlattenSeq(seqs) \in Seq(Nat)
    BY <1>3, FlattenType
  <1> QED
    BY <1>4 DEF RangeSource, Source

-----------------------------------------------------------------------------
(* The invariant of the sources.                                           *)

IsSequence(s) == \E S : s \in Seq(S)

SourceTypes ==
    /\ files \in Seq(File) /\ array \in Array
    /\ reading \in {"open", "rows", "end", "data_error", "exception", "served"}
    /\ sources \in Seq(Source)
    /\ pos \in Seq(Nat) /\ Len(pos) = Len(sources)
    /\ \A i \in DOMAIN pos : pos[i] <= Len(sources[i].lines)
    /\ turn \in 1..(Len(sources) + 1)
    /\ IsSequence(rows) /\ \A k \in DOMAIN rows : DOMAIN rows[k] = Name

\* Row k of the first m sources: for each name the value in line k of the last
\* of them that has one.
Zipped(k, m) ==
    [n \in Name |->
        LET with == {i \in 1..m : LineOf(i, k)[n] # None}
        IN IF with = {} THEN None
           ELSE LineOf(CHOOSE i \in with : \A j \in with : j <= i, k)[n]]

\* Every source before the one whose turn it is has given a line more than there
\* are rows, every other one as many; and the row has their lines.
InStep ==
    /\ reading = "open" =>
          /\ turn = 1 /\ rows = <<>> /\ row = EmptyRow
          /\ \A i \in DOMAIN pos : pos[i] = 0
    /\ reading = "rows" =>
          /\ turn \in 1..Len(sources)
          /\ \A i \in DOMAIN pos : pos[i] = Len(rows) + IF i < turn THEN 1 ELSE 0
          /\ row = Zipped(Len(rows) + 1, turn - 1)
    /\ reading \in {"rows", "end"} =>
          \A k \in DOMAIN rows : rows[k] = Zipped(k, Len(sources))
    /\ ShortestDecides

DInv == SourceTypes /\ InStep

\* One source more.
LEMMA ZippedMore ==
    ASSUME NEW k, NEW m \in Nat \ {0}
    PROVE  Over(Zipped(k, m - 1), LineOf(m, k)) = Zipped(k, m)
  <1> DEFINE old == Zipped(k, m - 1)
             new == LineOf(m, k)
             With(n, j) == {i \in 1..j : LineOf(i, k)[n] # None}
  <1>1. ASSUME NEW n \in Name
        PROVE  (IF new[n] # None THEN new[n] ELSE old[n]) = Zipped(k, m)[n]
    <2>1. CASE new[n] # None
      <3>1. m \in With(n, m) /\ \A j \in With(n, m) : j <= m /\ j \in Nat
        BY <2>1
      <3>2. \A i \in With(n, m) : (\A j \in With(n, m) : j <= i) => i = m
        BY <3>1
      <3>3. (CHOOSE i \in With(n, m) : \A j \in With(n, m) : j <= i) = m
        BY <3>1, <3>2
      <3> HIDE DEF With
      <3>4. Zipped(k, m)[n] = IF With(n, m) = {} THEN None
                              ELSE LineOf(CHOOSE i \in With(n, m) : \A j \in With(n, m) : j <= i, k)[n]
        BY DEF Zipped, With
      <3> QED
        BY <2>1, <3>1, <3>3, <3>4
    <2>2. CASE new[n] = None
      <3>1. With(n, m) = With(n, m - 1)
        BY <2>2
      <3> HIDE DEF With
      <3>2. Zipped(k, m)[n] = IF With(n, m) = {} THEN None
                              ELSE LineOf(CHOOSE i \in With(n, m) : \A j \in With(n, m) : j <= i, k)[n]
        BY DEF Zipped, With
      <3>3. old[n] = IF With(n, m - 1) = {} THEN None
                     ELSE LineOf(CHOOSE i \in With(n, m - 1) : \A j \in With(n, m - 1) : j <= i, k)[n]
        BY DEF Zipped, With
      <3> QED
        BY <2>2, <3>1, <3>2, <3>3
    <2> QED
      BY <2>1, <2>2
  <1>2. Zipped(k, m) = [n \in Name |-> Zipped(k, m)[n]]
    BY DEF Zipped
  <1>3. Over(old, new) = [n \in Name |-> IF new[n] # None THEN new[n] ELSE old[n]]
    BY DEF Over
  <1> QED
    BY <1>1, <1>2, <1>3

LEMMA ZippedNone ==
    ASSUME NEW k
    PROVE  Zipped(k, 0) = EmptyRow
  BY DEF Zipped, EmptyRow

\* The rows with one more.
LEMMA AppendRow ==
    ASSUME NEW s, IsSequence(s), NEW x
    PROVE  /\ IsSequence(Append(s, x))
           /\ Len(s) \in Nat /\ DOMAIN s = 1..Len(s)
           /\ Len(Append(s, x)) = Len(s) + 1
           /\ DOMAIN Append(s, x) = 1..(Len(s) + 1)
           /\ \A k \in DOMAIN s : Append(s, x)[k] = s[k]
           /\ Append(s, x)[Len(s) + 1] = x
  <1>1. PICK S : s \in Seq(S)
    BY DEF IsSequence
  <1> DEFINE T == S \cup {x}
  <1>2. s \in Seq(T) /\ x \in T
    BY <1>1, SeqOfSubset
  <1> HIDE DEF T
  <1>3. Append(s, x) \in Seq(T)
    BY <1>2, AppendProperties
  <1>4. Len(s) \in Nat /\ DOMAIN s = 1..Len(s)
    BY <1>2, LenProperties
  <1>5. Len(Append(s, x)) = Len(s) + 1 /\ Append(s, x)[Len(s) + 1] = x
        /\ \A k \in 1..Len(s) : Append(s, x)[k] = s[k]
    BY <1>2, AppendProperties
  <1>6. DOMAIN Append(s, x) = 1..Len(Append(s, x))
    BY <1>3, LenProperties
  <1> QED
    BY <1>3, <1>4, <1>5, <1>6 DEF IsSequence

-----------------------------------------------------------------------------
(* The steps of DataSource.                                                *)

LEMMA SourcesInit ==
    ASSUME InitSources, files \in UpTo(MaxFiles, File), array \in Array
    PROVE  DInv
  <1>1. files \in Seq(File)
    BY UpToType, DataSourcesAssumption
  <1>2. <<>> \in Seq(Source) /\ <<>> \in Seq(Nat) /\ Len(<<>>) = 0 /\ DOMAIN <<>> = {}
    BY EmptySeq
  <1>3. SourceTypes
    BY <1>1, <1>2 DEF InitSources, SourceTypes, IsSequence
  <1>4. InStep
    BY <1>2 DEF InitSources, InStep, ShortestDecides
  <1> QED
    BY <1>3, <1>4 DEF DInv

\* The sources have places that are numbers.
LEMMA Sizes ==
    ASSUME SourceTypes
    PROVE  /\ Len(sources) \in Nat /\ DOMAIN sources = 1..Len(sources)
           /\ DOMAIN pos = 1..Len(sources)
           /\ \A i \in 1..Len(sources) : /\ sources[i].lines \in Seq(Nat)
                                         /\ Len(sources[i].lines) \in Nat
                                         /\ pos[i] \in Nat /\ pos[i] <= Len(sources[i].lines)
           /\ Len(rows) \in Nat /\ DOMAIN rows = 1..Len(rows)
  <1>1. /\ Len(sources) \in Nat /\ DOMAIN sources = 1..Len(sources)
        /\ DOMAIN pos = 1..Len(sources)
    BY LenProperties DEF SourceTypes
  <1>2. \A i \in 1..Len(sources) : sources[i] \in Source /\ pos[i] \in Nat
    BY <1>1 DEF SourceTypes
  <1>3. \A i \in 1..Len(sources) : sources[i].lines \in Seq(Nat)
    BY <1>2 DEF Source
  <1>4. \A i \in 1..Len(sources) : Len(sources[i].lines) \in Nat
    BY <1>3, LenProperties
  <1>5. Len(rows) \in Nat /\ DOMAIN rows = 1..Len(rows)
    BY AppendRow DEF SourceTypes
  <1> QED
    BY <1>1, <1>2, <1>3, <1>4, <1>5 DEF SourceTypes

LEMMA OpenedKeeps ==
    ASSUME DInv, reading = "open", NEW s \in Source, Opened(s), reading' \in {"open", "rows"}
    PROVE  DInv'
  <1>1. /\ sources' = Append(sources, s) /\ pos' = Append(pos, 0)
        /\ UNCHANGED <<files, array, turn, row, rows>>
    BY DEF Opened
  <1>2. /\ sources \in Seq(Source) /\ pos \in Seq(Nat) /\ Len(pos) = Len(sources)
        /\ Len(sources) \in Nat
        /\ turn = 1 /\ rows = <<>> /\ row = EmptyRow
        /\ \A i \in DOMAIN pos : pos[i] = 0
    BY Sizes DEF DInv, SourceTypes, InStep
  <1>3. /\ sources' \in Seq(Source) /\ Len(sources') = Len(sources) + 1
    BY <1>1, <1>2, AppendProperties
  <1>4. /\ pos' \in Seq(Nat) /\ Len(pos') = Len(sources) + 1
        /\ \A i \in 1..Len(sources) : pos'[i] = pos[i] /\ i \in DOMAIN pos
        /\ pos'[Len(sources) + 1] = 0
    BY <1>1, <1>2, AppendProperties, LenProperties
  <1>5. DOMAIN pos' = 1..(Len(sources) + 1) /\ DOMAIN sources' = 1..(Len(sources) + 1)
    BY <1>3, <1>4, LenProperties
  <1>6. \A i \in DOMAIN pos' : pos'[i] = 0
    BY <1>2, <1>4, <1>5
  <1>7. \A i \in DOMAIN sources' : sources'[i] \in Source
    BY <1>3
  <1>8. \A i \in DOMAIN sources' : sources'[i].lines \in Seq(Nat)
    BY <1>7 DEF Source
  <1>9. \A i \in DOMAIN sources' : Len(sources'[i].lines) \in Nat
    BY <1>8, LenProperties
  <1>10. \A i \in DOMAIN pos' : pos'[i] <= Len(sources'[i].lines)
    BY <1>5, <1>6, <1>9
  <1>11. SourceTypes'
    BY <1>1, <1>2, <1>3, <1>4, <1>10 DEF DInv, SourceTypes, IsSequence
  <1>12. Len(<<>>) = 0 /\ DOMAIN <<>> = {}
    BY EmptySeq
  <1>13. InStep'
    <2>1. rows' = <<>> /\ turn' = 1 /\ row' = EmptyRow
      BY <1>1, <1>2
    <2>2. reading' = "rows" => turn' \in 1..Len(sources')
      BY <1>2, <1>3, <2>1
    <2>3. \A i \in DOMAIN pos' : ~(i < turn') /\ pos'[i] = 0
      BY <1>2, <1>5, <1>6, <2>1
    <2>4. row' = Zipped(Len(rows) + 1, turn - 1)'
      BY <2>1 DEF Zipped, EmptyRow
    <2>5. ShortestDecides'
      BY DEF ShortestDecides
    <2> QED
      BY <1>12, <2>1, <2>2, <2>3, <2>4, <2>5 DEF InStep
  <1> QED
    BY <1>11, <1>13 DEF DInv

LEMMA ErrorKeeps ==
    ASSUME DInv, NEW how \in {"data_error", "exception"}, Fails(how)
    PROVE  DInv'
  BY DEF DInv, SourceTypes, IsSequence, InStep, ShortestDecides, Fails

LEMMA OpenStepsKeep ==
    ASSUME DInv, OpenFile \/ OpenFileFails \/ OpenArray \/ OpenArrayFails
    PROVE  DInv'
  <1>1. CASE OpenFile
    <2>1. NextFile \in File
      <3>1. Len(sources) + 1 \in 1..Len(files) /\ files \in Seq(File)
        BY <1>1, Sizes, LenProperties DEF OpenFile, DInv, SourceTypes
      <3> QED
        BY <3>1 DEF NextFile
    <2>2. NextFile \in Source
      BY <1>1, <2>1, FileIsSource DEF OpenFile
    <2> QED
      BY <1>1, <2>2, OpenedKeeps DEF OpenFile
  <1>2. CASE OpenArray /\ array.kind = "ranges"
    <2>1. RangeSource(array.ranges) \in Source
      BY <1>2, RangeIsSource DEF DInv, SourceTypes
    <2> QED
      BY <1>2, <2>1, OpenedKeeps DEF OpenArray
  <1>3. CASE OpenArray /\ array.kind # "ranges"
    <2>1. /\ reading = "open" /\ reading' = "rows" /\ sources # <<>>
          /\ UNCHANGED <<files, array, sources, pos, turn, row, rows>>
      BY <1>3 DEF OpenArray
    <2>2. Len(sources) # 0 /\ Len(sources) \in Nat /\ DOMAIN pos = 1..Len(sources)
      BY <2>1, EmptySeq, Sizes DEF DInv, SourceTypes
    <2>3. turn = 1 /\ rows = <<>> /\ row = EmptyRow /\ \A i \in DOMAIN pos : pos[i] = 0
      BY <2>1 DEF DInv, InStep
    <2>4. SourceTypes'
      BY <2>1 DEF DInv, SourceTypes, IsSequence
    <2>5. Len(<<>>) = 0 /\ DOMAIN <<>> = {}
      BY EmptySeq
    <2>6. row' = Zipped(Len(rows) + 1, turn - 1)'
      BY <2>1, <2>3 DEF Zipped, EmptyRow
    <2>7. \A i \in DOMAIN pos' : ~(i < turn') /\ pos'[i] = 0
      BY <2>1, <2>2, <2>3
    <2>8. turn' \in 1..Len(sources') /\ Len(rows') = 0 /\ DOMAIN rows' = {}
      BY <2>1, <2>2, <2>3, <2>5
    <2>9. InStep'
      BY <2>1, <2>6, <2>7, <2>8 DEF InStep, ShortestDecides
    <2> QED
      BY <2>4, <2>9 DEF DInv
  <1>4. CASE OpenFileFails \/ OpenArrayFails
    BY <1>4, ErrorKeeps DEF OpenFileFails, OpenArrayFails
  <1> QED
    BY <1>1, <1>2, <1>3, <1>4

LEMMA ZippedKept ==
    ASSUME UNCHANGED sources, NEW k, NEW m
    PROVE  Zipped(k, m)' = Zipped(k, m)
  BY DEF Zipped, LineOf

\* The line of one source more, and with that of the last source a row more.
LEMMA NextLineKeeps ==
    ASSUME DInv, NextLine
    PROVE  DInv'
  <1>1. /\ reading = "rows" /\ UNCHANGED <<files, array, reading, sources>>
        /\ pos[turn] < Len(sources[turn].lines)
        /\ pos' = [pos EXCEPT ![turn] = @ + 1]
    BY DEF NextLine, Left
  <1>2. PICK t, n, m : t = turn /\ n = Len(rows) /\ m = Len(sources)
    OBVIOUS
  <1>3. /\ m \in Nat /\ n \in Nat /\ DOMAIN sources = 1..m /\ DOMAIN pos = 1..m
        /\ DOMAIN rows = 1..n /\ t \in 1..m
        /\ \A i \in 1..m : /\ pos[i] = n + IF i < t THEN 1 ELSE 0
                           /\ pos[i] <= Len(sources[i].lines)
                           /\ Len(sources[i].lines) \in Nat
    BY <1>1, <1>2, Sizes DEF DInv, InStep, SourceTypes
  <1>4. row = Zipped(n + 1, t - 1) /\ \A k \in 1..n : rows[k] = Zipped(k, m)
    BY <1>1, <1>2, <1>3 DEF DInv, InStep
  <1>5. Over(row, LineOf(turn, pos[turn] + 1)) = Zipped(n + 1, t)
    <2>1. pos[turn] + 1 = n + 1
      BY <1>2, <1>3
    <2>2. t \in Nat \ {0}
      BY <1>3
    <2> QED
      BY <1>2, <1>4, <2>1, <2>2, ZippedMore
  <1>6. /\ pos' \in Seq(Nat) /\ Len(pos') = m /\ DOMAIN pos' = 1..m
        /\ \A i \in 1..m : pos'[i] = IF i = t THEN n + 1 ELSE pos[i]
    <2>1. pos \in Seq(Nat) /\ Len(pos) = m
      BY <1>2 DEF DInv, SourceTypes
    <2>2. pos[t] + 1 = n + 1 /\ n + 1 \in Nat
      BY <1>3
    <2> QED
      BY <1>1, <1>2, <1>3, <2>1, <2>2, ExceptSeq, LenProperties
  <1>7. \A i \in 1..m : pos'[i] <= Len(sources'[i].lines)
    BY <1>1, <1>2, <1>3, <1>6
  <1>8. CASE t < m
    <2>1. turn' = t + 1 /\ row' = Zipped(n + 1, t) /\ rows' = rows
      BY <1>2, <1>5, <1>8 DEF NextLine
    <2>2. SourceTypes'
      BY <1>1, <1>2, <1>3, <1>6, <1>7, <1>8, <2>1 DEF DInv, SourceTypes, IsSequence
    <2>3. \A i \in 1..m : pos'[i] = n + IF i < t + 1 THEN 1 ELSE 0
      BY <1>3, <1>6
    <2>4. row' = Zipped(Len(rows) + 1, turn - 1)'
      <3>1. (t + 1) - 1 = t
        BY <1>3
      <3>2. Zipped(n + 1, t)' = Zipped(n + 1, t)
        BY <1>1, ZippedKept
      <3> QED
        BY <1>2, <2>1, <3>1, <3>2
    <2>5. \A k \in 1..n : rows[k] = Zipped(k, m)'
      BY <1>1, <1>4, ZippedKept
    <2>6. InStep'
      BY <1>1, <1>2, <1>3, <1>6, <1>8, <2>1, <2>3, <2>4, <2>5 DEF InStep, ShortestDecides
    <2> QED
      BY <2>2, <2>6 DEF DInv
  <1>9. CASE t = m
    <2>1. turn' = 1 /\ row' = EmptyRow /\ rows' = Append(rows, Zipped(n + 1, m))
      BY <1>2, <1>3, <1>5, <1>9 DEF NextLine
    <2>2. /\ IsSequence(rows') /\ Len(rows') = n + 1 /\ DOMAIN rows' = 1..(n + 1)
          /\ \A k \in 1..n : rows'[k] = rows[k]
          /\ rows'[n + 1] = Zipped(n + 1, m)
      BY <1>2, <1>3, <2>1, AppendRow DEF DInv, SourceTypes
    <2>3. \A k \in 1..(n + 1) : k \in 1..n \/ k = n + 1
      BY <1>3
    <2>4. \A k \in 1..(n + 1) : rows'[k] = Zipped(k, m)
      BY <1>4, <2>2, <2>3
    <2>5. \A k \in 1..(n + 1) : DOMAIN rows'[k] = Name
      BY <2>4 DEF Zipped
    <2>6. SourceTypes'
      BY <1>1, <1>2, <1>3, <1>6, <1>7, <2>1, <2>2, <2>5 DEF DInv, SourceTypes
    <2>7. \A i \in 1..m : pos'[i] = (n + 1) + IF i < 1 THEN 1 ELSE 0
      BY <1>3, <1>6, <1>9
    <2>8. row' = Zipped(Len(rows) + 1, turn - 1)'
      BY <2>1 DEF Zipped, EmptyRow
    <2>9. \A k \in 1..(n + 1) : rows'[k] = Zipped(k, m)'
      BY <1>1, <2>4, ZippedKept
    <2>10. \A i \in DOMAIN pos' : pos'[i] = Len(rows') + IF i < turn' THEN 1 ELSE 0
      BY <1>6, <2>1, <2>2, <2>7
    <2>11. \A k \in DOMAIN rows' : rows'[k] = Zipped(k, Len(sources))'
      BY <1>1, <1>2, <2>2, <2>9
    <2>12. reading' = "rows" /\ turn' \in 1..Len(sources')
      BY <1>1, <1>2, <1>3, <2>1
    <2>13. InStep'
      BY <2>8, <2>10, <2>11, <2>12 DEF InStep, ShortestDecides
    <2> QED
      BY <2>6, <2>13 DEF DInv
  <1> QED
    BY <1>3, <1>8, <1>9

\* The source that ends the iteration is the shortest, as all others gave as
\* many lines as there are rows, or one more.
LEMMA ExhaustedKeeps ==
    ASSUME DInv, Exhausted
    PROVE  DInv'
  <1>1. /\ reading = "rows" /\ ~(pos[turn] < Len(sources[turn].lines))
        /\ reading' = (IF rows = <<>> THEN "exception" ELSE "end")
        /\ UNCHANGED <<files, array, sources, pos, turn, row, rows>>
    BY DEF Exhausted, Left, Fails
  <1>2. SourceTypes'
    BY <1>1 DEF DInv, SourceTypes, IsSequence
  <1>3. /\ turn \in 1..Len(sources) /\ DOMAIN pos = 1..Len(sources) /\ Len(rows) \in Nat
        /\ DOMAIN sources = 1..Len(sources) /\ Len(sources) \in Nat
        /\ \A i \in 1..Len(sources) : /\ pos[i] = Len(rows) + IF i < turn THEN 1 ELSE 0
                                      /\ pos[i] <= Len(sources[i].lines)
                                      /\ Len(sources[i].lines) \in Nat
    BY <1>1, Sizes DEF DInv, InStep
  <1>4. Len(rows) = Len(sources[turn].lines)
    BY <1>1, <1>3
  <1>5. \A i \in DOMAIN sources : Len(rows) <= Len(sources[i].lines)
    BY <1>3
  <1>6. ShortestDecides'
    BY <1>1, <1>3, <1>4, <1>5 DEF ShortestDecides
  <1>7. \A k \in DOMAIN rows : rows[k] = Zipped(k, Len(sources))
    BY <1>1 DEF DInv, InStep
  <1>8. \A k \in DOMAIN rows' : rows'[k] = Zipped(k, Len(sources))'
    <2>1. PICK m : m = Len(sources)
      OBVIOUS
    <2>2. \A k \in DOMAIN rows : rows[k] = Zipped(k, m)'
      BY <1>1, <1>7, <2>1, ZippedKept
    <2> QED
      BY <1>1, <2>1, <2>2
  <1>9. InStep'
    BY <1>1, <1>6, <1>8 DEF InStep
  <1> QED
    BY <1>2, <1>9 DEF DInv

\* Every step of DataSource keeps the sources in step.
THEOREM SourcesKeepStep ==
    ASSUME DInv, SourceStep
    PROVE  DInv'
  BY OpenStepsKeep, NextLineKeeps, ExhaustedKeeps DEF SourceStep

LEMMA SourcesStutter ==
    ASSUME DInv, UNCHANGED sourceVars
    PROVE  DInv'
  <1>1. /\ UNCHANGED <<files, array, reading, sources, pos, turn, row, rows>>
    BY DEF sourceVars
  <1>2. SourceTypes'
    BY <1>1 DEF DInv, SourceTypes, IsSequence
  <1>3. ShortestDecides'
    BY <1>1 DEF DInv, InStep, ShortestDecides
  <1>4. Zipped(Len(rows) + 1, turn - 1)' = Zipped(Len(rows) + 1, turn - 1)
    BY <1>1 DEF Zipped, LineOf
  <1>5. ASSUME NEW k
        PROVE  Zipped(k, Len(sources))' = Zipped(k, Len(sources))
    BY <1>1 DEF Zipped, LineOf
  <1>6. InStep'
    BY <1>1, <1>3, <1>4, <1>5 DEF DInv, InStep
  <1> QED
    BY <1>2, <1>6 DEF DInv

LEMMA ZippedIsRow ==
    DInv => RowsInStep
  <1> SUFFICES ASSUME DInv, NEW k
               PROVE  ZippedRow(k) = Zipped(k, Len(sources))
    BY DEF DInv, InStep, RowsInStep
  <1>1. DOMAIN sources = 1..Len(sources)
    BY Sizes DEF DInv
  <1> QED
    BY <1>1 DEF ZippedRow, Zipped

=============================================================================
