----------------------------- MODULE DataSources -----------------------------
(***************************************************************************)
(* The rows that create_workfile makes items of                            *)
(* (src/scripts/worker/data_sources.py).  The data files of --data and the *)
(* request of --array are opened in order; then each row asks the sources, *)
(* in order, for their next line, until one of them has none left.         *)
(*                                                                         *)
(* The value of a cell is its place: <<source, line, column>>.  A line of  *)
(* a file is the number of its cells, which need not be that of the        *)
(* header; a line of an array request is an array id.                      *)
(***************************************************************************)
EXTENDS Naturals, Sequences, SequencesExt

CONSTANTS
    Headers,    \* the headers a table can have: sequences of names
    LineCells,  \* the numbers of cells a line of a table can have
    Ids,        \* the numbers in an array request
    MaxRows,    \* bound: the lines of a file
    MaxFiles,   \* bound: the data files
    MaxRanges   \* bound: the ranges of an array request

ASSUME DataSourcesAssumption ==
    /\ \A h \in Headers : h \in Seq(STRING) /\ h # <<>>
    /\ LineCells \subseteq Nat
    /\ Ids \subseteq Nat
    /\ MaxRows \in Nat /\ MaxFiles \in Nat /\ MaxRanges \in Nat

ArrayVar == "array_id"

Name == {ArrayVar} \cup UNION {{h[c] : c \in DOMAIN h} : h \in Headers}

UpTo(n, S) == UNION {[1..k -> S] : k \in 0..n}

\* What a name of --data stands for: a table with a delimiter that the sniffer
\* finds; a single column with a valid name; nothing; or a file that is neither.
Table == [kind : {"table"}, header : Headers, lines : UpTo(MaxRows, LineCells)]

Column == [kind : {"column"}, header : {h \in Headers : Len(h) = 1}, lines : UpTo(MaxRows, {1})]

NoFile == [kind : {"missing", "neither"}, header : {<<>>}, lines : {<<>>}]

File == Table \cup Column \cup NoFile

\* What --array can be: ranges, one number being a range of one; not a valid
\* expression; or not given.
ArrayRange == [from : Ids, to : Ids]

Array == [kind : {"ranges"}, ranges : UpTo(MaxRanges, ArrayRange) \ {<<>>}]
         \cup [kind : {"invalid", "absent"}, ranges : {<<>>}]

VARIABLES
    files,      \* --data
    array,      \* --array
    reading,    \* the place in the construction or the iteration, or its end
    sources,    \* the sources that were opened
    pos,        \* how many lines each of them has returned
    turn,       \* the source that is asked for its next line
    row,        \* the row that is being made
    rows        \* the rows that were made

sourceVars == <<files, array, reading, sources, pos, turn, row, rows>>

\* No cell: the name is not in the row.
None == <<>>

EmptyRow == [n \in Name |-> None]

-----------------------------------------------------------------------------
(* The sources.                                                            *)

\* Both ends of a range are in it; a range that goes down is empty.
RangeIds(r) == [k \in 1..(r.to + 1 - r.from) |-> r.from + k - 1]

RangeSource(ranges) ==
    [kind |-> "range", header |-> <<ArrayVar>>,
     lines |-> FlattenSeq([k \in DOMAIN ranges |-> RangeIds(ranges[k])])]

\* The cells of the line that go with a name of the header: the shorter of the
\* two decides, and of two columns with one name the last counts.
Columns(s, l, n) ==
    {c \in DOMAIN s.header : s.header[c] = n /\ (s.kind = "range" \/ c <= s.lines[l])}

Cell(i, s, l, n) ==
    IF Columns(s, l, n) = {} THEN None
    ELSE <<i, IF s.kind = "range" THEN s.lines[l] ELSE l,
           CHOOSE c \in Columns(s, l, n) : \A d \in Columns(s, l, n) : d <= c>>

\* What source i returns for its line l.
LineOf(i, l) == [n \in Name |-> Cell(i, sources[i], l, n)]

-----------------------------------------------------------------------------
(* DataSource.__init__.                                                    *)

InitSources ==
    /\ reading = "open"
    /\ sources = <<>> /\ pos = <<>> /\ turn = 1
    /\ row = EmptyRow /\ rows = <<>>

Opened(s) ==
    /\ sources' = Append(sources, s)
    /\ pos' = Append(pos, 0)
    /\ UNCHANGED <<files, array, turn, row, rows>>

Fails(how) ==
    /\ reading' = how
    /\ UNCHANGED <<files, array, sources, pos, turn, row, rows>>

NextFile == files[Len(sources) + 1]

OpenFile ==
    /\ reading = "open"
    /\ Len(sources) < Len(files)
    /\ NextFile.kind \in {"table", "column"}
    /\ Opened(NextFile)
    /\ UNCHANGED reading

\* wsub handles a file that is not there; it does not handle the error of the
\* csv module that a file which is neither leaves.
OpenFileFails ==
    /\ reading = "open"
    /\ Len(sources) < Len(files)
    /\ \/ NextFile.kind = "missing" /\ Fails("data_error")
       \/ NextFile.kind = "neither" /\ Fails("exception")

OpenArray ==
    /\ reading = "open"
    /\ Len(sources) = Len(files)
    /\ \/ /\ array.kind = "ranges"
          /\ Opened(RangeSource(array.ranges))
       \/ /\ array.kind = "absent"
          /\ sources # <<>>
          /\ UNCHANGED <<files, array, sources, pos, turn, row, rows>>
    /\ reading' = "rows"

\* Not a valid expression, or no source at all.
OpenArrayFails ==
    /\ reading = "open"
    /\ Len(sources) = Len(files)
    /\ array.kind = "invalid" \/ (array.kind = "absent" /\ sources = <<>>)
    /\ Fails("data_error")

-----------------------------------------------------------------------------
(* DataSource.__next__: zip asks the sources in order.                     *)

Left(i) == pos[i] < Len(sources[i].lines)

OverFirst(old, new) == [n \in Name |-> IF old[n] # None THEN old[n] ELSE new[n]]

Over(old, new) == [n \in Name |-> IF new[n] # None THEN new[n] ELSE old[n]]

\* A name that several sources have gets the value of the last of them.
NextLine ==
    LET merged == Over(row, LineOf(turn, pos[turn] + 1))
    IN /\ reading = "rows"
       /\ Left(turn)
       /\ pos' = [pos EXCEPT ![turn] = @ + 1]
       /\ IF turn < Len(sources)
          THEN /\ turn' = turn + 1
               /\ row' = merged
               /\ UNCHANGED rows
          ELSE /\ turn' = 1
               /\ row' = EmptyRow
               /\ rows' = Append(rows, merged)
       /\ UNCHANGED <<files, array, reading, sources>>

ExhaustedEnds ==
    /\ reading = "rows"
    /\ ~Left(turn)
    /\ Fails("end")

\* The first source without a line left ends the iteration, whatever the others
\* have; the first row is asked for outside of the loop, where nothing takes
\* the StopIteration.
Exhausted ==
    /\ reading = "rows"
    /\ ~Left(turn)
    /\ Fails(IF rows = <<>> THEN "exception" ELSE "end")

SourceStep ==
    OpenFile \/ OpenFileFails \/ OpenArray \/ OpenArrayFails \/ NextLine \/ Exhausted

-----------------------------------------------------------------------------
\* Row k by its definition: for each name the value in line k of the last of
\* the sources that has one.
ZippedRow(k) ==
    [n \in Name |->
        LET with == {i \in DOMAIN sources : LineOf(i, k)[n] # None}
        IN IF with = {} THEN None
           ELSE LineOf(CHOOSE i \in with : \A j \in with : j <= i, k)[n]]

\* An item gets its values from one line of every source: the sources are
\* never out of step with each other, whatever their lines miss.
RowsInStep ==
    reading \in {"rows", "end"} => \A k \in DOMAIN rows : rows[k] = ZippedRow(k)

\* The shortest source decides how many items there are, no line is left out
\* and none is used twice, and a job has an item at least.
ShortestDecides ==
    reading = "end" =>
        /\ rows # <<>>
        /\ \A i \in DOMAIN sources : Len(rows) <= Len(sources[i].lines)
        /\ \E i \in DOMAIN sources : Len(rows) = Len(sources[i].lines)

=============================================================================
