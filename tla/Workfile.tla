------------------------------ MODULE Workfile ------------------------------
(***************************************************************************)
(* The workfile and its three readers and writers: create_workfile         *)
(* (src/scripts/worker/utils.py) writes it, the server's Work_parser       *)
(* (src/src/work_parser) reads it item by item, and wresume's              *)
(* WorkfileParser and filter_workfile                                      *)
(* (src/scripts/worker/workfile_parser.py) make the workfile of the        *)
(* resumed job from it.                                                    *)
(*                                                                         *)
(* A file is a sequence of lines; a line is the separator, the separator   *)
(* with white space around it ("padded"), a blank one, or other text.      *)
(***************************************************************************)
EXTENDS DataSources, FiniteSets, Pick

CONSTANTS
    MaxLines,   \* bound: the lines of a file that is not made by wsub
    MaxScript   \* bound: the lines of a job script

ASSUME WorkfileAssumption == MaxLines \in Nat /\ MaxScript \in Nat

Sep == <<"sep">>

Padded == <<"padded">>

Text == <<"text">>

Blank == <<"blank">>

Line == {Sep, Padded, Text}

WorkfileByHand == UpTo(MaxLines, Line)

\* What wsub keeps of a job script (_parse_script): it starts at the first line
\* that is neither a directive, a comment nor blank, so not with a separator.
Script == {s \in UpTo(MaxScript, Line) : s = <<>> \/ s[1] # Sep}

\* What print makes of it: one line end more, which is a blank line unless the
\* script's last line had none.
Printed == {Append(s, Blank) : s \in Script} \cup (Script \ {<<>>})

VARIABLES
    script,     \* the job script as it is printed, <<>> before wsub read it
    file,       \* the workfile
    ifs,        \* Work_parser: the line its stream is at
    next_item,  \* Work_parser: the item that next() will return
    nr_items,   \* Work_parser: the number of items returned
    items,      \* the items returned (history)
    asked       \* the items that wresume was to keep last, <<>> before it ran

parserVars == <<ifs, next_item, nr_items>>
fileVars == <<script, file, parserVars, items, asked>>
vars == <<sourceVars, fileVars>>

-----------------------------------------------------------------------------
(* create_workfile.                                                        *)

\* The variables of the item, one line for each value of the row, of which the
\* model makes one; a blank line; and the script.
Written(r, s) ==
    (IF r = EmptyRow THEN <<>> ELSE <<<<"export", r>>>>) \o <<Blank>> \o s

\* A separator goes before each item but the first.
Separated(blocks) ==
    FlattenSeq([k \in DOMAIN blocks |-> IF k = 1 THEN blocks[k] ELSE <<Sep>> \o blocks[k]])

EachAfterSeparator(data, s) ==
    FlattenSeq([k \in DOMAIN data |-> <<Sep>> \o Written(data[k], s)])

Content(data, s) == Separated([k \in DOMAIN data |-> Written(data[k], s)])

-----------------------------------------------------------------------------
(* Work_parser.                                                            *)

IsSeparatorPadded(line) == line \in {Sep, Padded}

\* Work_parser compares the whole line.
IsSeparator(line) == line = Sep

\* The line at which an item that starts at line i ends: a separator, or the
\* end of the file.
ItemEnd(f, i) ==
    CHOOSE e \in i..(Len(f) + 1) :
        /\ e = Len(f) + 1 \/ IsSeparator(f[e])
        /\ \A j \in i..(e - 1) : ~IsSeparator(f[j])

ItemAt(f, i) == IF i > Len(f) THEN <<>> ELSE SubSeq(f, i, ItemEnd(f, i) - 1)

AfterItemSkips(f, i) == IF i > Len(f) THEN i ELSE ItemEnd(f, i) + 2

AfterItem(f, i) == IF i > Len(f) THEN i ELSE ItemEnd(f, i) + 1

\* The constructor reads the first item ahead.
Open(f) ==
    /\ file' = f
    /\ next_item' = ItemAt(f, 1)
    /\ ifs' = AfterItem(f, 1)
    /\ nr_items' = 0
    /\ items' = <<>>

HasNext == next_item # <<>>

\* next(): return the item read ahead, count it, and read the next one.
NextItem ==
    /\ HasNext
    /\ items' = Append(items, next_item)
    /\ nr_items' = nr_items + 1
    /\ next_item' = ItemAt(file, ifs)
    /\ ifs' = AfterItem(file, ifs)
    /\ UNCHANGED <<sourceVars, script, file, asked>>

-----------------------------------------------------------------------------
(* WorkfileParser and filter_workfile.                                     *)

\* line.strip() == sep
IsSeparatorStripped(line) == line \in {Sep, Padded}

ParseLineNoReset(state, line) ==
    IF IsSeparatorStripped(line)
    THEN [state EXCEPT !.yielded = Append(@, state.workitem)]
    ELSE [state EXCEPT !.workitem = Append(@, line)]

ParseLine(state, line) ==
    IF IsSeparatorStripped(line)
    THEN [yielded |-> Append(state.yielded, state.workitem), workitem |-> <<>>]
    ELSE [state EXCEPT !.workitem = Append(@, line)]

\* What the generator yields: the item after the last separator is its return
\* value, which a for loop does not see.
Parse(f) ==
    LET after[n \in 0..Len(f)] == IF n = 0 THEN [yielded |-> <<>>, workitem |-> <<>>]
                                  ELSE ParseLine(after[n - 1], f[n])
    IN after[Len(f)].yielded

\* The items whose number is in ids, in the order of the file.
Selected(f, ids) == Picked(Parse(f), ids)

\* print ends an item, which has its line ends, with another.
Reprinted(selected) == [k \in DOMAIN selected |-> Append(selected[k], Blank)]

FilterNoSeparator(f, ids) == FlattenSeq(Reprinted(Selected(f, ids)))

Filter(f, ids) == Separated(Reprinted(Selected(f, ids)))

\* wresume makes a new file of the one whose items were served, and a server
\* opens it; the new file may be resumed in turn.  The last item of a file is never
\* selected, so that a chain ends without a bound.
Resume(ids) ==
    /\ reading = "served"
    /\ ~HasNext
    /\ asked' = Selected(file, ids)
    /\ asked' # <<>>
    /\ Open(Filter(file, ids))
    /\ UNCHANGED <<sourceVars, script>>

-----------------------------------------------------------------------------

\* Either wsub makes the file, or it is any file given to the server.
Init ==
    /\ InitSources
    /\ files \in UpTo(MaxFiles, File)
    /\ array \in Array
    /\ script = <<>> /\ file = <<>> /\ asked = <<>>
    /\ ifs = 1 /\ next_item = <<>> /\ nr_items = 0 /\ items = <<>>

MakeItems == SourceStep /\ UNCHANGED fileVars

\* create_workfile returns, with which its data sources are gone, and the job's
\* server opens the file.
CreateWorkfile(s) ==
    /\ reading = "end"
    /\ script' = s
    /\ Open(Content(rows, s))
    /\ reading' = "served"
    /\ files' = <<>> /\ array' = [kind |-> "absent", ranges |-> <<>>]
    /\ sources' = <<>> /\ pos' = <<>> /\ turn' = 1
    /\ UNCHANGED <<row, rows, asked>>

\* Without wsub the file is somebody's own.
OpenByHand(f) ==
    /\ reading = "open" /\ files = <<>> /\ array.kind = "absent"
    /\ reading' = "served"
    /\ Open(f)
    /\ UNCHANGED <<files, array, sources, pos, turn, row, rows, script, asked>>

Next ==
    \/ MakeItems
    \/ \E s \in Printed : CreateWorkfile(s)
    \/ \E f \in WorkfileByHand : OpenByHand(f)
    \/ NextItem
    \/ \E ids \in SUBSET (1..nr_items) : Resume(ids)

Spec == Init /\ [][Next]_vars

-----------------------------------------------------------------------------
\* The number of separators before line i of f.
Before(f, i) == Cardinality({j \in 1..(i - 1) : f[j] = Sep})

\* The lines of the k-th block of f, by their definition: those with k - 1
\* separators before them.
Block(f, k) == Picked(f, {i \in DOMAIN f : f[i] # Sep /\ Before(f, i) = k - 1})

\* Types of all variables.
TypeOK ==
    /\ reading \in {"open", "rows", "end", "data_error", "exception", "served"}
    /\ Len(pos) = Len(sources)
    /\ \A i \in DOMAIN pos : pos[i] \in 0..Len(sources[i].lines)
    /\ turn \in 1..(Len(sources) + 1)
    /\ \A k \in DOMAIN rows : DOMAIN rows[k] = Name
    /\ script \in {<<>>} \cup Printed
    /\ ifs \in 1..(Len(file) + 2)
    /\ \A k \in DOMAIN items : items[k] # <<>>
    /\ nr_items \in Nat

\* The server's items are the blocks of the file, by number, up to the first
\* empty one, which ends the work whatever follows it.
ItemsAreBlocks ==
    /\ nr_items = Len(items)
    /\ \A k \in DOMAIN items : items[k] = Block(file, k)
    /\ next_item = Block(file, nr_items + 1)

\* From the data to the server: a job serves an item for each row of the data,
\* in order, with the values of that row and the whole script, unless the
\* script has a separator of its own.
RowsAreServed ==
    /\ reading = "served" /\ rows # <<>> /\ asked = <<>> /\ ~HasNext
    /\ \A n \in DOMAIN script : script[n] # Sep
    => items = [k \in DOMAIN rows |-> Written(rows[k], script)]

\* The number that the server logs for an item is the number under which
\* wresume finds it, in a file without padded separators.
SameNumbers ==
    LET parsed == Parse(file)
    IN (\A i \in DOMAIN file : file[i] # Padded) =>
           \A k \in DOMAIN items \cap DOMAIN parsed : items[k] = parsed[k]

\* The resumed job serves what wresume selected, item by item: what the filter
\* adds to an item does not split it, merge it or end the file.
ResumeServesSelected ==
    asked # <<>> /\ ~HasNext =>
        items = Reprinted(asked)

=============================================================================
