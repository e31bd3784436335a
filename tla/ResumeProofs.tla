---------------------------- MODULE ResumeProofs ----------------------------
(***************************************************************************)
(* Proofs about Resume for any number of items and jobs: what a log says   *)
(* of its job at any moment, and what a chain of resumed jobs executes,    *)
(* repeats and leaves out.                                                 *)
(***************************************************************************)
EXTENDS Resume, PickProofs

\* A line of the log.
LogLine == [event : {"started", "done"}, id : Nat, status : ExitStatus]

\* The output files are written at their end only.
Appendable(s) == \E S : s \in Seq(S)

\* Some line of the output has this result of the item with that id.
InOutput(id, status) ==
    \E k \in DOMAIN output :
        output[k].job = Job /\ output[k].item = workfile[id] /\ output[k].status = status

\* The types of what the proof follows.
Shape ==
    /\ nr_items \in Nat
    /\ under_way \subseteq 1..nr_items
    /\ log \in Seq(LogLine)
    /\ Appendable(output)

\* What is started, done and under way: no id is done and under way, and what is
\* neither was not handed out, except an item that was sent and not logged yet.
Accounts ==
    /\ KnownIds(log) \subseteq 1..nr_items
    /\ DoneIds(log) \subseteq KnownIds(log)
    /\ DoneIds(log) \cap under_way = {}
    /\ Incompletes(log) \subseteq under_way
    /\ under_way \ KnownIds(log) \subseteq {nr_items}

\* Where the server is, and what it has not logged yet.
InLoop ==
    /\ server \in {"loop", "written"} => under_way \subseteq KnownIds(log)
    /\ server = "sent" => nr_items \in under_way \ KnownIds(log)
    /\ server = "written" =>
          /\ current.id \in under_way
          /\ current.status \in ExitStatus
          /\ InOutput(current.id, current.status)

\* A done line was written after its result, and there is one at most for each id.
Results ==
    /\ Successes(log) \cap Failures(log) = {}
    /\ \A id \in Successes(log) : InOutput(id, 0)
    /\ \A id \in Failures(log) : InOutput(id, 1)

RInv == Shape /\ Accounts /\ InLoop /\ Results

-----------------------------------------------------------------------------
(* Appending a line.                                                       *)

LEMMA AppendedAt ==
    ASSUME NEW s, Appendable(s), NEW e
    PROVE  /\ Appendable(Append(s, e))
           /\ DOMAIN s \subseteq DOMAIN Append(s, e)
           /\ \A k \in DOMAIN s : Append(s, e)[k] = s[k]
           /\ DOMAIN Append(s, e) = DOMAIN s \cup {Len(s) + 1}
           /\ Append(s, e)[Len(s) + 1] = e
  <1>1. PICK S : s \in Seq(S)
    BY DEF Appendable
  <1>2. s \in Seq(S \cup {e}) /\ e \in S \cup {e}
    BY <1>1
  <1>3. /\ Append(s, e) \in Seq(S \cup {e})
        /\ Len(Append(s, e)) = Len(s) + 1
        /\ \A k \in 1..Len(s) : Append(s, e)[k] = s[k]
        /\ Append(s, e)[Len(s) + 1] = e
    BY <1>2, AppendProperties
  <1>4. DOMAIN s = 1..Len(s) /\ Len(s) \in Nat
    BY <1>1
  <1>5. DOMAIN Append(s, e) = 1..(Len(s) + 1)
    BY <1>3
  <1>6. 1..(Len(s) + 1) = 1..Len(s) \cup {Len(s) + 1}
    BY <1>4
  <1> QED
    BY <1>3, <1>4, <1>5, <1>6 DEF Appendable

LEMMA AppendedLines ==
    ASSUME NEW l \in Seq(LogLine), NEW x \in LogLine
    PROVE  /\ Append(l, x) \in Seq(LogLine)
           /\ Lines(Append(l, x)) = Lines(l) \cup {x}
  <1>1. Appendable(l)
    BY DEF Appendable
  <1>2. DOMAIN Append(l, x) = DOMAIN l \cup {Len(l) + 1}
    BY <1>1, AppendedAt
  <1>3. Append(l, x)[Len(l) + 1] = x /\ \A k \in DOMAIN l : Append(l, x)[k] = l[k]
    BY <1>1, AppendedAt
  <1>4. Lines(Append(l, x)) = Lines(l) \cup {x}
    BY <1>2, <1>3 DEF Lines
  <1> QED
    BY <1>4, AppendProperties

\* The ids of a log with one more line.
LEMMA StartedIds ==
    ASSUME NEW l \in Seq(LogLine), NEW id \in Nat
    PROVE  LET l1 == Append(l, Started(id))
           IN /\ l1 \in Seq(LogLine)
              /\ KnownIds(l1) = KnownIds(l) \cup {id}
              /\ DoneIds(l1) = DoneIds(l)
              /\ Successes(l1) = Successes(l)
              /\ Failures(l1) = Failures(l)
  <1> DEFINE l1 == Append(l, Started(id))
  <1>1. Started(id) \in LogLine
    BY DEF Started, LogLine, ExitStatus
  <1>2. l1 \in Seq(LogLine) /\ Lines(l1) = Lines(l) \cup {Started(id)}
    BY <1>1, AppendedLines
  <1>3. Started(id).event = "started" /\ Started(id).id = id
    BY DEF Started
  <1> QED
    BY <1>2, <1>3 DEF KnownIds, DoneIds, Successes, Failures

LEMMA DoneLineIds ==
    ASSUME NEW l \in Seq(LogLine), NEW id \in Nat, NEW status \in ExitStatus
    PROVE  LET l1 == Append(l, Done(id, status))
           IN /\ l1 \in Seq(LogLine)
              /\ KnownIds(l1) = KnownIds(l)
              /\ DoneIds(l1) = DoneIds(l) \cup {id}
              /\ Successes(l1) = Successes(l) \cup IF status = 0 THEN {id} ELSE {}
              /\ Failures(l1) = Failures(l) \cup IF status = 0 THEN {} ELSE {id}
  <1> DEFINE l1 == Append(l, Done(id, status))
  <1>1. Done(id, status) \in LogLine
    BY DEF Done, LogLine
  <1>2. l1 \in Seq(LogLine) /\ Lines(l1) = Lines(l) \cup {Done(id, status)}
    BY <1>1, AppendedLines
  <1>3. /\ Done(id, status).event = "done"
        /\ Done(id, status).id = id
        /\ Done(id, status).status = status
    BY DEF Done
  <1> QED
    BY <1>2, <1>3 DEF KnownIds, DoneIds, Successes, Failures

\* A log without lines has no ids.
LEMMA EmptyLog ==
    /\ <<>> \in Seq(LogLine)
    /\ KnownIds(<<>>) = {} /\ DoneIds(<<>>) = {}
    /\ Successes(<<>>) = {} /\ Failures(<<>>) = {}
  <1>1. Lines(<<>>) = {}
    BY DEF Lines
  <1> QED
    BY <1>1 DEF KnownIds, DoneIds, Successes, Failures

LEMMA SuccessesAreDone ==
    ASSUME NEW l
    PROVE  Successes(l) \subseteq DoneIds(l) /\ Failures(l) \subseteq DoneIds(l)
  BY DEF Successes, Failures, DoneIds

-----------------------------------------------------------------------------
(* The invariant.                                                          *)

\* Nothing of what the invariant says changes when the output grows.
LEMMA OutputGrows ==
    ASSUME Appendable(output), NEW e, output' = Append(output, e),
           UNCHANGED <<workfile, past>>
    PROVE  /\ Appendable(output')
           /\ \A id, status : InOutput(id, status) => InOutput(id, status)'
  <1>1. /\ Appendable(Append(output, e))
        /\ \A k \in DOMAIN output : k \in DOMAIN Append(output, e)
                                    /\ Append(output, e)[k] = output[k]
    BY AppendedAt
  <1> QED
    BY <1>1 DEF InOutput, Job

LEMMA OutputStays ==
    ASSUME UNCHANGED <<workfile, output, past>>
    PROVE  \A id, status : InOutput(id, status)' <=> InOutput(id, status)
  BY DEF InOutput, Job

LEMMA ReportInit == Init => RInv
  <1> SUFFICES ASSUME Init
               PROVE  RInv
    OBVIOUS
  <1>1. Appendable(<<>>)
    BY EmptyLog DEF Appendable
  <1> QED
    BY <1>1, EmptyLog DEF Init, RInv, Shape, Accounts, InLoop, Results, Incompletes

LEMMA SendWorkKeeps ==
    ASSUME RInv, SendWork
    PROVE  RInv'
  <1> USE DEF SendWork
  <1>1. Shape'
    BY DEF RInv, Shape
  <1>2. Accounts' /\ InLoop'
    BY DEF RInv, Shape, Accounts, InLoop, Incompletes
  <1>3. Results'
    BY OutputStays DEF RInv, Results
  <1> QED
    BY <1>1, <1>2, <1>3 DEF RInv

LEMMA LogStartedKeeps ==
    ASSUME RInv, LogStarted
    PROVE  RInv'
  <1>1. /\ log' \in Seq(LogLine)
        /\ KnownIds(log)' = KnownIds(log) \cup {nr_items}
        /\ DoneIds(log)' = DoneIds(log)
        /\ Successes(log)' = Successes(log)
        /\ Failures(log)' = Failures(log)
    BY StartedIds DEF RInv, Shape, LogStarted
  <1>2. Shape'
    BY <1>1 DEF RInv, Shape, LogStarted
  <1>3. Accounts' /\ InLoop'
    BY <1>1 DEF RInv, Shape, Accounts, InLoop, Incompletes, LogStarted
  <1>4. Results'
    BY <1>1, OutputStays DEF RInv, Results, LogStarted
  <1> QED
    BY <1>2, <1>3, <1>4 DEF RInv

LEMMA WriteResultKeeps ==
    ASSUME RInv, NEW id \in under_way, NEW status \in ExitStatus, WriteResult(id, status)
    PROVE  RInv'
  <1> DEFINE e == [job |-> Job, item |-> workfile[id], status |-> status]
  <1>1. output' = Append(output, e) /\ UNCHANGED <<workfile, past, log, nr_items, under_way>>
    BY DEF WriteResult
  <1>2. Appendable(output)
    BY DEF RInv, Shape
  <1>3. /\ Appendable(output')
        /\ \A i, s : InOutput(i, s) => InOutput(i, s)'
    BY <1>1, <1>2, OutputGrows
  <1>4. InOutput(id, status)'
    BY <1>1, <1>2, AppendedAt DEF InOutput, Job
  <1>5. Shape' /\ Accounts'
    BY <1>1, <1>3 DEF RInv, Shape, Accounts
  <1>6. InLoop'
    BY <1>1, <1>4 DEF RInv, InLoop, WriteResult
  <1>7. Results'
    BY <1>1, <1>3 DEF RInv, Results
  <1> QED
    BY <1>5, <1>6, <1>7 DEF RInv

LEMMA LogDoneKeeps ==
    ASSUME RInv, LogDone
    PROVE  RInv'
  <1>1. /\ current.id \in under_way /\ current.id \in Nat /\ current.status \in ExitStatus
        /\ current.id \in KnownIds(log) /\ current.id \notin DoneIds(log)
        /\ InOutput(current.id, current.status)
    BY DEF RInv, Shape, Accounts, InLoop, LogDone
  <1>2. /\ log' \in Seq(LogLine)
        /\ KnownIds(log)' = KnownIds(log)
        /\ DoneIds(log)' = DoneIds(log) \cup {current.id}
        /\ Successes(log)' = Successes(log) \cup IF current.status = 0 THEN {current.id} ELSE {}
        /\ Failures(log)' = Failures(log) \cup IF current.status = 0 THEN {} ELSE {current.id}
    BY <1>1, DoneLineIds DEF RInv, Shape, LogDone
  <1>3. Shape'
    BY <1>2 DEF RInv, Shape, LogDone
  <1>4. Accounts' /\ InLoop'
    BY <1>1, <1>2 DEF RInv, Shape, Accounts, InLoop, Incompletes, LogDone
  <1>5. Results'
    <2>1. Successes(log)' \cap Failures(log)' = {}
      BY <1>1, <1>2, SuccessesAreDone DEF RInv, Results
    <2>2. \A id, status : InOutput(id, status)' <=> InOutput(id, status)
      BY OutputStays DEF LogDone
    <2> QED
      BY <1>1, <1>2, <2>1, <2>2 DEF RInv, Results, ExitStatus
  <1> QED
    BY <1>3, <1>4, <1>5 DEF RInv

\* The server leaves its loop, or a resumption that comes to nothing.
LEMMA EndKeeps ==
    ASSUME RInv, server' \in {"ended", "resume_raised", "nothing_left"},
           UNCHANGED <<workfile, nr_items, under_way, log, output, past>>
    PROVE  RInv'
  BY OutputStays DEF RInv, Shape, Accounts, InLoop, Results

LEMMA ResumeKeeps ==
    ASSUME RInv, NEW redo \in BOOLEAN, Resume(redo)
    PROVE  RInv'
  <1>1. log' = <<>> /\ under_way' = {} /\ nr_items' = 0 /\ server' = "loop" /\ output' = output
    BY DEF Resume
  <1>2. Shape'
    BY <1>1, EmptyLog DEF RInv, Shape
  <1> QED
    BY <1>1, <1>2, EmptyLog DEF RInv, Accounts, InLoop, Results, Incompletes

LEMMA ReportNext == RInv /\ [Next]_vars => RInv'
  <1> SUFFICES ASSUME RInv, [Next]_vars
               PROVE  RInv'
    OBVIOUS
  <1>1. CASE SendWork
    BY <1>1, SendWorkKeeps
  <1>2. CASE LogStarted
    BY <1>2, LogStartedKeeps
  <1>3. ASSUME NEW id \in under_way, NEW status \in ExitStatus, WriteResult(id, status)
        PROVE  RInv'
    BY <1>3, WriteResultKeeps
  <1>4. CASE LogDone
    BY <1>4, LogDoneKeeps
  <1>5. CASE EndOfNothing \/ Kill \/ ResumeNothingStarted
    BY <1>5, EndKeeps DEF EndOfNothing, Kill, ResumeNothingStarted
  <1>6. ASSUME NEW redo \in BOOLEAN, ResumeNothingLeft(redo)
        PROVE  RInv'
    BY <1>6, EndKeeps DEF ResumeNothingLeft
  <1>7. ASSUME NEW redo \in BOOLEAN, Resume(redo)
        PROVE  RInv'
    BY <1>7, ResumeKeeps
  <1>8. CASE UNCHANGED vars
    BY <1>8, OutputStays DEF vars, jobVars, RInv, Shape, Accounts, InLoop, Results
  <1> QED
    BY <1>1, <1>2, <1>3, <1>4, <1>5, <1>6, <1>7, <1>8 DEF Next, ServerStep

THEOREM ReportInvariance == Spec => []RInv
  BY ReportInit, ReportNext, PTL DEF Spec

\* A summary of the log is true of its job at any moment, also while it runs and
\* after it was killed between any two writes, for any number of items and of
\* resumptions.
THEOREM SummaryIsAlwaysTrue == Spec => []SummaryIsTrue
  <1>1. ASSUME RInv
        PROVE  SummaryIsTrue
    <2>1. DoneIds(log) = Successes(log) \cup Failures(log)
      BY DEF DoneIds, Successes, Failures
    <2>2. KnownIds(log) = Successes(log) \cup Failures(log) \cup Incompletes(log)
      BY <1>1, <2>1 DEF RInv, Accounts, Incompletes
    <2>3. under_way \ Incompletes(log) \subseteq {nr_items}
      BY <1>1 DEF RInv, Accounts, Incompletes
    <2>4. /\ \A id \in Successes(log) : \E k \in DOMAIN output :
                /\ output[k].job = Job /\ output[k].item = workfile[id]
                /\ output[k].status \in {0}
          /\ \A id \in Failures(log) : \E k \in DOMAIN output :
                /\ output[k].job = Job /\ output[k].item = workfile[id]
                /\ output[k].status \in {1}
      BY <1>1 DEF RInv, Results, InOutput
    <2> QED
      BY <1>1, <2>2, <2>3, <2>4 DEF RInv, Accounts, Results, SummaryIsTrue, Summary
  <1> QED
    BY <1>1, ReportInvariance, PTL

-----------------------------------------------------------------------------
(* The chain of jobs.                                                      *)

\* A result in the output.
Result == [job : 1..MaxJobs, item : Place, status : ExitStatus]

\* A job that was resumed.
PastJob == [workfile : Seq(Place), log : Seq(LogLine), redo : BOOLEAN]

\* A workfile has each item once.
Distinct(w) == \A i, k \in DOMAIN w : w[i] = w[k] => i = k

\* The workfile and the log of one job.
FileAndLog(w, l) ==
    /\ w \in Seq(Place) /\ Distinct(w) /\ Len(w) <= NumItems
    /\ l \in Seq(LogLine)
    /\ KnownIds(l) \subseteq DOMAIN w
    /\ DoneIds(l) \subseteq KnownIds(l)
    /\ Successes(l) \cap Failures(l) = {}

\* A done line of the log l reports the result r.
Reports(w, l, r) ==
    \E x \in Lines(l) : x.event = "done" /\ x.status = r.status /\ w[x.id] = r.item

\* The results of job j that its log does not report.
Unlogged(j, w, l, out) ==
    {k \in DOMAIN out : out[k].job = j /\ ~Reports(w, l, out[k])}

\* The results of job j: of its own items, each once; all that the log reports
\* were written, and at most one was written that the log does not report.
JobOutput(j, w, l, out) ==
    /\ \A k \in DOMAIN out : out[k].job = j => out[k].item \in Items(w)
    /\ \A k, m \in DOMAIN out :
          out[k].job = j /\ out[m].job = j /\ out[k].item = out[m].item => k = m
    /\ \A x \in Lines(l) : x.event = "done" =>
          \E k \in DOMAIN out :
              out[k].job = j /\ out[k].item = w[x.id] /\ out[k].status = x.status
    /\ \A k, m \in Unlogged(j, w, l, out) : k = m

\* The items that the resumption of job j is asked for.
Kept(j) == {FileOf(j)[i] : i \in WorkIds(LogOf(j), past[j].redo)}

ChainShape ==
    /\ past \in Seq(PastJob) /\ Len(past) < MaxJobs
    /\ nr_items <= Len(workfile)
    /\ server \in {"loop", "sent", "written", "ended", "nothing_left", "resume_raised"}
    /\ current \in [id : 0..NumItems, status : ExitStatus]
    /\ output \in Seq(Result)
    /\ \A k \in DOMAIN output : output[k].job <= Job

\* Each job works on what the log of the one before leaves of its workfile, and
\* so on items that every log before leaves.
ChainFiles ==
    /\ \A j \in 1..Job : FileAndLog(FileOf(j), LogOf(j))
    /\ \A j \in 1..(Job - 1) :
          FileOf(j + 1) = Filter(FileOf(j), WorkIds(LogOf(j), past[j].redo))
    /\ \A j, m \in 1..Job : j < m => Items(FileOf(m)) \subseteq Kept(j)

\* The results of each job; those of the current one are all logged, except the
\* one that the server handles.
ChainOutput ==
    /\ \A j \in 1..Job : JobOutput(j, FileOf(j), LogOf(j), output)
    /\ server \in {"loop", "sent"} => Unlogged(Job, workfile, log, output) = {}
    /\ server = "written" =>
          \A k \in Unlogged(Job, workfile, log, output) :
              output[k].item = workfile[current.id] /\ output[k].status = current.status

CInv == ChainShape /\ ChainFiles /\ ChainOutput

-----------------------------------------------------------------------------
(* What the resumption makes of a workfile.                                *)

LEMMA ParsedAt ==
    ASSUME NEW w \in Seq(Place)
    PROVE  /\ Parsed(w) \in Seq(Place) /\ Len(Parsed(w)) <= Len(w)
           /\ DOMAIN Parsed(w) = 1..(Len(w) - 1)
           /\ \A i \in 1..(Len(w) - 1) : i \in DOMAIN w /\ Parsed(w)[i] = w[i]
  <1>1. CASE w = <<>>
    BY <1>1 DEF Parsed
  <1>2. CASE w # <<>>
    <2>1. Len(w) \in Nat /\ Len(w) # 0 /\ DOMAIN w = 1..Len(w)
      BY <1>2, EmptySeq, LenProperties
    <2>2. Parsed(w) = [i \in 1..(Len(w) - 1) |-> w[i]]
      BY <1>2, <2>1 DEF Parsed
    <2>3. \A i \in 1..(Len(w) - 1) : i \in DOMAIN w /\ w[i] \in Place
      BY <2>1
    <2>4. Parsed(w) \in Seq(Place) /\ Len(Parsed(w)) = Len(w) - 1
      BY <2>1, <2>2, <2>3
    <2> QED
      BY <2>1, <2>2, <2>3, <2>4
  <1> QED
    BY <1>1, <1>2

LEMMA FilterKeeps ==
    ASSUME NEW w \in Seq(Place), Distinct(w), NEW ids
    PROVE  /\ Filter(w, ids) \in Seq(Place) /\ Distinct(Filter(w, ids))
           /\ Len(Filter(w, ids)) <= Len(w)
           /\ Items(Filter(w, ids)) = {w[i] : i \in ids \cap 1..(Len(w) - 1)}
  <1> DEFINE p == Parsed(w)
             t == Picked(p, ids)
  <1>1. /\ p \in Seq(Place) /\ Len(p) <= Len(w) /\ DOMAIN p = 1..(Len(w) - 1)
        /\ \A i \in 1..(Len(w) - 1) : i \in DOMAIN w /\ p[i] = w[i]
    BY ParsedAt
  <1> HIDE DEF p
  <1>2. t \in Seq(Place) /\ Len(t) <= Len(p)
    BY <1>1, PickedAt
  <1>3. {t[k] : k \in DOMAIN t} = {p[i] : i \in ids \cap DOMAIN p}
    BY <1>1, PickedElements
  <1>4. \A i, j \in DOMAIN p : p[i] = p[j] => i = j
    BY <1>1 DEF Distinct
  <1>5. \A k, l \in DOMAIN t : t[k] = t[l] => k = l
    BY <1>1, <1>4, PickedElements
  <1>6. {p[i] : i \in ids \cap DOMAIN p} = {w[i] : i \in ids \cap 1..(Len(w) - 1)}
    BY <1>1
  <1> HIDE DEF t
  <1>7. Len(t) <= Len(w)
    BY <1>1, <1>2, LenProperties
  <1> QED
    BY <1>2, <1>3, <1>5, <1>6, <1>7 DEF Filter, p, t, Items, Distinct

-----------------------------------------------------------------------------
(* The output of one job, as it and the log grow.                          *)

\* A result of another job changes nothing.
LEMMA OtherJobWrites ==
    ASSUME NEW j, NEW w, NEW l, NEW out, Appendable(out), NEW e, e.job # j
    PROVE  /\ Unlogged(j, w, l, Append(out, e)) = Unlogged(j, w, l, out)
           /\ JobOutput(j, w, l, out) => JobOutput(j, w, l, Append(out, e))
  <1> DEFINE o == Append(out, e)
  <1>1. /\ DOMAIN o = DOMAIN out \cup {Len(out) + 1}
        /\ o[Len(out) + 1].job # j
        /\ \A k \in DOMAIN out : o[k] = out[k]
    BY AppendedAt
  <1> HIDE DEF o
  <1>2. \A k \in DOMAIN o : o[k].job = j => k \in DOMAIN out
    BY <1>1
  <1>3. \A k \in DOMAIN out : k \in DOMAIN o
    BY <1>1
  <1>4. Unlogged(j, w, l, o) = Unlogged(j, w, l, out)
    BY <1>1, <1>2, <1>3 DEF Unlogged
  <1>5. JobOutput(j, w, l, out) => JobOutput(j, w, l, o)
    BY <1>1, <1>2, <1>3, <1>4 DEF JobOutput
  <1> QED
    BY <1>4, <1>5 DEF o

\* e is a result of an item that is not done, and all that was written is logged.
NotYetDone(j, w, l, out, id, e) ==
    /\ FileAndLog(w, l) /\ JobOutput(j, w, l, out) /\ Unlogged(j, w, l, out) = {}
    /\ id \in DOMAIN w \ DoneIds(l)
    /\ e.job = j /\ e.item = w[id]

\* No result but e is not logged.
UnloggedIs(j, w, l, out, e) == \A k \in Unlogged(j, w, l, out) : out[k] = e

LEMMA JobWrites ==
    ASSUME NEW j, NEW w, NEW l, NEW out, Appendable(out), NEW id, NEW e,
           NotYetDone(j, w, l, out, id, e)
    PROVE  /\ JobOutput(j, w, l, Append(out, e))
           /\ UnloggedIs(j, w, l, Append(out, e), e)
  <1> DEFINE o == Append(out, e)
             n == Len(out) + 1
  <1> USE DEF NotYetDone
  <1>1. /\ DOMAIN o = DOMAIN out \cup {n}
        /\ o[n] = e
        /\ \A k \in DOMAIN out : o[k] = out[k]
    BY AppendedAt
  <1> HIDE DEF o, n
  <1>2. \A k \in DOMAIN out : out[k].job = j => Reports(w, l, out[k])
    BY DEF Unlogged
  <1>3. \A k \in DOMAIN out : out[k].job = j => out[k].item # w[id]
    <2> SUFFICES ASSUME NEW k \in DOMAIN out, out[k].job = j, out[k].item = w[id]
                 PROVE  FALSE
      OBVIOUS
    <2>1. PICK x \in Lines(l) : x.event = "done" /\ w[x.id] = w[id]
      BY <1>2 DEF Reports
    <2>2. x.id \in DoneIds(l)
      BY <2>1 DEF DoneIds
    <2>3. x.id \in DOMAIN w
      BY <2>2 DEF FileAndLog
    <2> QED
      BY <2>1, <2>2, <2>3 DEF FileAndLog, Distinct
  <1>4. \A k \in Unlogged(j, w, l, o) : k = n
    BY <1>1, <1>2 DEF Unlogged
  <1>5. JobOutput(j, w, l, o)
    <2>1. \A k \in DOMAIN o : o[k].job = j => o[k].item \in Items(w)
      BY <1>1 DEF JobOutput, Items
    <2>2. \A k, m \in DOMAIN o :
             o[k].job = j /\ o[m].job = j /\ o[k].item = o[m].item => k = m
      BY <1>1, <1>3 DEF JobOutput
    <2>3. \A x \in Lines(l) : x.event = "done" =>
             \E k \in DOMAIN o :
                o[k].job = j /\ o[k].item = w[x.id] /\ o[k].status = x.status
      BY <1>1 DEF JobOutput
    <2> QED
      BY <1>4, <2>1, <2>2, <2>3 DEF JobOutput
  <1> QED
    BY <1>1, <1>4, <1>5 DEF o, UnloggedIs

\* An item is logged as started.
LEMMA JobLogsStarted ==
    ASSUME NEW j, NEW w, NEW l, NEW out, FileAndLog(w, l), JobOutput(j, w, l, out),
           NEW id \in DOMAIN w
    PROVE  LET l1 == Append(l, Started(id))
           IN /\ FileAndLog(w, l1) /\ JobOutput(j, w, l1, out)
              /\ Unlogged(j, w, l1, out) = Unlogged(j, w, l, out)
  <1> DEFINE l1 == Append(l, Started(id))
  <1>1. id \in Nat /\ l \in Seq(LogLine)
    BY LenProperties DEF FileAndLog
  <1>2. /\ l1 \in Seq(LogLine)
        /\ KnownIds(l1) = KnownIds(l) \cup {id} /\ DoneIds(l1) = DoneIds(l)
        /\ Successes(l1) = Successes(l) /\ Failures(l1) = Failures(l)
    BY <1>1, StartedIds
  <1>3. Lines(l1) = Lines(l) \cup {Started(id)} /\ Started(id).event # "done"
    BY <1>1, AppendedLines DEF Started, LogLine, ExitStatus
  <1> HIDE DEF l1
  <1>4. FileAndLog(w, l1)
    BY <1>2 DEF FileAndLog
  <1>5. \A x : x \in Lines(l1) /\ x.event = "done" <=> x \in Lines(l) /\ x.event = "done"
    BY <1>3
  <1>6. \A r : Reports(w, l1, r) <=> Reports(w, l, r)
    BY <1>5 DEF Reports
  <1>7. Unlogged(j, w, l1, out) = Unlogged(j, w, l, out)
    BY <1>6 DEF Unlogged
  <1>8. JobOutput(j, w, l1, out)
    BY <1>5, <1>7 DEF JobOutput
  <1> QED
    BY <1>4, <1>7, <1>8 DEF l1

\* The result that was written is logged.
LEMMA JobLogsDone ==
    ASSUME NEW j, NEW w, NEW l, NEW out, FileAndLog(w, l), JobOutput(j, w, l, out),
           NEW id \in KnownIds(l) \ DoneIds(l), NEW status \in ExitStatus,
           \E k \in DOMAIN out :
              out[k].job = j /\ out[k].item = w[id] /\ out[k].status = status,
           \A k \in Unlogged(j, w, l, out) :
              out[k].item = w[id] /\ out[k].status = status
    PROVE  LET l1 == Append(l, Done(id, status))
           IN FileAndLog(w, l1) /\ JobOutput(j, w, l1, out) /\ Unlogged(j, w, l1, out) = {}
  <1> DEFINE l1 == Append(l, Done(id, status))
             x1 == Done(id, status)
  <1>1. id \in Nat /\ l \in Seq(LogLine)
    BY LenProperties DEF FileAndLog
  <1>2. /\ l1 \in Seq(LogLine)
        /\ KnownIds(l1) = KnownIds(l) /\ DoneIds(l1) = DoneIds(l) \cup {id}
        /\ Successes(l1) = Successes(l) \cup IF status = 0 THEN {id} ELSE {}
        /\ Failures(l1) = Failures(l) \cup IF status = 0 THEN {} ELSE {id}
    BY <1>1, DoneLineIds
  <1>3. /\ Lines(l1) = Lines(l) \cup {x1}
        /\ x1.event = "done" /\ x1.id = id /\ x1.status = status
    BY <1>1, AppendedLines DEF Done, LogLine
  <1> HIDE DEF l1, x1
  <1>4. Successes(l1) \cap Failures(l1) = {}
    BY <1>2, SuccessesAreDone DEF FileAndLog
  <1>5. FileAndLog(w, l1)
    BY <1>2, <1>4 DEF FileAndLog
  <1>6. \A r : Reports(w, l, r) => Reports(w, l1, r)
    BY <1>3 DEF Reports
  <1>7. \A r : r.item = w[id] /\ r.status = status => Reports(w, l1, r)
    BY <1>3 DEF Reports
  <1>8. Unlogged(j, w, l1, out) = {}
    <2> SUFFICES ASSUME NEW k \in Unlogged(j, w, l1, out)
                 PROVE  FALSE
      OBVIOUS
    <2>1. k \in Unlogged(j, w, l, out)
      BY <1>6 DEF Unlogged
    <2>2. Reports(w, l1, out[k])
      BY <1>7, <2>1
    <2> QED
      BY <2>2 DEF Unlogged
  <1>9. JobOutput(j, w, l1, out)
    BY <1>3, <1>8 DEF JobOutput
  <1> QED
    BY <1>5, <1>8, <1>9 DEF l1

-----------------------------------------------------------------------------
(* The chain invariant.                                                    *)

LEMMA JobIsLast ==
    ASSUME CInv
    PROVE  /\ Job \in 1..Job /\ Job \in Nat /\ Job = Len(past) + 1
           /\ DOMAIN past = 1..(Job - 1)
           /\ FileOf(Job) = workfile /\ LogOf(Job) = log
           /\ Appendable(output)
           /\ FileAndLog(workfile, log) /\ JobOutput(Job, workfile, log, output)
  <1>1. past \in Seq(PastJob) /\ Appendable(output)
    BY DEF CInv, ChainShape, Appendable
  <1>2. Len(past) \in Nat /\ DOMAIN past = 1..Len(past)
    BY <1>1, LenProperties
  <1>3. Job \in 1..Job /\ Job \in Nat /\ Job = Len(past) + 1 /\ Job - 1 = Len(past)
    BY <1>2 DEF Job
  <1>4. FileOf(Job) = workfile /\ LogOf(Job) = log
    BY DEF FileOf, LogOf
  <1>5. FileAndLog(FileOf(Job), LogOf(Job)) /\ JobOutput(Job, FileOf(Job), LogOf(Job), output)
    BY <1>3 DEF CInv, ChainFiles, ChainOutput
  <1> QED
    BY <1>1, <1>2, <1>3, <1>4, <1>5

\* As long as a job is the last one, only its log changes.
LEMMA SameJob ==
    ASSUME UNCHANGED <<workfile, past>>
    PROVE  /\ Job' = Job
           /\ \A j : FileOf(j)' = FileOf(j)
           /\ \A j : j # Job => LogOf(j)' = LogOf(j) /\ Kept(j)' = Kept(j)
           /\ LogOf(Job)' = log'
  <1>1. Job' = Job
    BY DEF Job
  <1>2. \A j : FileOf(j)' = FileOf(j)
    BY <1>1 DEF FileOf
  <1>3. \A j : j # Job => LogOf(j)' = LogOf(j)
    BY <1>1 DEF LogOf
  <1>4. LogOf(Job)' = log'
    BY <1>1 DEF LogOf
  <1>5. \A j : j # Job => Kept(j)' = Kept(j)
    BY <1>2, <1>3 DEF Kept
  <1> QED
    BY <1>1, <1>2, <1>3, <1>4, <1>5

LEMMA FilesStay ==
    ASSUME CInv, UNCHANGED <<workfile, past>>, FileAndLog(workfile, log')
    PROVE  ChainFiles'
  <1>1. /\ Job' = Job
        /\ \A j : FileOf(j)' = FileOf(j)
        /\ \A j : j # Job => LogOf(j)' = LogOf(j) /\ Kept(j)' = Kept(j)
        /\ LogOf(Job)' = log'
    BY SameJob
  <1>2. Job \in Nat /\ FileOf(Job) = workfile
    BY JobIsLast
  <1>3. \A j \in 1..Job : FileAndLog(FileOf(j), LogOf(j))'
    BY <1>1, <1>2 DEF CInv, ChainFiles
  <1>4. \A j \in 1..(Job - 1) : j \in 1..Job /\ j # Job /\ j + 1 \in 1..Job
    BY <1>2
  <1>5. \A j \in 1..(Job - 1) :
           (FileOf(j + 1) = Filter(FileOf(j), WorkIds(LogOf(j), past[j].redo)))'
    BY <1>1, <1>4 DEF CInv, ChainFiles
  <1>6. \A j, m \in 1..Job : j < m => (Items(FileOf(m)) \subseteq Kept(j))'
    <2> SUFFICES ASSUME NEW j \in 1..Job, NEW m \in 1..Job, j < m
                 PROVE  (Items(FileOf(m)) \subseteq Kept(j))'
      OBVIOUS
    <2>1. j # Job
      BY <1>2
    <2>2. Kept(j)' = Kept(j) /\ Items(FileOf(m))' = Items(FileOf(m))
      BY <1>1, <2>1 DEF Items
    <2> QED
      BY <2>2 DEF CInv, ChainFiles
  <1> QED
    BY <1>1, <1>3, <1>5, <1>6 DEF ChainFiles

\* What the jobs before the last one wrote.
LEMMA PastOutputStays ==
    ASSUME CInv, UNCHANGED <<workfile, past>>,
           \/ output' = output
           \/ \E e : e.job = Job /\ output' = Append(output, e),
           JobOutput(Job, workfile, log', output')
    PROVE  \A j \in 1..Job' : JobOutput(j, FileOf(j), LogOf(j), output)'
  <1>1. /\ Job' = Job
        /\ \A j : FileOf(j)' = FileOf(j)
        /\ \A j : j # Job => LogOf(j)' = LogOf(j)
        /\ LogOf(Job)' = log'
    BY SameJob
  <1>2. Appendable(output) /\ FileOf(Job) = workfile
    BY JobIsLast
  <1> SUFFICES ASSUME NEW j \in 1..Job
               PROVE  JobOutput(j, FileOf(j)', LogOf(j)', output')
    BY <1>1
  <1>3. CASE j = Job
    BY <1>1, <1>2, <1>3
  <1>4. CASE j # Job
    <2>1. JobOutput(j, FileOf(j), LogOf(j), output)
      BY DEF CInv, ChainOutput
    <2>2. JobOutput(j, FileOf(j), LogOf(j), output')
      BY <1>2, <1>4, <2>1, OtherJobWrites
    <2> QED
      BY <1>1, <1>4, <2>2
  <1> QED
    BY <1>3, <1>4

LEMMA ChainInit == Init => CInv
  <1> SUFFICES ASSUME Init
               PROVE  CInv
    OBVIOUS
  <1> USE DEF Init
  <1>1. NumItems \in Nat /\ MaxJobs \in Nat \ {0}
    BY ResumeAssumption
  <1>2. Job = 1 /\ past \in Seq(PastJob)
    BY DEF Job
  <1>3. /\ workfile \in Seq(Place) /\ Len(workfile) = NumItems
        /\ DOMAIN workfile = Place /\ \A i \in Place : workfile[i] = i
    BY <1>1 DEF Place
  <1>4. FileAndLog(workfile, log)
    <2>1. Distinct(workfile)
      BY <1>3 DEF Distinct
    <2> QED
      BY <1>1, <1>3, <2>1, EmptyLog DEF FileAndLog
  <1>5. ChainShape
    BY <1>1, <1>2, <1>3 DEF ChainShape, ExitStatus
  <1>6. ChainFiles
    BY <1>2, <1>4 DEF ChainFiles, FileOf, LogOf
  <1>7. Unlogged(Job, workfile, log, output) = {}
    BY DEF Unlogged
  <1>8. JobOutput(Job, workfile, log, output)
    BY <1>7 DEF JobOutput, Lines
  <1>9. ChainOutput
    BY <1>2, <1>7, <1>8 DEF ChainOutput, FileOf, LogOf
  <1> QED
    BY <1>5, <1>6, <1>9 DEF CInv

\* Nothing is written or logged.
LEMMA QuietKeeps ==
    ASSUME CInv, UNCHANGED <<workfile, log, current, output, past>>,
           nr_items' <= Len(workfile),
           \/ server = "loop" /\ server' = "sent"
           \/ server' \in {"ended", "nothing_left", "resume_raised"}
    PROVE  CInv'
  <1>1. Job' = Job
    BY SameJob
  <1>2. ChainShape'
    BY <1>1 DEF CInv, ChainShape
  <1>3. FileAndLog(workfile, log) /\ JobOutput(Job, workfile, log, output)
    BY JobIsLast
  <1>4. ChainFiles'
    BY <1>3, FilesStay
  <1>5. \A j \in 1..Job' : JobOutput(j, FileOf(j), LogOf(j), output)'
    BY <1>3, PastOutputStays
  <1>6. ChainOutput'
    BY <1>1, <1>5 DEF CInv, ChainOutput
  <1> QED
    BY <1>2, <1>4, <1>6 DEF CInv

LEMMA ChainLogStarted ==
    ASSUME CInv, RInv, LogStarted
    PROVE  CInv'
  <1>1. /\ server = "sent" /\ server' = "loop" /\ log' = Append(log, Started(nr_items))
        /\ UNCHANGED <<workfile, nr_items, current, output, past>>
    BY DEF LogStarted
  <1>2. /\ FileAndLog(workfile, log) /\ JobOutput(Job, workfile, log, output)
        /\ Job' = Job
    BY <1>1, JobIsLast, SameJob
  <1>3. nr_items \in DOMAIN workfile
    <2>1. nr_items \in Nat /\ nr_items # 0
      BY <1>1 DEF RInv, Shape, InLoop
    <2>2. nr_items <= Len(workfile)
      BY DEF CInv, ChainShape
    <2>3. DOMAIN workfile = 1..Len(workfile)
      BY <1>2 DEF FileAndLog
    <2>4. Len(workfile) \in Nat
      BY <1>2 DEF FileAndLog
    <2> QED
      BY <2>1, <2>2, <2>3, <2>4
  <1>4. /\ FileAndLog(workfile, log') /\ JobOutput(Job, workfile, log', output)
        /\ Unlogged(Job, workfile, log', output) = Unlogged(Job, workfile, log, output)
    BY <1>1, <1>2, <1>3, JobLogsStarted
  <1>5. Unlogged(Job, workfile, log', output) = {}
    BY <1>1, <1>4 DEF CInv, ChainOutput
  <1>6. ChainShape'
    BY <1>1, <1>2 DEF CInv, ChainShape
  <1>7. ChainFiles'
    BY <1>1, <1>4, FilesStay
  <1>8. \A j \in 1..Job' : JobOutput(j, FileOf(j), LogOf(j), output)'
    BY <1>1, <1>4, PastOutputStays
  <1>9. ChainOutput'
    BY <1>1, <1>2, <1>5, <1>8 DEF ChainOutput
  <1> QED
    BY <1>6, <1>7, <1>9 DEF CInv

LEMMA ChainWriteResult ==
    ASSUME CInv, RInv, NEW id \in under_way, NEW status \in ExitStatus,
           WriteResult(id, status)
    PROVE  CInv'
  <1> DEFINE e == [job |-> Job, item |-> workfile[id], status |-> status]
  <1>1. /\ server = "loop" /\ server' = "written" /\ output' = Append(output, e)
        /\ current' = [id |-> id, status |-> status]
        /\ UNCHANGED <<workfile, nr_items, log, past>>
    BY DEF WriteResult
  <1>2. /\ FileAndLog(workfile, log) /\ JobOutput(Job, workfile, log, output)
        /\ Appendable(output) /\ Job' = Job /\ Job \in Nat /\ Job \in 1..Job
        /\ Job = Len(past) + 1
    BY <1>1, JobIsLast, SameJob
  <1>3. /\ id \in KnownIds(log) /\ id \notin DoneIds(log)
    BY <1>1 DEF RInv, Accounts, InLoop
  <1>4. id \in DOMAIN workfile /\ id \in 0..NumItems /\ workfile[id] \in Place
    <2>1. id \in DOMAIN workfile /\ workfile \in Seq(Place) /\ Len(workfile) <= NumItems
      BY <1>2, <1>3 DEF FileAndLog
    <2>2. DOMAIN workfile = 1..Len(workfile) /\ Len(workfile) \in Nat /\ workfile[id] \in Place
      BY <2>1
    <2> QED
      BY <2>1, <2>2, ResumeAssumption
  <1>5. Unlogged(Job, workfile, log, output) = {}
    BY <1>1 DEF CInv, ChainOutput
  <1>6. e.job = Job /\ e.item = workfile[id] /\ e.status = status
    OBVIOUS
  <1>7. e \in Result
    <2>1. Job \in 1..MaxJobs
      <3>1. Len(past) < MaxJobs /\ past \in Seq(PastJob)
        BY DEF CInv, ChainShape
      <3>2. Len(past) \in Nat
        BY <3>1
      <3> QED
        BY <1>2, <3>1, <3>2, ResumeAssumption
    <2> QED
      BY <1>4, <2>1 DEF Result
  <1> HIDE DEF e
  <1>8. /\ JobOutput(Job, workfile, log, output')
        /\ \A k \in Unlogged(Job, workfile, log, output') : output'[k] = e
    <2>1. NotYetDone(Job, workfile, log, output, id, e)
      BY <1>2, <1>3, <1>4, <1>5, <1>6 DEF NotYetDone
    <2>2. JobOutput(Job, workfile, log, Append(output, e))
      BY <1>2, <2>1, JobWrites
    <2>3. UnloggedIs(Job, workfile, log, Append(output, e), e)
      BY <1>2, <2>1, JobWrites
    <2> QED
      BY <1>1, <2>2, <2>3 DEF UnloggedIs
  <1>9. ChainShape'
    <2>1. output \in Seq(Result) /\ \A k \in DOMAIN output : output[k].job <= Job
      BY DEF CInv, ChainShape
    <2>2. output' \in Seq(Result)
      BY <1>1, <1>7, <2>1, AppendProperties
    <2>3. \A k \in DOMAIN output' : output'[k].job <= Job
      <3>1. /\ DOMAIN output' = DOMAIN output \cup {Len(output) + 1}
            /\ output'[Len(output) + 1] = e
            /\ \A k \in DOMAIN output : output'[k] = output[k]
        BY <1>1, <1>2, AppendedAt
      <3>2. Job <= Job
        BY <1>2
      <3> QED
        BY <1>6, <2>1, <3>1, <3>2
    <2>4. current' \in [id : 0..NumItems, status : ExitStatus]
      BY <1>1, <1>4
    <2> QED
      BY <1>1, <1>2, <2>2, <2>3, <2>4 DEF CInv, ChainShape
  <1>10. ChainFiles'
    BY <1>1, <1>2, FilesStay
  <1>11. \A j \in 1..Job' : JobOutput(j, FileOf(j), LogOf(j), output)'
    <2>1. JobOutput(Job, workfile, log', output')
      BY <1>1, <1>8
    <2> QED
      BY <1>1, <1>6, <2>1, PastOutputStays
  <1>12. ChainOutput'
    <2>1. current'.id = id /\ current'.status = status
      BY <1>1
    <2>2. \A k \in Unlogged(Job, workfile, log, output') :
             output'[k].item = workfile[id] /\ output'[k].status = status
      BY <1>6, <1>8
    <2> QED
      BY <1>1, <1>2, <1>11, <2>1, <2>2 DEF ChainOutput
  <1> QED
    BY <1>9, <1>10, <1>12 DEF CInv

LEMMA ChainLogDone ==
    ASSUME CInv, RInv, LogDone
    PROVE  CInv'
  <1>1. /\ server = "written" /\ server' \in {"ended", "loop"}
        /\ log' = Append(log, Done(current.id, current.status))
        /\ UNCHANGED <<workfile, nr_items, current, output, past>>
    BY DEF LogDone
  <1>2. /\ FileAndLog(workfile, log) /\ JobOutput(Job, workfile, log, output)
        /\ Job' = Job
    BY <1>1, JobIsLast, SameJob
  <1>3. /\ current.id \in KnownIds(log) \ DoneIds(log) /\ current.status \in ExitStatus
        /\ InOutput(current.id, current.status)
    BY <1>1 DEF RInv, Accounts, InLoop
  <1>4. \A k \in Unlogged(Job, workfile, log, output) :
           output[k].item = workfile[current.id] /\ output[k].status = current.status
    BY <1>1 DEF CInv, ChainOutput
  <1>5. /\ FileAndLog(workfile, log') /\ JobOutput(Job, workfile, log', output)
        /\ Unlogged(Job, workfile, log', output) = {}
    BY <1>1, <1>2, <1>3, <1>4, JobLogsDone DEF InOutput
  <1>6. ChainShape'
    BY <1>1, <1>2 DEF CInv, ChainShape
  <1>7. ChainFiles'
    BY <1>1, <1>5, FilesStay
  <1>8. \A j \in 1..Job' : JobOutput(j, FileOf(j), LogOf(j), output)'
    BY <1>1, <1>5, PastOutputStays
  <1>9. ChainOutput'
    BY <1>1, <1>2, <1>5, <1>8 DEF ChainOutput
  <1> QED
    BY <1>6, <1>7, <1>9 DEF CInv

\* A resumption makes the last job a past one and leaves the others alone.
LEMMA NewJob ==
    ASSUME CInv, NEW redo \in BOOLEAN, Resume(redo)
    PROVE  /\ past' \in Seq(PastJob) /\ Job' = Job + 1
           /\ \A j \in 1..Job : FileOf(j)' = FileOf(j) /\ LogOf(j)' = LogOf(j)
           /\ \A j \in 1..(Job - 1) : past'[j] = past[j]
           /\ past'[Job].redo = redo
           /\ \A j : j = Job + 1 => FileOf(j)' = workfile' /\ LogOf(j)' = <<>>
  <1> DEFINE r == [workfile |-> workfile, log |-> log, redo |-> redo]
  <1>1. past' = Append(past, r) /\ log' = <<>>
    BY DEF Resume
  <1>2. /\ past \in Seq(PastJob) /\ Job \in Nat /\ Job = Len(past) + 1
        /\ Len(past) \in Nat /\ Job - 1 = Len(past)
    <2>1. past \in Seq(PastJob)
      BY DEF CInv, ChainShape
    <2> QED
      BY <2>1, LenProperties, JobIsLast
  <1>3. r \in PastJob
    BY JobIsLast DEF PastJob, FileAndLog
  <1>4. r.workfile = workfile /\ r.log = log /\ r.redo = redo
    OBVIOUS
  <1> HIDE DEF r
  <1>5. /\ past' \in Seq(PastJob) /\ Len(past') = Job
        /\ \A j \in 1..(Job - 1) : past'[j] = past[j]
        /\ past'[Job] = r
    BY <1>1, <1>2, <1>3, AppendProperties
  <1>6. Job' = Job + 1
    BY <1>5 DEF Job
  <1>7. \A j \in 1..Job : FileOf(j)' = FileOf(j) /\ LogOf(j)' = LogOf(j)
    <2> SUFFICES ASSUME NEW j \in 1..Job
                 PROVE  FileOf(j)' = FileOf(j) /\ LogOf(j)' = LogOf(j)
      OBVIOUS
    <2>1. j # Job'
      BY <1>2, <1>6
    <2>2. FileOf(j)' = past'[j].workfile /\ LogOf(j)' = past'[j].log
      BY <2>1 DEF FileOf, LogOf
    <2>3. CASE j = Job
      BY <1>4, <1>5, <2>2, <2>3 DEF FileOf, LogOf
    <2>4. CASE j # Job
      <3>1. j \in 1..(Job - 1)
        BY <1>2, <2>4
      <3> QED
        BY <1>5, <2>2, <2>4, <3>1 DEF FileOf, LogOf
    <2> QED
      BY <2>3, <2>4
  <1>8. \A j : j = Job + 1 => FileOf(j)' = workfile' /\ LogOf(j)' = <<>>
    BY <1>1, <1>6 DEF FileOf, LogOf
  <1> QED
    BY <1>4, <1>5, <1>6, <1>7, <1>8

LEMMA ChainResume ==
    ASSUME CInv, NEW redo \in BOOLEAN, Resume(redo)
    PROVE  CInv'
  <1> DEFINE ids == WorkIds(log, redo)
  <1>0. PICK n : n = Job + 1
    OBVIOUS
  <1>1. /\ Job < MaxJobs /\ server' = "loop" /\ nr_items' = 0 /\ log' = <<>>
        /\ workfile' = Filter(workfile, ids) /\ output' = output
        /\ current' = [id |-> 0, status |-> 0]
    BY DEF Resume
  <1>2. /\ past' \in Seq(PastJob) /\ Job' = n
        /\ \A j \in 1..Job : FileOf(j)' = FileOf(j) /\ LogOf(j)' = LogOf(j)
        /\ \A j \in 1..(Job - 1) : past'[j] = past[j]
        /\ past'[Job].redo = redo
        /\ FileOf(n)' = workfile' /\ LogOf(n)' = <<>>
    BY <1>0, NewJob
  <1>3. /\ Job \in Nat /\ Job \in 1..Job /\ FileOf(Job) = workfile /\ LogOf(Job) = log
        /\ FileAndLog(workfile, log)
    BY JobIsLast
  <1>4. /\ workfile' \in Seq(Place) /\ Distinct(workfile') /\ Len(workfile') <= Len(workfile)
        /\ Items(workfile') = {workfile[i] : i \in ids \cap 1..(Len(workfile) - 1)}
    BY <1>1, <1>3, FilterKeeps DEF FileAndLog
  <1>5. /\ Len(workfile) \in Nat /\ Len(workfile') \in Nat /\ Len(workfile) <= NumItems
        /\ DOMAIN workfile = 1..Len(workfile)
    BY <1>3, <1>4, LenProperties DEF FileAndLog
  <1>6. FileAndLog(workfile', <<>>)
    <2>1. Len(workfile') <= NumItems
      BY <1>4, <1>5, ResumeAssumption
    <2> QED
      BY <1>4, <2>1, EmptyLog DEF FileAndLog
  <1>7. /\ Items(workfile') \subseteq Items(workfile)
        /\ Items(workfile') \subseteq {workfile[i] : i \in ids}
    <2>1. \A i \in ids \cap 1..(Len(workfile) - 1) : i \in DOMAIN workfile /\ i \in ids
      BY <1>5
    <2>2. Items(workfile) = {workfile[i] : i \in DOMAIN workfile}
      BY DEF Items
    <2> QED
      BY <1>4, <2>1, <2>2
  <1> HIDE DEF ids
  <1>8. n = Job + 1 /\ \A j \in 1..n : j = n \/ j \in 1..Job
    BY <1>0, <1>3
  <1>9. ChainShape'
    <2>1. Len(past') < MaxJobs
      <3>1. Len(past') \in Nat /\ Len(past') + 1 = Job + 1
        BY <1>2, <1>8, LenProperties DEF Job
      <3> QED
        BY <1>1, <1>3, <3>1, ResumeAssumption
    <2>2. \A k \in DOMAIN output : output[k].job <= n
      <3>1. \A k \in DOMAIN output : output[k].job <= Job
        BY DEF CInv, ChainShape
      <3>2. \A k \in DOMAIN output : output[k].job \in Int
        <4>1. output \in Seq(Result)
          BY DEF CInv, ChainShape
        <4>2. \A k \in DOMAIN output : output[k] \in Result
          BY <4>1
        <4> QED
          BY <4>2, ResumeAssumption DEF Result
      <3> QED
        BY <1>3, <1>8, <3>1, <3>2
    <2>3. current' \in [id : 0..NumItems, status : ExitStatus]
      BY <1>1, ResumeAssumption DEF ExitStatus
    <2> QED
      BY <1>1, <1>2, <1>5, <2>1, <2>2, <2>3 DEF CInv, ChainShape
  <1>10. \A j \in 1..n : FileAndLog(FileOf(j)', LogOf(j)')
    <2> SUFFICES ASSUME NEW j \in 1..n
                 PROVE  FileAndLog(FileOf(j)', LogOf(j)')
      OBVIOUS
    <2>1. CASE j = n
      BY <1>2, <1>6, <2>1
    <2>2. CASE j \in 1..Job
      BY <1>2, <2>2 DEF CInv, ChainFiles
    <2> QED
      BY <1>8, <2>1, <2>2
  <1>11. ASSUME NEW j \in 1..Job
         PROVE  (FileOf(j + 1) = Filter(FileOf(j), WorkIds(LogOf(j), past[j].redo)))'
    <2>1. CASE j = Job
      BY <1>1, <1>2, <1>3, <1>8, <2>1 DEF ids
    <2>2. CASE j # Job
      <3>1. j \in 1..(Job - 1) /\ j + 1 \in 1..Job
        BY <1>3, <2>2
      <3>2. FileOf(j + 1) = Filter(FileOf(j), WorkIds(LogOf(j), past[j].redo))
        BY <3>1 DEF CInv, ChainFiles
      <3>3. FileOf(j + 1)' = FileOf(j + 1) /\ FileOf(j)' = FileOf(j) /\ LogOf(j)' = LogOf(j)
        BY <1>2, <3>1
      <3>4. past'[j] = past[j]
        BY <1>2, <3>1
      <3> QED
        BY <3>2, <3>3, <3>4
    <2> QED
      BY <2>1, <2>2
  <1>12. ASSUME NEW j \in 1..n, NEW m \in 1..n, j < m
         PROVE  (Items(FileOf(m)) \subseteq Kept(j))'
    <2>1. j \in 1..Job
      BY <1>3, <1>8, <1>12
    <2>2. CASE j = Job
      <3>1. m = n
        BY <1>3, <1>8, <1>12, <2>2
      <3>2. Kept(j)' = {workfile[i] : i \in ids}
        BY <1>2, <1>3, <2>2 DEF Kept, ids
      <3> QED
        BY <1>2, <1>7, <3>1, <3>2 DEF Items
    <2>3. CASE j # Job
      <3>1. j \in 1..(Job - 1) /\ j < Job
        BY <1>3, <2>1, <2>3
      <3>2. past'[j] = past[j]
        BY <1>2, <3>1
      <3>3. Kept(j)' = Kept(j)
        BY <1>2, <2>1, <3>2 DEF Kept
      <3>4. CASE m = n
        <4>1. Items(workfile) \subseteq Kept(j)
          BY <1>3, <3>1 DEF CInv, ChainFiles
        <4> QED
          BY <1>2, <1>7, <3>3, <3>4, <4>1 DEF Items
      <3>5. CASE m \in 1..Job
        <4>1. Items(FileOf(m)) \subseteq Kept(j)
          BY <1>12, <2>1, <3>5 DEF CInv, ChainFiles
        <4>2. Items(FileOf(m))' = Items(FileOf(m))
          BY <1>2, <3>5 DEF Items
        <4> QED
          BY <3>3, <4>1, <4>2
      <3> QED
        BY <1>8, <3>4, <3>5
    <2> QED
      BY <2>2, <2>3
  <1>13. ChainFiles'
    <2>1. Job' = n /\ \A j \in 1..(Job' - 1) : j \in 1..Job
      BY <1>2, <1>3, <1>8
    <2>2. \A j \in 1..Job' : FileAndLog(FileOf(j), LogOf(j))'
      BY <1>10, <2>1
    <2> QED
      BY <1>11, <1>12, <2>1, <2>2 DEF ChainFiles
  <1>14. \A k \in DOMAIN output : output[k].job # n
    <2>1. \A k \in DOMAIN output : output[k].job <= Job
      BY DEF CInv, ChainShape
    <2> QED
      BY <1>3, <1>8, <2>1
  <1>15. Unlogged(n, workfile', <<>>, output) = {}
    BY <1>14 DEF Unlogged
  <1>16. JobOutput(n, workfile', <<>>, output)
    BY <1>14, <1>15 DEF JobOutput, Lines
  <1>17. \A j \in 1..Job' : JobOutput(j, FileOf(j), LogOf(j), output)'
    <2> SUFFICES ASSUME NEW j \in 1..n
                 PROVE  JobOutput(j, FileOf(j)', LogOf(j)', output)
      BY <1>1, <1>2
    <2>1. CASE j = n
      BY <1>2, <1>16, <2>1
    <2>2. CASE j \in 1..Job
      BY <1>2, <2>2 DEF CInv, ChainOutput
    <2> QED
      BY <1>8, <2>1, <2>2
  <1>18. ChainOutput'
    BY <1>1, <1>2, <1>15, <1>17 DEF ChainOutput
  <1> QED
    BY <1>9, <1>13, <1>18 DEF CInv

LEMMA ChainNext == CInv /\ RInv /\ [Next]_vars => CInv'
  <1> SUFFICES ASSUME CInv, RInv, [Next]_vars
               PROVE  CInv'
    OBVIOUS
  <1>0. nr_items <= Len(workfile) /\ Len(workfile) \in Nat /\ nr_items \in Nat
    BY JobIsLast DEF CInv, ChainShape, FileAndLog, RInv, Shape
  <1>1. CASE SendWork
    <2>1. nr_items' <= Len(workfile)
      BY <1>0, <1>1 DEF SendWork, HasNext
    <2> QED
      BY <1>1, <2>1, QuietKeeps DEF SendWork
  <1>2. CASE LogStarted
    BY <1>2, ChainLogStarted
  <1>3. ASSUME NEW id \in under_way, NEW status \in ExitStatus, WriteResult(id, status)
        PROVE  CInv'
    BY <1>3, ChainWriteResult
  <1>4. CASE LogDone
    BY <1>4, ChainLogDone
  <1>5. CASE EndOfNothing \/ Kill \/ ResumeNothingStarted
    BY <1>0, <1>5, QuietKeeps DEF EndOfNothing, Kill, ResumeNothingStarted
  <1>6. ASSUME NEW redo \in BOOLEAN, ResumeNothingLeft(redo)
        PROVE  CInv'
    BY <1>0, <1>6, QuietKeeps DEF ResumeNothingLeft
  <1>7. ASSUME NEW redo \in BOOLEAN, Resume(redo)
        PROVE  CInv'
    BY <1>7, ChainResume
  <1>8. CASE UNCHANGED vars
    <2> USE <1>8 DEF vars, jobVars
    <2>1. FileAndLog(workfile, log) /\ JobOutput(Job, workfile, log, output)
      BY JobIsLast
    <2>2. ChainFiles' /\ \A j \in 1..Job' : JobOutput(j, FileOf(j), LogOf(j), output)'
      BY <2>1, FilesStay, PastOutputStays
    <2>3. Job' = Job
      BY SameJob
    <2> QED
      BY <2>2, <2>3 DEF CInv, ChainShape, ChainOutput
  <1> QED
    BY <1>1, <1>2, <1>3, <1>4, <1>5, <1>6, <1>7, <1>8 DEF Next, ServerStep

THEOREM ChainInvariance == Spec => []CInv
  BY ChainInit, ChainNext, ReportInvariance, PTL DEF Spec

-----------------------------------------------------------------------------
(* What follows for the user of wresume.                                   *)

\* The types of all variables, for any number of items and of jobs.
THEOREM TypesHold == Spec => []TypeOK
  <1>1. ASSUME CInv, RInv
        PROVE  TypeOK
    <2>1. /\ workfile \in Seq(Place) /\ DOMAIN workfile = 1..Len(workfile)
          /\ Len(workfile) <= NumItems /\ Len(workfile) \in Nat
          /\ KnownIds(log) \subseteq DOMAIN workfile /\ DoneIds(log) \subseteq KnownIds(log)
          /\ log \in Seq(LogLine)
      BY <1>1, JobIsLast, LenProperties DEF FileAndLog
    <2>2. nr_items \in 0..Len(workfile)
      BY <1>1, <2>1 DEF CInv, ChainShape, RInv, Shape
    <2> DEFINE PlaceLine == [event : {"started", "done"}, id : Place, status : ExitStatus]
    <2>3. log \in Seq(PlaceLine)
      <3>1. \A k \in DOMAIN log : log[k] \in LogLine
        BY <2>1
      <3>2. \A k \in DOMAIN log : log[k].id \in KnownIds(log)
        BY <2>1, <3>1 DEF KnownIds, DoneIds, Lines, LogLine
      <3>3. \A i \in DOMAIN workfile : i \in Place
        BY <2>1, ResumeAssumption DEF Place
      <3>4. \A k \in DOMAIN log : log[k] \in PlaceLine
        BY <2>1, <3>1, <3>2, <3>3 DEF LogLine
      <3>5. Len(log) \in Nat /\ DOMAIN log = 1..Len(log) /\ log = [k \in 1..Len(log) |-> log[k]]
        BY <2>1
      <3> HIDE DEF PlaceLine
      <3> QED
        BY <3>4, <3>5
    <2>4. /\ server \in {"loop", "sent", "written", "ended", "nothing_left", "resume_raised"}
          /\ current \in [id : 0..NumItems, status : ExitStatus]
          /\ output \in Seq([job : 1..MaxJobs, item : Place, status : ExitStatus])
          /\ Len(past) < MaxJobs
      BY <1>1 DEF CInv, ChainShape, Result
    <2> QED
      BY <1>1, <2>1, <2>2, <2>3, <2>4 DEF TypeOK, RInv, Shape
  <1> QED
    BY <1>1, ChainInvariance, ReportInvariance, PTL

\* Whatever the jobs' ends and the resumptions, an item that a log reports as done
\* is not executed by a later job, except a failure that --redo asked for.
THEOREM NothingIsReworked == Spec => []NoRework
  <1>1. ASSUME CInv
        PROVE  NoRework
    <2> SUFFICES ASSUME NEW j \in 1..Job, NEW x \in Lines(LogOf(j)), x.event = "done",
                        x.status = 0 \/ (j < Job /\ ~past[j].redo),
                        NEW k \in DOMAIN output, output[k].job > j,
                        output[k].item = FileOf(j)[x.id]
                 PROVE  FALSE
      BY DEF NoRework
    <2> DEFINE w == FileOf(j)
               l == LogOf(j)
               m == output[k].job
    <2>1. m \in 1..Job /\ j < m /\ m \in Nat
      <3>1. m <= Job /\ output[k] \in Result
        BY <1>1 DEF CInv, ChainShape
      <3>2. m \in 1..MaxJobs
        BY <3>1 DEF Result
      <3> QED
        BY <1>1, <3>1, <3>2, JobIsLast, ResumeAssumption
    <2>2. FileAndLog(w, l)
      BY <1>1 DEF CInv, ChainFiles
    <2>3. w[x.id] \in Items(FileOf(m))
      BY <1>1, <2>1 DEF CInv, ChainOutput, JobOutput
    <2>4. w[x.id] \in Kept(j)
      BY <1>1, <2>1, <2>3 DEF CInv, ChainFiles
    <2>5. PICK i \in WorkIds(l, past[j].redo) : w[x.id] = w[i]
      BY <2>4 DEF Kept
    <2>6. x.id \in DoneIds(l) /\ DoneIds(l) \subseteq KnownIds(l) /\ KnownIds(l) \subseteq DOMAIN w
      BY <2>2 DEF DoneIds, FileAndLog
    <2>7. WorkIds(l, past[j].redo) \subseteq KnownIds(l)
      BY <2>6, SuccessesAreDone DEF WorkIds, Incompletes
    <2>8. i = x.id
      BY <2>2, <2>5, <2>6, <2>7 DEF FileAndLog, Distinct
    <2>9. past[j].redo /\ x.id \in Failures(l)
      BY <2>5, <2>6, <2>8 DEF WorkIds, Incompletes
    <2>10. x.id \notin Successes(l)
      BY <2>2, <2>9 DEF FileAndLog
    <2>11. x.status # 0
      BY <2>10 DEF Successes
    <2> QED
      BY <2>9, <2>11
  <1> QED
    BY <1>1, ChainInvariance, PTL

\* What a resumption leaves out of the new workfile was reported done, was never
\* reported as started, or was the last item of the file.
THEOREM LossIsExplained == Spec => []LossExplained
  <1>1. ASSUME CInv
        PROVE  LossExplained
    <2> SUFFICES ASSUME NEW j \in 1..(Job - 1), NEW i \in DOMAIN FileOf(j),
                        i \notin DoneIds(LogOf(j)), i \in KnownIds(LogOf(j)),
                        i # Len(FileOf(j))
                 PROVE  FileOf(j)[i] \in Items(FileOf(j + 1))
      BY DEF LossExplained
    <2> DEFINE w == FileOf(j)
               ids == WorkIds(LogOf(j), past[j].redo)
    <2>1. j \in 1..Job
      BY <1>1, JobIsLast
    <2>2. w \in Seq(Place) /\ Distinct(w)
      BY <1>1, <2>1 DEF CInv, ChainFiles, FileAndLog
    <2>3. FileOf(j + 1) = Filter(w, ids)
      BY <1>1 DEF CInv, ChainFiles
    <2>4. Items(Filter(w, ids)) = {w[k] : k \in ids \cap 1..(Len(w) - 1)}
      BY <2>2, FilterKeeps
    <2>5. i \in ids
      BY DEF WorkIds, Incompletes
    <2>6. i \in 1..(Len(w) - 1)
      BY <2>2, LenProperties
    <2> QED
      BY <2>3, <2>4, <2>5, <2>6
  <1> QED
    BY <1>1, ChainInvariance, PTL

\* The logged results of a job are as many as the ids that its log reports done.
LEMMA LoggedAreDone ==
    ASSUME NEW j, NEW w, NEW l, NEW out, FileAndLog(w, l), JobOutput(j, w, l, out)
    PROVE  Cardinality({k \in DOMAIN out : out[k].job = j /\ Reports(w, l, out[k])}) =
              Cardinality(DoneIds(l))
  <1> DEFINE K == {k \in DOMAIN out : out[k].job = j /\ Reports(w, l, out[k])}
             D == DoneIds(l)
             IdOf(k) == CHOOSE i \in D : w[i] = out[k].item
  <1>1. IsFiniteSet(D) /\ D \subseteq DOMAIN w
    <2>1. w \in Seq(Place) /\ D \subseteq DOMAIN w
      BY DEF FileAndLog
    <2>2. DOMAIN w = 1..Len(w) /\ Len(w) \in Int
      BY <2>1, LenProperties
    <2>3. IsFiniteSet(DOMAIN w)
      BY <2>2, FS_Interval
    <2> QED
      BY <2>1, <2>3, FS_Subset
  <1>2. \A k \in K : IdOf(k) \in D /\ w[IdOf(k)] = out[k].item
    <2> SUFFICES ASSUME NEW k \in K
                 PROVE  \E i \in D : w[i] = out[k].item
      BY Zenon
    <2>1. PICK x \in Lines(l) : x.event = "done" /\ w[x.id] = out[k].item
      BY DEF Reports
    <2>2. x.id \in D
      BY <2>1 DEF DoneIds
    <2> QED
      BY <2>1, <2>2
  <1>3. PICK g : g = [k \in K |-> IdOf(k)]
    OBVIOUS
  <1>4. g \in [K -> D] /\ \A k \in K : w[g[k]] = out[k].item
    BY <1>2, <1>3
  <1> HIDE DEF IdOf, D
  <1>5. \A k, m \in K : g[k] = g[m] => k = m
    BY <1>4 DEF JobOutput
  <1>6. \A i \in D : \E k \in K : g[k] = i
    <2> SUFFICES ASSUME NEW i \in D
                 PROVE  \E k \in K : g[k] = i
      OBVIOUS
    <2>1. PICK x \in Lines(l) : x.event = "done" /\ x.id = i
      BY DEF D, DoneIds
    <2>2. PICK k \in DOMAIN out : out[k].job = j /\ out[k].item = w[i] /\ out[k].status = x.status
      BY <2>1 DEF JobOutput
    <2>3. k \in K
      BY <2>1, <2>2 DEF Reports
    <2>4. g[k] \in D /\ w[g[k]] = w[i]
      BY <1>4, <2>2, <2>3
    <2>5. g[k] = i
      BY <1>1, <2>4 DEF FileAndLog, Distinct
    <2> QED
      BY <2>3, <2>5
  <1> HIDE DEF K
  <1>7. Cardinality(K) = Cardinality(D)
    BY <1>1, <1>4, <1>5, <1>6, SameSize
  <1> QED
    BY <1>7 DEF K, D

\* The log never runs ahead of the output, and at most one result of each job is
\* written and not logged, however the job ended.
THEOREM OutputThenLog == Spec => []LogFollowsOutput
  <1>1. ASSUME CInv
        PROVE  LogFollowsOutput
    <2> SUFFICES ASSUME NEW j \in 1..Job
                 PROVE  LET written == {k \in DOMAIN output : output[k].job = j}
                            Logged(k) == \E x \in Lines(LogOf(j)) :
                                            /\ x.event = "done"
                                            /\ x.status = output[k].status
                                            /\ FileOf(j)[x.id] = output[k].item
                        IN /\ Cardinality(DoneIds(LogOf(j))) =
                                 Cardinality({k \in written : Logged(k)})
                           /\ Cardinality({k \in written : ~Logged(k)}) <= 1
      BY Zenon DEF LogFollowsOutput
    <2> DEFINE w == FileOf(j)
               l == LogOf(j)
               written == {k \in DOMAIN output : output[k].job = j}
               Logged(k) == \E x \in Lines(l) : /\ x.event = "done"
                                                /\ x.status = output[k].status
                                                /\ w[x.id] = output[k].item
    <2>1. FileAndLog(w, l) /\ JobOutput(j, w, l, output)
      BY <1>1 DEF CInv, ChainFiles, ChainOutput
    <2>2. \A k : Logged(k) <=> Reports(w, l, output[k])
      BY DEF Reports
    <2> HIDE DEF w, l, Logged
    <2>3. {k \in written : Logged(k)} =
             {k \in DOMAIN output : output[k].job = j /\ Reports(w, l, output[k])}
      BY <2>2
    <2>4. {k \in written : ~Logged(k)} = Unlogged(j, w, l, output)
      BY <2>2 DEF Unlogged
    <2>5. Cardinality({k \in written : Logged(k)}) = Cardinality(DoneIds(l))
      BY <2>1, <2>3, LoggedAreDone
    <2>6. Cardinality(Unlogged(j, w, l, output)) <= 1
      <3> DEFINE U == Unlogged(j, w, l, output)
      <3>1. \A k, m \in U : k = m
        BY <2>1 DEF JobOutput
      <3> HIDE DEF U
      <3>2. CASE U = {}
        BY <3>2, FS_EmptySet DEF U
      <3>3. ASSUME NEW k \in U
            PROVE  Cardinality(U) <= 1
        <4>1. U = {k}
          BY <3>1
        <4> QED
          BY <4>1, FS_Singleton
      <3> QED
        BY <3>2, <3>3 DEF U
    <2> QED
      BY <2>4, <2>5, <2>6 DEF w, l, Logged
  <1> QED
    BY <1>1, ChainInvariance, PTL

=============================================================================
