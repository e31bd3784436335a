------------------------------- MODULE Resume -------------------------------
(***************************************************************************)
(* A job, its end at any point, and the jobs that wresume makes of what    *)
(* the log says is left (src/scripts/wresume.py.in, log_parsers.py and     *)
(* workfile_parser.py against the server's log in src/src/server.cpp).     *)
(*                                                                         *)
(* The server is modelled at the grain of its effects: an item is sent,    *)
(* then logged as started; a result is written, then logged as done.  The  *)
(* job may end between any two of them, by its walltime or otherwise.      *)
(*                                                                         *)
(* Assumption: a job has ended before wresume is called for it, as         *)
(* src/docs_user/docs/resume.md presumes.  wresume does not test that, and *)
(* would resume the items that a running job has under way.                *)
(***************************************************************************)
EXTENDS Naturals, Sequences, FiniteSets, Pick

CONSTANTS
    NumItems,   \* the number of items in the first job's workfile
    MaxJobs     \* bound: the number of jobs of a chain

ASSUME ResumeAssumption == NumItems \in Nat /\ MaxJobs \in Nat \ {0}

VARIABLES
    workfile,   \* the job's workfile: its items, named by their original place
    nr_items,   \* how many of them the server handed out
    under_way,  \* ids of the items that clients have
    server,     \* the server's place in its loop, or what became of the job
    current,    \* the id and exit status of the result being handled
    log,        \* server.log: the lines that wresume looks for
    output,     \* the output files of all jobs: what was written, by which job
    past        \* the jobs before: their workfiles and logs, and the use of --redo

jobVars == <<workfile, nr_items, under_way, server, current, log>>

vars == <<jobVars, output, past>>

Place == 1..NumItems

ExitStatus == {0, 1}

Started(id) == [event |-> "started", id |-> id, status |-> 0]

Done(id, status) == [event |-> "done", id |-> id, status |-> status]

Lines(l) == {l[k] : k \in DOMAIN l}

Items(w) == {w[k] : k \in DOMAIN w}

Job == Len(past) + 1

Init ==
    /\ workfile = [k \in Place |-> k]
    /\ nr_items = 0
    /\ under_way = {}
    /\ server = "loop"
    /\ current = [id |-> 0, status |-> 0]
    /\ log = <<>>
    /\ output = <<>>
    /\ past = <<>>

-----------------------------------------------------------------------------
(* The job.                                                                *)

HasNextOffByOne == nr_items <= Len(workfile)

HasNext == nr_items < Len(workfile)

SendWork ==
    /\ server = "loop"
    /\ HasNext
    /\ nr_items' = nr_items + 1
    /\ under_way' = under_way \cup {nr_items + 1}
    /\ server' = "sent"
    /\ UNCHANGED <<workfile, current, log, output, past>>

LogStarted ==
    /\ server = "sent"
    /\ log' = Append(log, Started(nr_items))
    /\ server' = "loop"
    /\ UNCHANGED <<workfile, nr_items, under_way, current, output, past>>

WriteResultOnSuccess(id, status) ==
    /\ server = "loop"
    /\ id \in under_way
    /\ output' = IF status = 0
                 THEN Append(output, [job |-> Job, item |-> workfile[id], status |-> status])
                 ELSE output
    /\ current' = [id |-> id, status |-> status]
    /\ server' = "written"
    /\ UNCHANGED <<workfile, nr_items, under_way, log, past>>

\* A result arrives: its output is written and flushed.
WriteResult(id, status) ==
    /\ server = "loop"
    /\ id \in under_way
    /\ output' = Append(output, [job |-> Job, item |-> workfile[id], status |-> status])
    /\ current' = [id |-> id, status |-> status]
    /\ server' = "written"
    /\ UNCHANGED <<workfile, nr_items, under_way, log, past>>

LogDone ==
    /\ server = "written"
    /\ log' = Append(log, Done(current.id, current.status))
    /\ under_way' = under_way \ {current.id}
    /\ server' = IF ~HasNext /\ under_way' = {} THEN "ended" ELSE "loop"
    /\ UNCHANGED <<workfile, nr_items, current, output, past>>

EndOfNothingOnce ==
    /\ server = "loop"
    /\ workfile = <<>>
    /\ Job = 1
    /\ server' = "ended"
    /\ UNCHANGED <<workfile, nr_items, under_way, current, log, output, past>>

\* A query at the server of an empty workfile ends the loop: the first job's may
\* be empty, and that of a resumed job is when the one item left was the last.
EndOfNothing ==
    /\ server = "loop"
    /\ ~HasNext
    /\ under_way = {}
    /\ server' = "ended"
    /\ UNCHANGED <<workfile, nr_items, under_way, current, log, output, past>>

\* The job is killed, at its walltime or before.
Kill ==
    /\ server \in {"loop", "sent", "written"}
    /\ server' = "ended"
    /\ UNCHANGED <<workfile, nr_items, under_way, current, log, output, past>>

-----------------------------------------------------------------------------
(* wresume.                                                                *)

\* WorkitemLogParser: an item exists when a line says that it was started.
KnownIds(l) == {x.id : x \in {y \in Lines(l) : y.event = "started"}}

DoneIds(l) == {x.id : x \in {y \in Lines(l) : y.event = "done"}}

Incompletes(l) == KnownIds(l) \ DoneIds(l)

FailuresAnyStatus(l) == DoneIds(l)

Failures(l) == {x.id : x \in {y \in Lines(l) : y.event = "done" /\ y.status # 0}}

Successes(l) == {x.id : x \in {y \in Lines(l) : y.event = "done" /\ y.status = 0}}

\* What wsummarize prints of the log, "no work done" standing for a summary
\* without items.
Summary(l) ==
    [success |-> Successes(l), failure |-> Failures(l), incomplete |-> Incompletes(l)]

WorkIdsAlways(l, redo) == Incompletes(l) \cup Failures(l)

WorkIds(l, redo) == Incompletes(l) \cup IF redo THEN Failures(l) ELSE {}

\* WorkfileParser.parse yields an item at the separator that follows it, and
\* no separator follows the last one.
Parsed(w) == IF w = <<>> THEN <<>> ELSE SubSeq(w, 1, Len(w) - 1)

FilterOffByOne(w, ids) == Picked(Parsed(w), {id + 1 : id \in ids})

\* filter_workfile: the items whose place in the workfile is in ids, in order.
Filter(w, ids) == Picked(Parsed(w), ids)

\* The three outcomes of wresume; server = "ended" is the assumption above.

\* No line says that an item was started: the parser returns None, whose use
\* raises an exception.
ResumeNothingStarted ==
    /\ server = "ended"
    /\ KnownIds(log) = {}
    /\ server' = "resume_raised"
    /\ UNCHANGED <<workfile, nr_items, under_way, current, log, output, past>>

ResumeNothingLeft(redo) ==
    /\ server = "ended"
    /\ KnownIds(log) # {}
    /\ WorkIds(log, redo) = {}
    /\ server' = "nothing_left"
    /\ UNCHANGED <<workfile, nr_items, under_way, current, log, output, past>>

\* A new job with a workfile of its own, which numbers its items from 1 again.
Resume(redo) ==
    /\ Job < MaxJobs
    /\ server = "ended"
    /\ WorkIds(log, redo) # {}
    /\ workfile' = Filter(workfile, WorkIds(log, redo))
    /\ past' = Append(past, [workfile |-> workfile, log |-> log, redo |-> redo])
    /\ nr_items' = 0
    /\ under_way' = {}
    /\ server' = "loop"
    /\ current' = [id |-> 0, status |-> 0]
    /\ log' = <<>>
    /\ UNCHANGED output

\* The server's loop, with clients that query and bring their results.
ServerStep ==
    \/ SendWork \/ LogStarted
    \/ \E id \in under_way, status \in ExitStatus : WriteResult(id, status)
    \/ LogDone
    \/ EndOfNothing

Next ==
    \/ ServerStep
    \/ Kill
    \/ ResumeNothingStarted
    \/ \E redo \in BOOLEAN : ResumeNothingLeft(redo) \/ Resume(redo)

Spec == Init /\ [][Next]_vars

\* A client queries again and again, and an item that it has ends in the end;
\* that a job is killed or resumed is left to chance and to the user.
FairSpec == Spec /\ WF_vars(ServerStep)

-----------------------------------------------------------------------------
\* The workfile and the log of each job of the chain.
FileOf(j) == IF j = Job THEN workfile ELSE past[j].workfile

LogOf(j) == IF j = Job THEN log ELSE past[j].log

\* Types of all variables.
TypeOK ==
    /\ workfile \in Seq(Place)
    /\ nr_items \in 0..Len(workfile)
    /\ under_way \subseteq 1..nr_items
    /\ server \in {"loop", "sent", "written", "ended", "nothing_left", "resume_raised"}
    /\ current \in [id : 0..NumItems, status : ExitStatus]
    /\ log \in Seq([event : {"started", "done"}, id : Place, status : ExitStatus])
    /\ output \in Seq([job : 1..MaxJobs, item : Place, status : ExitStatus])
    /\ Len(past) < MaxJobs

\* The log never runs ahead of the output, and at most one result per job is
\* missing from it (a job that was killed between the two writes): a resumed
\* chain repeats at most that one result.
LogFollowsOutput ==
    \A j \in 1..Job :
        LET written == {k \in DOMAIN output : output[k].job = j}
            Logged(k) == \E x \in Lines(LogOf(j)) :
                            /\ x.event = "done"
                            /\ x.status = output[k].status
                            /\ FileOf(j)[x.id] = output[k].item
        IN /\ Cardinality(DoneIds(LogOf(j))) = Cardinality({k \in written : Logged(k)})
           /\ Cardinality({k \in written : ~Logged(k)}) <= 1

\* An item that a log reports as done is not executed again by any later job,
\* except a failure that --redo asked for: the id of a line is translated through
\* the workfile of its own job, however often the items were numbered anew.
NoRework ==
    \A j \in 1..Job : \A x \in Lines(LogOf(j)) :
        x.event = "done" /\ (x.status = 0 \/ (j < Job /\ ~past[j].redo)) =>
            ~\E k \in DOMAIN output : output[k].job > j /\ output[k].item = FileOf(j)[x.id]

\* The summary that wsummarize makes of a log at any moment is true of the job,
\* which may run or have been killed between any two writes: every item counts
\* once, as a success, a failure or incomplete; what it calls a success or a
\* failure was written with that status; and the incomplete ones are those that
\* clients have, but for one that was sent and is not logged yet.
SummaryIsTrue ==
    LET Written(ids, S) ==
            \A id \in ids : \E k \in DOMAIN output :
                /\ output[k].job = Job /\ output[k].item = workfile[id]
                /\ output[k].status \in S
        summary == Summary(log)
    IN /\ KnownIds(log) = summary.success \cup summary.failure \cup summary.incomplete
       /\ summary.success \cap summary.failure = {}
       /\ Written(summary.success, {0}) /\ Written(summary.failure, {1})
       /\ summary.incomplete \subseteq under_way
       /\ under_way \ summary.incomplete \subseteq {nr_items}

\* What a resumption loses, and nothing more: an item of a job that is not
\* reported done and not in the next job's workfile was never reported as
\* started, or it was the last one of the file.
LossExplained ==
    \A j \in 1..(Job - 1) : \A i \in DOMAIN FileOf(j) :
        \/ i \in DoneIds(LogOf(j))
        \/ FileOf(j)[i] \in Items(FileOf(j + 1))
        \/ i \notin KnownIds(LogOf(j))
        \/ i = Len(FileOf(j))

\* Each job of the chain ends, also one that has no items: that of a log in which
\* only the last item of the file is incomplete.
JobsEnd == \A j \in 1..MaxJobs : Job = j /\ server = "loop" ~> Job = j /\ server = "ended"

\* What docs_user/docs/resume.md says of a resumption: the new job works on the
\* items that were not done, either because they were being executed or because
\* they had not started yet.
NotDoneResumed ==
    \A j \in 1..(Job - 1) : \A i \in DOMAIN FileOf(j) :
        i \notin DoneIds(LogOf(j)) => FileOf(j)[i] \in Items(FileOf(j + 1))

=============================================================================
