# worker-ng in TLA+

worker-ng runs many small, independent *work items* in one cluster job. `wsub`
makes a workfile out of a job script and data, and submits a job; in the job
one *server* hands the items to *clients*, which execute them and send the
results back; `wresume` makes a new job of what a job left undone.

This directory holds TLA+ modules that model the program, TLC configurations
that check them on small instances, and TLAPS proofs of every safety property
that the passing runs check. Paths below are relative to the root of the
repository.

## The system

| component | state | operations |
|---|---|---|
| server (`src/server.cpp`) | the parser's position and look-ahead, `to_do`, the output and log files | handle a query (work or stop), handle a result (write, log, acknowledge), leave the loop |
| client (`src/client.cpp`) | the point in its loop, the item it has | query, receive, execute, send the result, receive the acknowledgement, time out |
| messages (`src/message.*`) | what is under way between a client and the server | pack, send, receive, unpack |
| work parser (`src/work_parser`) | the stream, the next item, the count | `has_next`, `next`, `nr_items` |
| work processor (`src/work_processor`) | a bash process, three pipes, a result | `process_work` |
| log parser (`scripts/worker/log_parsers.py`) | none; reads `server.log` | `incompletes`, `failures`, `successes` |
| workfile parser (`scripts/worker/workfile_parser.py`) | the item being read | `parse`, `filter_workfile` |
| wsub (`scripts/wsub.py.in`, `scripts/worker/utils.py`) | the temporary directory, the workfile, the job script | create, submit, rename |
| wresume (`scripts/wresume.py.in`) | the same, from a previous job's directory | choose the items, filter, submit, rename |
| option parsing (`scripts/worker/option_parser.py`, `slurm`, `pbs_torque`) | options and directives | parse, merge |
| job script (`conf/*_jobscript.tmpl`, `scripts/launch.sh`) | `server_info.txt`, the background processes | start the server, start the clients, wait |
| core binding (`scripts/worker_functions.sh`) | none | numactl arguments, host file |
| data sources (`scripts/worker/data_sources.py`) | the position in a table or a range | next row |
| wsummarize, submit output parsers, error codes | none | print, match one expression, exit |

How they interact:

- A client has a ZeroMQ REQ socket and the server a REP socket. REQ is in
  lock-step: a client sends, then waits for the reply. The server is a single
  thread that receives, handles and replies. A client's receive has a timeout
  (1 s by default), the server's has none.
- Server and `wresume` share two files: the workfile, which the server's parser
  and the Python parser each number on their own, and `server.log`, whose
  started and done lines carry those numbers.
- A client and an item share three pipes.
- `wsub` and the job share a directory that changes its name after the
  submission; the job's scripts share `server_info.txt`.

What is hard: the interleaving of clients at the server's counter, look-ahead
and `to_do`; a client's timeout against an answer that comes late or never; a
client that dies with an item; the end of the job, which must come neither too
early nor never; a job killed between an effect and the log line about it; item
numbers over a chain of resumed jobs; options that are written by one tool to be
read again by the next; sources of different lengths; two parsers that must
agree on where an item ends; a client and an item that wait for each other. `PROJECT.json` lists
each of these at its line, with the properties that cover it.

What makes the components correct:

- server and clients: an item goes to one client and is never handed out again;
  its result is written at most once, under its own number; `to_do` is exact;
  the server ends only when it has every result and, without faults, always
  does; a client is told to stop only when nothing is left to hand out;
- resumption: nothing reported done is done again, the number of a line is that
  of the item in its own job's workfile, nothing left undone is forgotten;
- the summary of a log is true of the job at any moment;
- options: a resumed job has each option with the value that was given last, and
  each directive of the user's script once;
- data sources: an item has the values of one line of every source, and the
  shortest source decides how many items there are;
- work parser: the items are the blocks of the file, and both parsers give them
  the same number; what wsub writes is what the server serves;
- work processor: the result has the whole output and the item's status, and
  every item comes to an end.

## The modules

| module | models | extends or uses |
|---|---|---|
| `Message` | messages, the REQ/REP connection of each client (ZeroMQ: external) | |
| `Server` | the server's loop | `Message` |
| `Client` | the client's loop | `Message` |
| `Worker` | one server, its clients, the faults; the properties of a job | `Server`, `Client`; instance of `Dispatch` |
| `Dispatch` | abstract: what the server promises, without messages or clients | |
| `WorkerProofs` | the proofs about `Worker` | `Worker` |
| `Pick` | what a loop with a condition keeps of a sequence | |
| `PickProofs` | induction, and what `Picked` returns for every sequence | `Pick` |
| `Resume` | a chain of jobs, each killed at any point and resumed; the summary of a log | `Pick` |
| `ResumeProofs` | the proofs about `Resume` | `Resume`, `PickProofs` |
| `Resubmit` | the options, directives and job scripts of such a chain | `Pick` |
| `ResubmitProofs` | the proofs about `Resubmit` | `Resubmit`, `PickProofs` |
| `DataSources` | the rows that wsub makes items of | |
| `DataSourcesProofs` | the invariant of the sources, and that each of their steps keeps it | `DataSources`, `PickProofs` |
| `Workfile` | the workfile line by line: writer, server's parser, wresume's parser and filter | `DataSources`, `Pick` |
| `WorkfileProofs` | the proofs about `Workfile`, sources included | `Workfile`, `DataSourcesProofs` |
| `Processor` | `process_work`, the bash process and its pipes | |
| `ProcessorProofs` | the proofs about `Processor` | `Processor`, `PickProofs` |
| `Launch` | wsub and wresume, the job script or launch.sh, the start of the server | |
| `LaunchProofs` | the proofs about `Launch` | `Launch` |
| `MCWorker`, `MCResume`, `MCResubmit`, `MCWorkfile`, `MCProcessor`, `MCLaunch` | the instances for TLC | the module they name |

### Worker

A state is: `server`, `nr_items`, `to_do`, `out` for the server; `pc`, `work`
for each client; `request`, `reply`, `awaiting` for each connection.

| action | code |
|---|---|
| `SendQuery`, `RecvReply`, `QueryTimeout` | the first half of the client's loop; an empty message after a timeout is parsed nonetheless, and the exception is not caught |
| `Process` | `process_work` and the send of the result |
| `RecvAck`, `AckTimeout` | the second half; a timeout is only logged |
| `QueryRefused` | the next query on a socket that still awaits a reply: ZeroMQ refuses it (EFSM), the exception is not caught |
| `Serve` = `HandleQuery` / `HandleResult` / `RejectRequest` | one turn of the server's loop, with the test at its end |
| `ClientCrash`, `ServerKill`, `Disconnect`, slow answers | the faults, each only if it is in the constant `Faults` |

The server is one thread and nobody else sees its variables, so a turn of its
loop is one action. (`Resume` splits the turn where a kill can tell the
difference.) The parser is a counter here: item *k* is the *k*-th block of the
file, and `HasNext` says that the look-ahead is not empty; `Workfile` shows
that this is what the parser does. A work item and its output are both named by
the item's position, which is what the properties compare.

A message under way is lost when its connection breaks (`"loss"`) or when its
client has ended. ZeroMQ does not duplicate messages on a connection and keeps
them in order; with at most one message per connection nothing is left to
reorder. Messages of different clients interleave freely.

### Resume

The grain is the server's effects: an item is sent, then the log says
*started*; a result is written and flushed, then the log says *done*. `Kill`
may come between any two. A resumption reads the log as `WorkitemLogParser`
does, chooses as `wresume` does, and filters the workfile as `filter_workfile`
does, the last item included (see below). `past` keeps the workfiles and logs
of the earlier jobs. `Summary` is what `wsummarize` counts in a log, which it
may be given at any moment. A resumed job may have an empty workfile: that of a
log in which only the last item of the file is incomplete.

A resumption comes only after the job has ended. This is an assumption:
`docs_user/docs/resume.md` speaks of jobs that have ended, and `wresume` does
not test it. Called for a job that runs, it would take the items under way for
incomplete, and they would be executed twice.

### Resubmit

A state is the scheduler and the user's script, which stay, and what the last
job left for the next resumption: the options in `submit.sh` (`command`, by
their spelling) and the lines of `jobscript.sh`. `asked` and `prefixes` are
history: what the user gave last for each option, and which directive prefixes.

| action | code |
|---|---|
| `Wsub` | `SubmitOptionParser.parse`: the array request is taken out, the options are verified, the script is parsed; then the submission |
| `Wresume` | `ResubmitOptionParser.parse`: `submit.sh` is parsed, merged with the new options, the script options are added, all is written again under the names of argparse; then the submission |
| `WsubFails`, `WresumeFails` | no batch file; no directory |

Each option of the model stands for a kind: one that is passed through
(`partition`, `q`), one of these with a hyphen in its name (`mail-type`), one
whose value may be negative (`nice`), resources with and without a hyphen, the
name, the array request, and one that no list has (`constraint`). A flag is an
option with one value. A resource of PBS torque is a key of `-l`; the parsers
are otherwise the same but for what `Slurm` decides. The submit command is
external: `Accepts` says that it refuses an option it does not know by that
spelling, or one without its value. Left out: worker's own options, which change
nothing here; abbreviated option names; a PBS resource without `=`.

A line of the user's script is code, a comment (the other prefix) or a
directive: the name, the array, a resource that the Slurm parser recognises
(`--nodes=2`, `--overcommit`) or one that it does not. `_is_resource_directive_line`
looks for an option with `=` and for the flags with two names, so that
`--nodes 2`, `-N 2` and `--contiguous` stay among the other directives. A job
without a shebang gets a first line "None"; what the scheduler makes of such a
script is left open.

### DataSources

The construction opens the files and the array request in order, and each row
then takes one line from each source, in order (`NextLine`), until one has none
left (`Exhausted`). The value of a cell is where it comes from: source, line and
column. A line of a table may be shorter or longer than the header, a name may
be in several sources, and a range may be empty. That the sniffer of the csv
module finds a delimiter or not is a choice: such a file is a table, a single
column, or neither.

### Workfile

A line is the separator, the separator with white space around it, a blank line
or other text: this is all that the two parsers distinguish. A file is made by
`create_workfile`, of the rows of `DataSources` and a script, or it is any file
of up to `MaxLines` lines (`OpenByHand`). The server reads it item by item, and
then wresume may make another file of any of its items, and of that one again.

### Processor

An item is a sequence of commands, followed by the `exit $?` that the client
adds. bash reads commands from its input as it executes them. A pipe holds
`Capacity` units; the client writes the item in pieces of `Chunk` commands (the
buffer of the stream). The order of `process_work` is kept: write the item,
wait for the process, read the output, read the error; the end of the input is
not closed before the wait.

### Launch

A state is the place of the tool in `main()` (`front`, `exit`), the three names
a directory can have with their entries (`dirs`), the job (`queue`), the place
in the job script, the place in the server's start, and the clients as one
(they all get the same address). `FrontStep` has one action per call in
`main()` and per way it can fail: with a handler (`"error"`, which cleans up)
or without (`"exception"`, which leaves the directory): an error of the data or
of the log, a job script that cannot be made, a submit command that fails or is
not there, an output that is not understood, a name that is taken. What any
write can meet, such as a full disk, is left out. `StartJob` may come at any time after `Submit`: the
batch system is free to start the job before the directory has its name. The
server's start is in the order of its `main()`: the log, whose directory is
created with it, the workfile, the socket, the file for the clients, which
exists before it is written. The delay of the job script may end at any time,
and only the Slurm script tests for the file. `launch.sh` has neither a tool
before it nor a directory of its own, and may find the file of an earlier
server.

## The runs

| run | instance | question |
|---|---|---|
| `worker_faults` | 3 clients, 2 items, all faults | are the safety properties and the refinement of `Dispatch` kept by all crashes, losses, late answers and kills; do all clients end, and does one that goes down take at most one item with it? |
| `worker_fault_free` | 3 clients, 4 items, no fault | does the job implement the fair dispatcher, i.e. get everything done, does a client abort only after the server ended, is there no deadlock? |
| `worker_robust` | 2 clients, 2 items, crashes | *violated*: a crash keeps the server from ending |
| `resume_chain` | 3 items, 3 jobs | is nothing done twice, is a summary true, is everything that is lost explained, and does each job end? |
| `resume_loses` | 3 items, 2 jobs | *violated*: items that are not done are not resumed |
| `resubmit_chain` | 2 schedulers, 3 jobs, a script of 2 lines, an option for each command | which values and directives has a resumed job, which part of it are they about, and is it refused only for an option that cannot be written again? |
| `resubmit_options` | 2 jobs, a script of a line | *violated*: a resource is lost on resumption |
| `workfile_lines` | 2 files of 2 lines and 2 ranges, scripts of 2 lines; files of 6 lines | is there an item for each row, with its values; do the parsers agree, and is what is written what is served? |
| `processor_items` | 4 commands, pipes of 2 units, pieces of 2 | which items return, which kill the client, and is the result complete? |
| `processor_returns` | 3 commands | *violated*: some items never return |
| `launch_all` | all tools, both schedulers | is the directory there when it must be, in one place, and gone when it should be; does a job end? |
| `launch_resumed` | wresume, Slurm | *violated*: the directory gets a name that the job does not use |

**Bounds.** Three clients let one crash with an item while the second is told
to stop and the third has a result under way; two items with three clients give
a first and a last one and a client that never gets any, and the four items of
the run without faults give clients a second and a third turn. The safety
properties of `worker_faults` are proved for all values of the constants. The
run uses no symmetry, because it checks liveness too. A chain of three jobs has
a job that is resumed from a resumed one, where numbers no longer agree with the
first job's, and where a script has been through the parser twice; three items
give the job in the middle two of them, or the last one alone. A chain of
`Resubmit` with one option for each of its three commands has all pairs and
triples of given values; several options on one command line meet only in
`_options_dict2list`, which treats each for itself. The values are symmetric:
nothing but equality is asked of them. Two files and an array request make
three sources, so that one can end before, with or after another, and a name of
the last can hide that of the first; two ranges make an empty one between or
after others. Six lines hold two items with separators, padded separators and
empty blocks around them. `Launch` is finite as it is, with all its tools and
schedulers. Four commands are enough to fill a pipe of two and have one more,
and to leave something unwritten after an early exit.

**Deadlock** is checked in `worker_fault_free`, where `Terminated` is the only
step of a finished job. With a killed server or lost messages, in a chain of
jobs at its bound or after an error, in a workfile that was read, and in an item
that blocks, nothing more may happen, and after a launch neither; there it is
not checked.

**Fairness.** `Worker!FairSpec` has weak fairness on each client's steps and on
the server's handling of each client's message. The clients and the server are
processes that the operating system runs; an item is assumed to end
(`Processor` says which do); a timeout fires when no answer comes; and a REP
socket takes the messages of its peers in turn, so that a client whose request
waits is served as long as the server runs. No fault is fair: each may happen
or not. `Resume!FairSpec` has weak fairness on the server's loop taken as a
whole, which has clients that query and bring results: it assumes what
`worker_fault_free` has, clients that survive; a kill and a resumption are not
fair. `Processor!FairSpec` has weak fairness on the child, on the background
processes taken together and on the client. `Launch!FairSpec` has it on the
tool, the batch system, the job script, the server and the end of the clients,
and none on the walltime, so that `EndsOrStarves` does not owe its truth to it.
The other modules state safety only and have none.

## What the checks show

The job is safe under every fault in the model: no item is handed out twice, no
result is written twice or under another item's number, no unexpected message
arrives, no client is sent home while an item waits. Without faults it always
completes, and a client can end by an exception only after the server has left.
A client that goes down takes at most the one item it had with it.

However early a job starts, its id is printed only if its directory is complete
under its name; a job that was too early fails, and so does wsub, because the
server's log took the name first. A job whose start failed ends by itself,
except one whose server serves while its clients are gone.

A summary of a log is true of its job at any moment, before and after a kill,
but for one item that was sent and is not in the log yet. An option that is
passed through has, in a chain of any length, the value that was given last, and
so has each resource of PBS torque. The directives of a script are kept as long
as the script has a shebang and one prefix is used throughout. On Slurm they are
about the part in which the clients run (`FirstPartKept`): all of them in the
first job, and in a resumed one those that the parser does not recognise as
resources. No job is refused by the scheduler but a Slurm job with an option
that is written in another form, or with the directive `-J` (`RefusedFor`).
Items have the values of one line of each source, for files with short lines
too, and a job has an item at least.

Some properties have a precondition that leaves a case out. These cases are
stated here and in the notes of `PROJECT.json`, and no property takes what the
code does in them for right:

- Recognised resource directives come one heterogeneous part later with each
  resumption, because wresume parses a script that has the generated directives
  already. `docs_dev/dev/option_parsing.md` (line 31) says that directives
  can be passed without issue. `FirstPartKept` leaves them out from the second
  job on.
- A Slurm job with an option whose name has a hyphen, with a negative value or
  with the directive `-J` cannot be resumed: wresume writes each in a form that
  the submit command does not take. That is against `docs_user/docs/resume.md`
  (lines 14-17) and `docs_dev/dev/option_parsing.md` (lines 25-32).
  `RefusedFor` says that nothing else is refused, and not that these are.
- wresume with a directive prefix other than that of the job before loses the
  directives; `DirectivesKept` is about chains with one prefix.
- A separator in the user's script splits each item (`RowsAreServed` is about
  scripts without one), and a separator with white space around it is one for
  wresume and none for the server (`SameNumbers` is about files without one).

Five statements of the repository do not hold:

- **A crashed client stops the server from ending** (`worker_robust`). The item
  stays in `to_do`, and the loop is left only when `to_do` is empty
  (`src/server.cpp:187`). `README.md` says that a crash of a client has no
  impact on the server or the other clients. What does hold is
  `FaultsContained`.
- **Not all that is left is resumed** (`resume_loses`). The report has only the
  items with a started line (`scripts/worker/log_parsers.py:116`), so that
  those the job did not get to are forgotten. The parser yields an item at the
  separator that follows it, and the last item has none
  (`scripts/worker/workfile_parser.py:15`). `docs_user/docs/resume.md` says
  that items that did not terminate are executed, those that had not started
  included. `LossExplained` says that these two cases are all that a resumption
  loses.
- **`process_work` can wait for ever** (`processor_returns`). It waits for the
  child before it reads the pipes and before it closes the child's input
  (`src/work_processor/processor.cpp:27`). `ReturnsWhenFits` says which items
  return all the same.
- **A job that wresume submits to Slurm serves nothing** (`launch_resumed`).
  wresume takes the whole output of the submit command for the job id
  (`scripts/wresume.py.in:62`), and the job looks for another directory.
  `MisnamedNeverServes`, which is proved, says that no such job gets beyond its
  workfile.
- **A resource of the submit command is lost on resumption**
  (`resubmit_options`). On Slurm the namespace of the new resources has a `None`
  for each that was not given, and these overwrite the old values
  (`scripts/worker/slurm/option_parser.py:22`). `docs_dev/dev/option_parsing.md`
  says that the options of a resumption can come from the original submit
  command. `LastGivenWins` says for which options that holds.

## What is proved

`WorkerProofs` proves, for every set of clients, every number of items
(`NumItemsAssumption`: a natural number) and every set of faults
(`FaultsAssumption`: of the four kinds):

`TypeCorrect`, `CustodyHolds`, `ToDoIsExact`, `ResultsWrittenOnce`,
`IdsArePositions`, `ProtocolIsKept`, `StopsAreFinal`, `DoneMeansComplete`,
`NoItemReassigned`, and `RefinesDispatch` (every job is a `Dispatch`).

The invariant is `IInv`. None of the safety properties is inductive alone:

- a result is written once because an item that a result message carries is
  still in `to_do` (`Custody`), and what is in `to_do` is not written
  (`ToDoExact`);
- `Custody` is kept because a new item's number is above all that were handed
  out (`ToDoExact`), and because what a client carries is in one place at a
  time;
- that is `Lockstep`: which control states go with which messages, and that a
  client has no message under way unless its socket awaits a reply. It also
  gives `ProtocolKept`, and that a client whose acknowledgement timed out can
  send nothing more, however late the answer;
- `DoneState` is what the end of the loop knows: nothing to hand out, nothing
  open. With `ToDoExact` it gives `DoneIsComplete`, and it shows that a step of
  the server is a step of `Dispatch` with the right value of `open`.

For jobs without a fault (`Faults = {}`), `AbortsAreLate` shows that a client
aborts only after the server ended. What makes it so is `Answered`: as long as
the server runs, the query or result of each client that waits is under way, or
its answer is; so no timeout fires and no client aborts.

There is one lemma in `WorkerProofs` per action that changes more than a
control state, and one for all that change no more; the refinement maps
`SendWork` to `Start`, `HandleResult` to `Finish`, the end of an empty workfile
to `Close` and all else to stuttering.

`LaunchProofs` proves, for every choice of tools and schedulers
(`LaunchAssumption`: of the known ones), `TypesHold`, `ReportIsComplete`,
`MissedIsNotReported`, `MisnamedServesNothing`, `ArtifactsAreInOnePlace`,
`HandledErrorsLeaveNothing` and `ClientsFollowServer`. The invariant `LInv`
follows the artifacts from the temporary to the final name (`BeforeSubmission`,
`AfterSubmission`, `Ending`) and the job from its start (`JobOrder`,
`InfoMeansBound`). The two meet in `LogFirst`: a server that is past its log
has made the directory, so that the artifacts cannot get that name any more.

**Sequences.** What the other proofs are about is computed from sequences: a
loop over the lines of a file, a log or a script. The theorems of the library
that do induction take a predicate as a parameter, which the provers cannot
instantiate. `PickProofs` states induction for a set of numbers instead
(`InductionOnSet`: a set with 0 and with the successor of each of its members
has all numbers), and proves with it what a loop with a condition keeps
(`Picked`): the elements at the chosen places in their order (`PickedAt`,
`PickedElements`), each as often as it is there (`PickedCount`), and an interval
of places gives a piece of the sequence (`PickedInterval`). Loops that are
recursive functions, as that of `WorkfileParser` (`Parse`) and the community
module's `FlattenSeq`, are first shown to exist for every length
(`ParsesExists`, `FlattenExists`) by the same induction.

`ResubmitProofs` proves, for every choice of schedulers, values and bounds
(`ResubmitAssumption`: known schedulers, and values that are none of the
markers), `TypesHold`, `LastGivenAlwaysWins`, `RefusedForAReason`,
`DirectivesAreKept` and `FirstPartIsKept`, for chains and scripts of any
length. The invariant `OInv` says that nothing was asked before `wsub`
(`NothingAsked`), and that the last command has no option without a value
(`NoneBare`): this is what makes a missing value in the next one the work of
`preprocess_cli_options`. The argument rests on a lemma about each step of the
merge: `Merged` (the new value where there is one), `WrittenOption` (no name
with underscores is the name of another option) and `AcceptedKeepsValue` (what
the scheduler takes has its value unchanged). For the directives the invariant
is `MadeOfDirectives`: neither `DirectivesKept` nor `FirstPartKept` says
that the script of the last job ends in code, or that all its lines before that
are directives of the one prefix, and without that the next parse could stop
early or skip a line. `MadeAgain` shows that the job script made of such a
script is one again, with each of the user's options as often as before; on
Slurm `ArrangedLines` follows the order of its four parts: what is not taken for
a resource comes before everything that was generated (`NamesFirst`), however
often the script was resumed, and in the first job the rest does too
(`ResourcesFirst`).

`ResumeProofs` proves, for any number of items and of jobs, `TypesHold`,
`SummaryIsAlwaysTrue`, `NothingIsReworked`, `LossIsExplained` and
`OutputThenLog`. The invariant `RInv` of the job that runs says that an id that
is done is not under way any more, that what is under way is in the log except
for an item that was sent and not logged yet, and that a result that was written
and not logged yet is in the output. `CInv` is about the chain: `ChainFiles`
(each workfile is what the filter makes of the one before and of its log, and
its items were left by *every* log before, not only the last: this is what
`NoRework` needs, as an item can be left out in one job only), and
`ChainOutput` (the results of each job are those of items of its own file, one
for each done line and at most one more, of the item that the server handles).
The file of a resumption has no item twice, because that of the first job has
none and the filter keeps different places (`PickedElements`); so an item has
one id in each job.

`ProcessorProofs` proves, for items of any length and any sizes of pipe and
buffer (`ProcessorAssumption`: a pipe holds at least a buffer), `TypeCorrect`,
`KilledOnlyByEarlyExit` and `ResultsAreComplete`. The invariant `PInv` says that
bash is past no command that ends the script unless it ended (`Reading`), and
that what is written of a script that is not yet complete is nothing or at least
a buffer (`Buffers`): so the client can be killed at a second buffer only, and
the command that ended the item was in the first ones, where the client's own
`exit $?` is not. `GInv` follows the output: what the client read and what is in
the pipe are together what was written so far (`OutputGathered`), the status is
that of the last command that is over (`StatusIsLast`), and the client goes from
one pipe to the next only at its end, when no background process holds it
(`ReadsToEnd`).

`WorkfileProofs` proves, for tables, ranges, scripts and files of any number
and length (`DataSourcesAssumption`, `WorkfileAssumption`: headers are sequences
of names that are not empty, ids and numbers of cells are natural numbers),
`TypesHold`, `RowsStayInStep`, `ShortestAlwaysDecides`, `ItemsAlwaysAreBlocks`,
`NumbersAgree`, `RowsAlwaysAreServed` and `SelectedAreServed`. The invariant
`WInv` has three parts:

- `DInv` (`DataSourcesProofs`): every source before the one whose turn it is has
  given one line more than there are rows, every other as many, and the row that
  is being made has the lines of the former. `RowsInStep` alone says nothing of
  an unfinished row, and `ShortestDecides` nothing before the end.
- `ReaderInv`: the stream of `Work_parser` stands at the start of a block, which
  is the one after the look-ahead (`Starts`). `ItemIsBlock` is the step: what is
  read from the start of a block is that block, and leaves the stream at the
  start of the next.
- `Origin`: the file is what was made of the rows, or of the selected items. No
  property says so, and none of the last three follows from the items alone.

`SeparatedBlocks` then says that a file made of blocks without separators has
these blocks and no other, whatever their number, and `ParseItems` that what
`WorkfileParser` yields has no separator inside and, in a file without padded
ones, is the block of that number.

Only model-checked is liveness, which needs fairness and `ENABLED`:
`ImplementsFairDispatch`, `ClientsEnd`, `FaultsContained`, `JobsEnd`,
`ReturnsWhenFits` and `EndsOrStarves`. The runs that expect a violation have
counterexamples, and nothing to prove.

## What is not modelled, and the plan

Left out for good: the tables of `wsummarize` and the statistics of the log
parser, the expressions of the log and submit output parsers, the text of
errors, help and version output, logging other than the lines that `wresume`
reads, the text form of messages and results on the wire, build, packaging and
examples. They keep no state, or none that anything depends on. The functions of
`worker_functions.sh` for the binding of cores are pure too, and nothing says
what their result should be: the PBS script calls them with a variable that is
set nowhere but to 1, so that a reference for them would be invented.

The modules, in the order in which they were made:

1. `Message`, `Server`, `Client`, `Worker`, `Dispatch`, `WorkerProofs`: the
   protocol.
2. `Resume`, `Workfile`, `Processor`: what surrounds it.
3. `Launch` and `LaunchProofs`: the start of a job, and who else may have
   touched its directory.
4. `Resubmit` and `ResubmitProofs`: options and directives over a chain of
   resumptions, against the rule of `docs_dev/dev/option_parsing.md`.
5. `DataSources`: where the items come from, composed with `Workfile`.
6. `ResumeProofs` and `ProcessorProofs`: the report of a log, and the end of an
   item.
7. `Pick` and `PickProofs`, and with them the proofs about sequences: the chain
   of workfiles and logs in `ResumeProofs`, the directives in `ResubmitProofs`,
   the output in `ProcessorProofs`, and `DataSourcesProofs` and
   `WorkfileProofs`.

What would come next are abstract specifications for the components that have
none, in the manner of `Dispatch`: a chain of jobs as a set of items that only
shrinks, and a job's service as the sequence of its rows.
