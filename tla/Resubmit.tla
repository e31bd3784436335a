------------------------------ MODULE Resubmit ------------------------------
(***************************************************************************)
(* The options of a job and of the jobs that wresume makes of it           *)
(* (src/scripts/worker/option_parser.py, slurm/option_parser.py and        *)
(* pbs_torque/option_parser.py).  wsub takes options from its command      *)
(* line and directives from the job script, and leaves submit.sh and       *)
(* jobscript.sh; wresume reads these two again, merges the options with    *)
(* those of its own command line, and leaves the same two files, which may *)
(* be resumed in turn.                                                     *)
(*                                                                         *)
(* One or two options stand for those that the parsers treat alike; a flag *)
(* is an option that has one value only.                                   *)
(***************************************************************************)
EXTENDS Naturals, Sequences, FiniteSets, Pick

CONSTANTS
    Schedulers, \* the schedulers that worker is configured for
    Values,     \* the values of options
    MaxGiven,   \* bound: the options of a command line
    MaxLines,   \* bound: the lines of the user's job script
    MaxJobs     \* bound: the jobs of a chain

\* What a command line can have for an option: nothing, the option without its
\* value, a value that starts with a hyphen, as in --nice=-5, or another one.
None == "none"
Bare == "bare"
Negative == "negative"
\* The value of an option that wresume takes from a directive.
FromScript == "script"

ASSUME ResubmitAssumption ==
    /\ Schedulers \subseteq {"slurm", "pbs torque"}
    /\ Values \cap {None, Bare, Negative, FromScript} = {}
    /\ MaxGiven \in Nat /\ MaxLines \in Nat /\ MaxJobs \in Nat \ {0}

VARIABLES
    scheduler,
    script,     \* the user's job script
    status,     \* how the last command ended
    job,        \* the number of jobs that were submitted
    command,    \* submit.sh of the last job: its options by their spelling
    jobscript,  \* jobscript.sh of the last job
    asked,      \* what the user gave last for each option (history)
    prefixes    \* the directive prefixes of all command lines (history)

vars == <<scheduler, script, status, job, command, jobscript, asked, prefixes>>

Slurm == scheduler = "slurm"

\* pass_through_options.
PassThrough == IF Slurm THEN {"partition", "mail-type", "nice"} ELSE {"q", "N"}

\* Options of their own for Slurm, the keys of -l for PBS torque.
Resource == IF Slurm THEN {"nodes", "cpus-per-task"} ELSE {"nodes", "walltime"}

NameOption == IF Slurm THEN "J" ELSE "N"

ArrayOption == IF Slurm THEN "array" ELSE "t"

\* An option of the scheduler that no list of the parsers has.
Unlisted == IF Slurm THEN "constraint" ELSE "X"

\* What merge_options knows.
Listed == PassThrough \cup Resource

Option == Listed \cup {NameOption, ArrayOption, Unlisted}

\* argparse names the attribute of an option after its long form, which the
\* parsers have for -J in their own way, with underscores for hyphens.
Dest(o) == CASE o = "mail-type" -> "mail_type"
             [] o = "cpus-per-task" -> "cpus_per_task"
             [] o = "J" -> "jobname"
             [] OTHER -> o

Spelling == Option \cup {Dest(o) : o \in Option}

Given == Values \cup {Bare, Negative}

Arg ==
    UNION {{[o \in Option |-> IF o \in given THEN value[o] ELSE None] : value \in [given -> Given]} :
              given \in {S \in SUBSET Option : Cardinality(S) <= MaxGiven}}

DefaultPrefix == IF Slurm THEN "#SBATCH" ELSE "#PBS"

\* Slurm has no option for another prefix.
Prefix == {DefaultPrefix} \cup IF Slurm THEN {} ELSE {"#OWN"}

Code == [prefix |-> "", option |-> "code"]

\* The directives of a user: a resource that the parser of Slurm recognises, as
\* in --nodes=2 or --overcommit; one that it does not, as in --nodes 2, -N 2 or
\* --contiguous; the name; and the array.
UserOption == {"nodes", "nodes_apart", NameOption, ArrayOption}

\* A line with a prefix that is not the one in use is a comment.
Line == [prefix : Prefix, option : UserOption] \cup {Code}

\* How a command can end: with a job, with one of the errors of errors.py, with
\* the usage of argparse, or with an exception that nothing handles.
Error == {"batch_file_error", "scheduler_option_error", "submission_error", "worker_dir_error"}

-----------------------------------------------------------------------------
(* _parse_script.                                                          *)

\* The lines before the first one that is neither directive nor comment.
Header(lines) ==
    SubSeq(lines, 1, CHOOSE n \in 0..Len(lines) :
                        /\ \A k \in 1..n : lines[k] # Code
                        /\ n = Len(lines) \/ lines[n + 1] = Code)

Directives(lines, prefix) ==
    LET header == Header(lines)
    IN Picked(header, {k \in DOMAIN header : header[k].prefix = prefix})

GeneratedPbs(option) == [prefix |-> "#PBS", option |-> option]

Generated(option) == [prefix |-> DefaultPrefix, option |-> option]

\* Recognised are an option with "=" and its value, and a flag with two names.
IsResource(l) == l.option \in {"nodes", "one_task"}

ResourceLines(lines) == Picked(lines, {k \in DOMAIN lines : IsResource(lines[k])})

OtherLines(lines) == Picked(lines, {k \in DOMAIN lines : ~IsResource(lines[k])})

ParseScriptHetjobEarly(lines, prefix) ==
    LET found == Directives(lines, prefix)
    IN IF Slurm
       THEN OtherLines(found) \o <<Generated("hetjob"), Generated("one_task")>>
            \o ResourceLines(found)
       ELSE found

ParseScriptTwice(lines, prefix) ==
    LET found == Directives(lines, prefix)
    IN IF Slurm
       THEN found \o ResourceLines(found)
            \o <<Generated("hetjob"), Generated("one_task")>>
       ELSE found

\* For Slurm the directives about resources go last, before those of the
\* heterogeneous part in which the server runs.
ParseScript(lines, prefix) ==
    LET found == Directives(lines, prefix)
    IN IF Slurm
       THEN OtherLines(found) \o ResourceLines(found)
            \o <<Generated("hetjob"), Generated("one_task")>>
       ELSE found

\* Without a shebang the template's first line is "None": a command.
CreateJobscript(s, prefix) ==
    [shebang |-> s.shebang,
     lines |-> (IF s.shebang THEN <<>> ELSE <<Code>>)
               \o ParseScript(s.lines, prefix) \o <<Code>>]

-----------------------------------------------------------------------------
(* The command lines.                                                      *)

\* What is left for the submit command: the array request is worker's own.
FilterCommandCl(args) == [args EXCEPT ![ArrayOption] = None]

\* The options of the scheduler that worker's own parser takes.
Relevant == {NameOption, ArrayOption}

\* An option that a parser knows needs its value.
Verified(args, known) == \A o \in known : args[o] # Bare

\* The scheduler takes a command when it knows its options by their spelling,
\* and each has its value.
Accepts(cmd) == \A o \in DOMAIN cmd : cmd[o] # None => o \in Option /\ cmd[o] # Bare

AsSpelled(args) == [o \in Spelling |-> IF o \in Option THEN args[o] ELSE None]

OverOld(new, old) == IF old # None THEN old ELSE new

Over(new, old) == IF new # None THEN new ELSE old

\* _merge_resources: the namespace of the new options has all of the names, with
\* None for those that were not given, where the PBS torque parser has a
\* dictionary of the keys that were.
MergeResource(new, old) == IF Slurm THEN new ELSE Over(new, old)

FromDirectives(o, lines, prefix) ==
    IF \E k \in DOMAIN Directives(lines, prefix) : Directives(lines, prefix)[k].option = o
    THEN FromScript ELSE None

\* merge_options, and the name and the array of the script when they are not
\* among the options that were merged.
MergeOptions(args, cmd, prefix) ==
    [o \in Option |->
        CASE o \in PassThrough -> Over(args[o], cmd[o])
          [] o \in Resource -> MergeResource(args[o], cmd[o])
          [] o \in {NameOption, ArrayOption} \ PassThrough ->
                FromDirectives(o, jobscript.lines, prefix)
          [] OTHER -> None]

PreprocessAnyScheduler(value) == IF value = Negative THEN Bare ELSE value

\* preprocess_cli_options for Slurm: a value with a hyphen is taken for the next
\* option, so that its option is left without one.
Preprocess(value) == IF Slurm /\ value = Negative THEN Bare ELSE value

\* _options_dict2list: options are written by the name of their attribute.
Options2Command(options) ==
    [s \in Spelling |->
        IF \E o \in Option : Dest(o) = s
        THEN Preprocess(options[CHOOSE o \in Option : Dest(o) = s])
        ELSE None]

ResumeCommand(args, prefix) ==
    Options2Command(MergeOptions(FilterCommandCl(args), command, prefix))

-----------------------------------------------------------------------------

Init ==
    /\ scheduler \in Schedulers
    /\ script \in [shebang : BOOLEAN, lines : UNION {[1..n -> Line] : n \in 0..MaxLines}]
    /\ status = "start"
    /\ job = 0
    /\ command = [s \in Spelling |-> None]
    /\ jobscript = [shebang |-> FALSE, lines |-> <<>>]
    /\ asked = [o \in Listed |-> None]
    /\ prefixes = {}

Fails(how) ==
    /\ status' = how
    /\ UNCHANGED <<scheduler, script, job, command, jobscript>>

\* What the user gave: the history.
Ask(args, prefix) ==
    /\ asked' = [o \in Listed |-> IF args[o] # None THEN args[o] ELSE asked[o]]
    /\ prefixes' = prefixes \cup {prefix}

Submitted(cmd, s, prefix) ==
    /\ status' = "submitted"
    /\ job' = job + 1
    /\ command' = cmd
    /\ jobscript' = CreateJobscript(s, prefix)
    /\ UNCHANGED <<scheduler, script>>

\* The batch file is not there.
WsubFails ==
    /\ status = "start"
    /\ Fails("batch_file_error")
    /\ UNCHANGED <<asked, prefixes>>

Wsub(args, prefix) ==
    LET cmd == AsSpelled(FilterCommandCl(args))
    IN /\ status = "start"
       /\ Ask(args, prefix)
       /\ \/ ~Verified(args, Relevant) /\ Fails("usage")
          \/ /\ Verified(args, Relevant)
             /\ ~Verified(args, PassThrough)
             /\ Fails("scheduler_option_error")
          \/ /\ Verified(args, Relevant \cup PassThrough)
             /\ ~Accepts(cmd)
             /\ Fails("submission_error")
          \/ /\ Verified(args, Relevant \cup PassThrough)
             /\ Accepts(cmd)
             /\ Submitted(cmd, script, prefix)

\* The directory of the job is not there.
WresumeFails ==
    /\ status = "submitted"
    /\ Fails("worker_dir_error")
    /\ UNCHANGED <<asked, prefixes>>

\* wresume does not handle the exception that a refused submission raises.
Wresume(args, prefix) ==
    LET cmd == ResumeCommand(args, prefix)
    IN /\ status = "submitted"
       /\ job < MaxJobs
       /\ Ask(args, prefix)
       /\ \/ ~Verified(args, Relevant \cup Listed) /\ Fails("usage")
          \/ /\ Verified(args, Relevant \cup Listed)
             /\ ~Accepts(cmd)
             /\ Fails("exception")
          \/ /\ Verified(args, Relevant \cup Listed)
             /\ Accepts(cmd)
             /\ Submitted(cmd, jobscript, prefix)

Next ==
    \/ WsubFails \/ WresumeFails
    \/ \E args \in Arg, prefix \in Prefix : Wsub(args, prefix) \/ Wresume(args, prefix)

Spec == Init /\ [][Next]_vars

-----------------------------------------------------------------------------
\* Types of all variables.
TypeOK ==
    /\ scheduler \in Schedulers
    /\ script \in [shebang : BOOLEAN, lines : Seq(Line)]
    /\ status \in Error \cup {"start", "submitted", "usage", "exception"}
    /\ job \in 0..MaxJobs
    /\ command \in [Spelling -> Given \cup {None, FromScript}]
    /\ jobscript.shebang \in BOOLEAN
    /\ jobscript.lines \in Seq({Code} \cup
          [prefix : Prefix, option : UserOption \cup {"hetjob", "one_task"}])
    /\ asked \in [Listed -> Given \cup {None}]
    /\ prefixes \subseteq Prefix

\* The options whose value of the last command line that has it counts: all that
\* are passed through, and the resources of PBS torque key by key.
Honoured == PassThrough \cup IF Slurm THEN {} ELSE Resource

\* A job that was resumed any number of times is submitted with the value that
\* was given last for an option, on whichever of the command lines.
LastGivenWins ==
    status = "submitted" => \A o \in Honoured : command[o] = asked[o]

\* How many of the lines have that option.
CountOf(lines, option) == Cardinality({k \in DOMAIN lines : lines[k].option = option})

\* The directives of the user's script are in the script of each job of the
\* chain, none lost and none doubled, when the script has a shebang and all
\* command lines go by one directive prefix.
DirectivesKept ==
    \A p \in Prefix : status = "submitted" /\ script.shebang /\ prefixes = {p} =>
        \A option \in UserOption :
            CountOf(jobscript.lines, option) = CountOf(Directives(script.lines, p), option)

\* The part of a heterogeneous Slurm job that line k of its script is about.
Group(k) == Cardinality({i \in 1..(k - 1) : jobscript.lines[i].option = "hetjob"})

\* The user's directives are about part 0, in which the clients run: all of them
\* in the first job, and in a resumed one those that the parser does not take for
\* resources.  A resumption reads the parts that the one before generated as if
\* they were the user's, and must not put the name or the array after them.
FirstPartKept ==
    Slurm /\ status = "submitted" /\ script.shebang =>
        \A k \in DOMAIN jobscript.lines :
            /\ jobscript.lines[k].option \in UserOption
            /\ job = 1 \/ ~IsResource(jobscript.lines[k])
            => Group(k) = 0

\* The options with which a job cannot be resumed: the submit command does not
\* know the name as it is written anew, or finds no value.
Unresumable(o) == Dest(o) # o \/ asked[o] = Negative

\* A directive of the last job's script gives it a name.
Named == FromDirectives(NameOption, jobscript.lines, DefaultPrefix) # None

\* A resumption that the scheduler refuses is of a Slurm job with such an option
\* from one of the command lines, or with the directive -J: no other job gets a
\* command that the scheduler does not take.
RefusedFor ==
    status = "exception" =>
        Slurm /\ (Named \/ \E o \in Listed : asked[o] # None /\ Unresumable(o))

\* What docs_dev/dev/option_parsing.md says of a resumption: the options can be
\* those of the original submit command, which those of the resume command
\* override.
SubmitOptionsKept ==
    status = "submitted" => \A o \in Listed : command[o] = asked[o]

=============================================================================
