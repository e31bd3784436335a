------------------------------- MODULE Launch -------------------------------
(***************************************************************************)
(* From the command line to a running job.  wsub and wresume               *)
(* (src/scripts/wsub.py.in, wresume.py.in) make a directory with a         *)
(* temporary name, submit the job, and give the directory its final name   *)
(* when they know the job's id.  The job script (src/conf/*.tmpl), or      *)
(* launch.sh without a batch system, starts the server, waits a while,     *)
(* reads the address that the server left in a file, starts the clients,   *)
(* and waits.  The batch system (external) may start a job as soon as it   *)
(* was submitted.                                                          *)
(*                                                                         *)
(* A directory is the set of its entries, {} when it does not exist.       *)
(***************************************************************************)
EXTENDS Naturals

CONSTANTS
    Tools,      \* what the job is started with, of AllTools
    Schedulers  \* the batch systems, of AllSchedulers

AllTools == {"wsub", "wresume", "launch"}

AllSchedulers == {"slurm", "pbs"}

ASSUME LaunchAssumption ==
    Tools \subseteq AllTools /\ Schedulers \subseteq AllSchedulers

VARIABLES
    run,        \* the tool, the scheduler, --debug and --dryrun
    front,      \* the place of wsub or wresume in main()
    exit,       \* how it ended
    dirs,       \* the directories that take part
    queue,      \* the job: "none", "queued", "running" or "ended"
    script,     \* the place in the job script
    address,    \* what the script read from the server's file
    server,     \* the place in the start of the server, or how it ended
    clients     \* the clients, which all get the same address

frontVars == <<front, exit>>
jobVars == <<queue, script, address, server, clients>>
vars == <<run, frontVars, dirs, jobVars>>

\* "temp": the temporary name; "worker": worker_<job id>, which the job uses;
\* "misnamed": any other name the directory may be given.
Dir == {"temp", "worker", "misnamed"}

Artifacts == {"workfile", "jobscript", "submit"}

\* "info_empty" and "info" are the file server_info.txt when it was opened and
\* when it was written, "info_stale" is that of an earlier server.
Info == {"info_empty", "info", "info_stale"}

Entry == {".", "log"} \cup Artifacts \cup Info

Put(d, entry) == [dirs EXCEPT ![d] = @ \cup {".", entry}]

Init ==
    /\ run \in [tool : Tools, scheduler : Schedulers, debug : BOOLEAN, dryrun : BOOLEAN]
    /\ exit = "none"
    /\ script = "idle" /\ address = "none" /\ server = "idle" /\ clients = "none"
    /\ \/ /\ run.tool # "launch"
          /\ front = "tempdir"
          /\ dirs = [d \in Dir |-> {}]
          /\ queue = "none"
       \/ \* launch.sh runs in a directory that may have been used before
          /\ run.tool = "launch"
          /\ front = "exited"
          /\ \E old \in SUBSET {"info_stale"} :
                dirs = [d \in Dir |-> IF d = "worker" THEN {".", "workfile"} \cup old ELSE {}]
          /\ queue = "running"

-----------------------------------------------------------------------------
(* wsub and wresume.                                                       *)

At(place) == front = place

CreateTempdir ==
    /\ At("tempdir")
    /\ dirs' = [dirs EXCEPT !["temp"] = {"."}]
    /\ front' = "workfile"
    /\ UNCHANGED <<run, exit, jobVars>>

\* create_workfile, or filter_workfile.
CreateWorkfile ==
    /\ At("workfile")
    /\ dirs' = Put("temp", "workfile")
    /\ front' = "jobscript"
    /\ UNCHANGED <<run, exit, jobVars>>

CreateJobscript ==
    /\ At("jobscript")
    /\ dirs' = Put("temp", "jobscript")
    /\ front' = "submit"
    /\ UNCHANGED <<run, exit, jobVars>>

Exit(how) ==
    /\ front' = "exited"
    /\ exit' = how
    /\ UNCHANGED run

\* The template is not there, or the configuration lacks what it asks for (the
\* file was opened).  No handler takes these.
JobscriptException ==
    /\ At("jobscript")
    /\ dirs' \in {dirs, Put("temp", "jobscript")}
    /\ Exit("exception")
    /\ UNCHANGED jobVars

CleanedNot(now) == now

\* The cleanup function that wsub gives to exit_on_error.
Cleaned(now) == IF run.debug THEN now ELSE [now EXCEPT !["temp"] = {}]

\* A data source is missing or not valid.
DataError ==
    /\ At("workfile")
    /\ run.tool = "wsub"
    /\ Exit("error")
    /\ dirs' = Cleaned(dirs)
    /\ UNCHANGED jobVars

\* A data source without a row (StopIteration, the workfile was opened), or
\* one that the csv module gives up on; for wresume, a log that is not there,
\* is empty or has no started line, or a workfile that is not there (the new one
\* was opened).  No handler takes these.
DataException ==
    /\ At("workfile")
    /\ dirs' \in {dirs, Put("temp", "workfile")}
    /\ Exit("exception")
    /\ UNCHANGED jobVars

\* wresume has nothing to do.
NothingLeft ==
    /\ At("workfile")
    /\ run.tool = "wresume"
    /\ Exit("nothing_left")
    /\ UNCHANGED <<dirs, jobVars>>

\* submit_job with --dryrun stops after the submit command was written.
DryRun ==
    /\ At("submit")
    /\ run.dryrun
    /\ dirs' = Put("temp", "submit")
    /\ Exit("dryrun")
    /\ UNCHANGED jobVars

\* The submit command fails, which wsub handles and wresume does not; or there is
\* no such command (FileNotFoundError), which neither does.
SubmissionFails ==
    /\ At("submit")
    /\ ~run.dryrun
    /\ \/ /\ run.tool = "wsub"
          /\ Exit("error")
          /\ dirs' = Cleaned(Put("temp", "submit"))
       \/ /\ Exit("exception")
          /\ dirs' = Put("temp", "submit")
    /\ UNCHANGED jobVars

Submit ==
    /\ At("submit")
    /\ ~run.dryrun
    /\ dirs' = Put("temp", "submit")
    /\ queue' = "queued"
    /\ front' = "parse"
    /\ UNCHANGED <<run, exit, script, address, server, clients>>

ParsesOutputNever == FALSE

\* wsub takes the job id from what the submit command printed; wresume takes
\* what it printed for the id, which it is with PBS.
ParsesOutput == run.tool = "wsub"

ParseOutput ==
    /\ At("parse")
    /\ front' = "rename"
    /\ UNCHANGED <<run, exit, dirs, jobVars>>

\* The output names no cluster: the parser raises a ValueError.
ParseException ==
    /\ At("parse")
    /\ ParsesOutput
    /\ run.scheduler = "slurm"
    /\ Exit("exception")
    /\ UNCHANGED <<dirs, jobVars>>

FinalName ==
    IF ParsesOutput \/ run.scheduler = "pbs" THEN "worker" ELSE "misnamed"

RenameCopies ==
    /\ At("rename")
    /\ dirs[FinalName] = {}
    /\ dirs' = [dirs EXCEPT ![FinalName] = dirs["temp"]]
    /\ front' = "report"
    /\ UNCHANGED <<run, exit, jobVars>>

Rename ==
    /\ At("rename")
    /\ dirs[FinalName] = {}
    /\ dirs' = [dirs EXCEPT ![FinalName] = dirs["temp"], !["temp"] = {}]
    /\ front' = "report"
    /\ UNCHANGED <<run, exit, jobVars>>

\* The name is taken by a directory that is not empty (OSError).
RenameException ==
    /\ At("rename")
    /\ dirs[FinalName] # {}
    /\ Exit("exception")
    /\ UNCHANGED <<dirs, jobVars>>

Report ==
    /\ At("report")
    /\ Exit("reported")
    /\ UNCHANGED <<dirs, jobVars>>

FrontStep ==
    \/ CreateTempdir \/ CreateWorkfile \/ CreateJobscript
    \/ DataError \/ DataException \/ NothingLeft \/ JobscriptException
    \/ DryRun \/ SubmissionFails \/ Submit
    \/ ParseOutput \/ ParseException \/ Rename \/ RenameException \/ Report

-----------------------------------------------------------------------------
(* The server's start: log, workfile, socket, server_info.                 *)

Starting == {"log", "workfile", "bind", "info_open", "info_write"}

ServerAt(place, next) ==
    /\ server = place
    /\ server' = next
    /\ UNCHANGED <<run, frontVars, queue, script, address, clients>>

\* The first line of the log creates its directory.
InitLogging == ServerAt("log", "workfile") /\ dirs' = Put("worker", "log")

OpenWorkfile ==
    /\ IF "workfile" \in dirs["worker"]
       THEN ServerAt("workfile", "bind")
       ELSE ServerAt("workfile", "no_workfile")
    /\ UNCHANGED dirs

\* The port may be taken, by another job on the same node.
Bind ==
    /\ ServerAt("bind", "info_open") \/ ServerAt("bind", "no_socket")
    /\ UNCHANGED dirs

OpenServerInfo ==
    /\ ServerAt("info_open", "info_write")
    /\ dirs' = [dirs EXCEPT !["worker"] = (@ \ Info) \cup {"info_empty"}]

WriteServerInfo ==
    /\ ServerAt("info_write", "serving")
    /\ dirs' = [dirs EXCEPT !["worker"] = (@ \ Info) \cup {"info"}]

\* The clients did all the work.
ServerDone ==
    /\ clients = "connected"
    /\ ServerAt("serving", "done")
    /\ UNCHANGED dirs

ServerStep ==
    InitLogging \/ OpenWorkfile \/ Bind \/ OpenServerInfo \/ WriteServerInfo \/ ServerDone

-----------------------------------------------------------------------------
(* The batch system and the job script.                                    *)

StartJob ==
    /\ queue = "queued"
    /\ queue' = "running"
    /\ UNCHANGED <<run, frontVars, dirs, script, address, server, clients>>

\* The server is put in the background, where its failure is not seen.
StartServer ==
    /\ queue = "running"
    /\ script = "idle"
    /\ script' = "delay"
    /\ server' = "log"
    /\ UNCHANGED <<run, frontVars, dirs, queue, address, clients>>

\* The job script is over: what is left of the job is killed.
EndJob ==
    /\ queue' = "ended"
    /\ script' = "exited"
    /\ server' = IF server \in Starting \cup {"serving"} THEN "killed" ELSE server
    /\ clients' = IF clients \in {"connected", "misdirected"} THEN "ended" ELSE clients
    /\ UNCHANGED <<run, frontVars, dirs, address>>

HasInfo == Info \cap dirs["worker"] # {}

ChecksInfoNever == FALSE

\* Only the Slurm script tests that the file is there.
ChecksInfo == run.scheduler = "slurm" /\ run.tool # "launch"

ReadServerInfoUncut ==
    /\ script = "delay"
    /\ ChecksInfo => HasInfo
    /\ address' = IF HasInfo THEN CHOOSE i \in Info : i \in dirs["worker"] ELSE "empty"
    /\ script' = "clients"
    /\ UNCHANGED <<run, frontVars, dirs, queue, server, clients>>

\* The delay may be over at any time.  An empty file, or none, gives an empty
\* address and id.
ReadServerInfo ==
    /\ script = "delay"
    /\ ChecksInfo => HasInfo
    /\ address' = IF "info" \in dirs["worker"] THEN "own"
                  ELSE IF "info_stale" \in dirs["worker"] THEN "stale"
                  ELSE "empty"
    /\ script' = "clients"
    /\ UNCHANGED <<run, frontVars, dirs, queue, server, clients>>

NoServerInfo ==
    /\ script = "delay"
    /\ ChecksInfo /\ ~HasInfo
    /\ EndJob

\* A client exits when its server's id is not valid.  A stale address may be
\* that of another node, or the same again: nobody compares the ids.
StartClients ==
    /\ script = "clients"
    /\ clients' \in CASE address = "own"   -> {"connected"}
                      [] address = "stale" -> {"connected", "misdirected"}
                      [] address = "empty" -> {"rejected"}
    /\ script' = "wait"
    /\ UNCHANGED <<run, frontVars, dirs, queue, address, server>>

WaitForServed ==
    /\ script = "wait"
    /\ server \in {"done", "no_workfile", "no_socket"}
    /\ clients = "ended"
    /\ EndJob

\* wait: for the server and for all clients.
Wait ==
    /\ script = "wait"
    /\ server \in {"done", "no_workfile", "no_socket"}
    /\ clients \in {"ended", "crashed", "rejected"}
    /\ EndJob

ScriptStep == StartServer \/ ReadServerInfo \/ NoServerInfo \/ StartClients \/ Wait

\* Clients end when the server does, or when nobody answers them.
ClientsLeave ==
    /\ \/ clients = "connected" /\ server \notin Starting \cup {"serving"}
       \/ clients = "misdirected"
    /\ clients' = "ended"
    /\ UNCHANGED <<run, frontVars, dirs, queue, script, address, server>>

\* A client goes down with an item, or gives up after a timeout, and the others
\* end: the server waits for the item.
ClientsCrash ==
    /\ clients = "connected"
    /\ clients' = "crashed"
    /\ UNCHANGED <<run, frontVars, dirs, queue, script, address, server>>

\* The end of the walltime, or the job is cancelled.
Kill == queue = "running" /\ run.tool # "launch" /\ EndJob

Next ==
    \/ FrontStep
    \/ StartJob
    \/ ScriptStep
    \/ ServerStep
    \/ ClientsLeave
    \/ ClientsCrash
    \/ Kill

Spec == Init /\ [][Next]_vars

\* Every process runs, the batch system starts the job some time, and clients
\* with a server finish the work or crash.
Fairness ==
    /\ WF_vars(FrontStep) /\ WF_vars(StartJob) /\ WF_vars(ScriptStep)
    /\ WF_vars(ServerStep) /\ WF_vars(ClientsLeave)

FairSpec == Spec /\ Fairness

-----------------------------------------------------------------------------
\* Types of all variables.
TypeOK ==
    /\ run \in [tool : AllTools, scheduler : AllSchedulers, debug : BOOLEAN, dryrun : BOOLEAN]
    /\ front \in {"tempdir", "workfile", "jobscript", "submit", "parse", "rename",
                  "report", "exited"}
    /\ exit \in {"none", "reported", "dryrun", "nothing_left", "error", "exception"}
    /\ dirs \in [Dir -> SUBSET Entry]
    /\ queue \in {"none", "queued", "running", "ended"}
    /\ script \in {"idle", "delay", "clients", "wait", "exited"}
    /\ address \in {"none", "empty", "stale", "own"}
    /\ server \in Starting \cup {"idle", "serving", "done", "no_workfile", "no_socket", "killed"}
    /\ clients \in {"none", "connected", "misdirected", "rejected", "crashed", "ended"}

\* wresume with Slurm gives the directory another name than the job expects.
Misnamed == run.tool = "wresume" /\ run.scheduler = "slurm"

\* When a job id was printed, the directory with that id in its name has all
\* that the job and wresume need, however early the job started.
ReportedComplete ==
    exit = "reported" /\ ~Misnamed =>
        /\ queue # "none"
        /\ Artifacts \subseteq dirs["worker"]
        /\ dirs["temp"] = {}

\* A job that starts before the directory has its final name finds no
\* workfile, and then its id is never printed: the log that the server makes
\* before it opens the workfile takes the name that the directory would get.
NoReportIfMissed ==
    exit = "reported" /\ ~Misnamed => server # "no_workfile"

\* A job resumed on Slurm serves no item.
MisnamedNeverServes ==
    Misnamed => server \notin {"bind", "info_open", "info_write", "serving", "done"}

\* From the submission on, the artifacts are in one directory: no exit of the
\* tool takes them from a job, and none leaves them twice.
ArtifactsInOnePlace ==
    run.tool # "launch" /\ queue # "none" =>
        \E d \in Dir : \A e \in Dir : Artifacts \cap dirs[e] # {} <=> e = d

\* An error that wsub handles leaves nothing behind, unless it debugs.
HandledLeavesNothing ==
    exit = "error" => queue = "none" /\ (run.debug \/ dirs["temp"] = {})

\* On Slurm, clients start only after a server has its workfile and its socket,
\* so that a server that failed to start ends the job.
ServerBeforeClients ==
    run.scheduler = "slurm" /\ run.tool # "launch" /\ clients # "none" =>
        server \in {"info_write", "serving", "done", "killed"}

\* The server serves, and no client is left to ask for work or to give back
\* the item that the server waits for.
Starved ==
    /\ script = "wait"
    /\ server = "serving"
    /\ clients \in {"rejected", "crashed", "ended"}

\* A job comes to an end, with any failure at its start, unless its server
\* starves; then it lasts until its walltime.
EndsOrStarves == <>[](queue # "running" \/ Starved)

\* What create_tempdir says of the directory: it is renamed as soon as the job
\* id is known, to the name that the job script uses.
ResumedHasDirectory == exit = "reported" => Artifacts \subseteq dirs["worker"]

=============================================================================
