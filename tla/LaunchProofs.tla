---------------------------- MODULE LaunchProofs ----------------------------
(***************************************************************************)
(* Proofs about Launch for every choice of tools and schedulers: what a    *)
(* tool leaves in the directories against what the job finds there, at     *)
(* whatever time the job starts.                                           *)
(***************************************************************************)
EXTENDS Launch, TLAPS

\* The tool's directories before the submission, in the order of main().
BeforeSubmission ==
    front \in {"tempdir", "workfile", "jobscript", "submit"} =>
        /\ exit = "none"
        /\ queue = "none"
        /\ dirs["worker"] = {} /\ dirs["misnamed"] = {}
        /\ front = "tempdir" => dirs["temp"] = {}
        /\ front \in {"jobscript", "submit"} => "workfile" \in dirs["temp"]
        /\ front = "submit" => "jobscript" \in dirs["temp"]

\* The artifacts are in directory d, and none of them is elsewhere.
ArtifactsIn(d) ==
    /\ Artifacts \subseteq dirs[d]
    /\ \A e \in Dir \ {d} : Artifacts \cap dirs[e] = {}

\* After it, the artifacts are under the temporary or under the final name.
AfterSubmission ==
    /\ front \in {"parse", "rename"} => exit = "none" /\ queue # "none" /\ ArtifactsIn("temp")
    /\ front = "report" => exit = "none" /\ queue # "none" /\ ArtifactsIn(FinalName)
    /\ front = "report" \/ exit = "reported" => dirs["temp"] = {}

Ending ==
    /\ run.tool # "launch" => (front = "exited") = (exit # "none")
    /\ run.tool = "launch" => front = "exited" /\ exit = "none"
    /\ exit = "reported" => queue # "none" /\ ArtifactsIn(FinalName)
    /\ exit \in {"error", "dryrun", "nothing_left"} => queue = "none"
    /\ exit = "error" => run.debug \/ dirs["temp"] = {}
    /\ exit = "exception" /\ queue # "none" => ArtifactsIn("temp")

\* Nothing runs before the job does, and the job's processes start in order.
JobOrder ==
    /\ queue \in {"none", "queued"} => script = "idle" /\ run.tool # "launch"
    /\ script = "idle" => server = "idle" /\ clients = "none"
    /\ server = "idle" => script \in {"idle", "exited"} /\ clients = "none"
    /\ script = "delay" => clients = "none"
    /\ script = "clients" => address # "none"

\* A server that failed for want of a workfile, and the log that it wrote
\* before, stay as they are: the directory cannot get that name any more.
LogFirst ==
    /\ server \notin {"idle", "log", "killed"} => "log" \in dirs["worker"]
    /\ server = "no_workfile" => "workfile" \notin dirs["worker"]

\* Past the socket, in a server or in the file it leaves.
Bound == server \in {"info_write", "serving", "done", "killed"}

InfoMeansBound ==
    run.tool # "launch" =>
        /\ HasInfo => Bound
        /\ run.scheduler = "slurm" /\ (script = "clients" \/ clients # "none") => Bound

MisnamedHasNoWorkfile ==
    Misnamed =>
        /\ "workfile" \notin dirs["worker"]
        /\ server \notin {"bind", "info_open", "info_write", "serving", "done", "no_socket"}

\* The temporary directory has what the tool puts there.
TempIsPlain == dirs["temp"] \subseteq {"."} \cup Artifacts

LInv ==
    /\ TypeOK
    /\ TempIsPlain
    /\ BeforeSubmission
    /\ AfterSubmission
    /\ Ending
    /\ JobOrder
    /\ LogFirst
    /\ InfoMeansBound
    /\ MisnamedHasNoWorkfile

-----------------------------------------------------------------------------
LEMMA LaunchInit == Init => LInv
  BY LaunchAssumption
     DEF LInv, TypeOK, TempIsPlain, BeforeSubmission, AfterSubmission, ArtifactsIn,
         Ending, JobOrder, LogFirst, InfoMeansBound, MisnamedHasNoWorkfile,
         HasInfo, Misnamed, AllTools, AllSchedulers, Dir, Artifacts, Info, Entry,
         Starting, Init

\* The steps of wsub and wresume.
LEMMA FrontStepKeeps ==
    ASSUME LInv, FrontStep
    PROVE  LInv'
<1> USE DEF LInv, TypeOK, TempIsPlain, BeforeSubmission, AfterSubmission, ArtifactsIn,
             Ending, JobOrder, LogFirst, Bound, InfoMeansBound,
             MisnamedHasNoWorkfile, HasInfo, Misnamed, FinalName, ParsesOutput,
             Dir, Artifacts, Info, Entry, Starting
<1>1. CASE CreateTempdir
  BY <1>1 DEF CreateTempdir, At, Exit, jobVars
<1>2. CASE CreateWorkfile
  BY <1>2 DEF CreateWorkfile, Put, At, Exit, jobVars
<1>3. CASE CreateJobscript
  BY <1>3 DEF CreateJobscript, Put, At, Exit, jobVars
<1>4. CASE DataError
  BY <1>4 DEF DataError, Cleaned, At, Exit, jobVars
<1>5. CASE DataException
  BY <1>5 DEF DataException, Put, At, Exit, jobVars
<1>6. CASE NothingLeft
  BY <1>6 DEF NothingLeft, At, Exit, jobVars
<1>7. CASE DryRun
  BY <1>7 DEF DryRun, Put, At, Exit, jobVars
<1>8. CASE SubmissionFails
  BY <1>8 DEF SubmissionFails, Put, Cleaned, At, Exit, jobVars
<1>9. CASE Submit
  BY <1>9 DEF Submit, Put, At, Exit, jobVars
<1>10. CASE ParseOutput
  BY <1>10 DEF ParseOutput, At, Exit, jobVars
<1>11. CASE ParseException
  BY <1>11 DEF ParseException, At, Exit, jobVars
<1>12. CASE Rename
  BY <1>12 DEF Rename, At, Exit, jobVars
<1>13. CASE RenameException
  BY <1>13 DEF RenameException, At, Exit, jobVars
<1>14. CASE Report
  BY <1>14 DEF Report, At, Exit, jobVars
<1>15. CASE JobscriptException
  BY <1>15 DEF JobscriptException, Put, At, Exit, jobVars
<1> QED  BY <1>1, <1>2, <1>3, <1>4, <1>5, <1>6, <1>7, <1>8, <1>9, <1>10, <1>11, <1>12, <1>13, <1>14, <1>15 DEF FrontStep

\* The steps of the server's start.
LEMMA ServerStepKeeps ==
    ASSUME LInv, ServerStep
    PROVE  LInv'
<1> USE DEF LInv, TypeOK, TempIsPlain, BeforeSubmission, AfterSubmission, ArtifactsIn,
             Ending, JobOrder, LogFirst, Bound, InfoMeansBound,
             MisnamedHasNoWorkfile, HasInfo, Misnamed, FinalName, ParsesOutput,
             Dir, Artifacts, Info, Entry, Starting
<1>1. CASE InitLogging
  BY <1>1 DEF InitLogging, Put, ServerAt, frontVars
<1>2. CASE OpenWorkfile
  BY <1>2 DEF OpenWorkfile, ServerAt, frontVars
<1>3. CASE Bind
  BY <1>3 DEF Bind, ServerAt, frontVars
<1>4. CASE OpenServerInfo
  BY <1>4 DEF OpenServerInfo, ServerAt, frontVars
<1>5. CASE WriteServerInfo
  BY <1>5 DEF WriteServerInfo, ServerAt, frontVars
<1>6. CASE ServerDone
  BY <1>6 DEF ServerDone, ServerAt, frontVars
<1> QED  BY <1>1, <1>2, <1>3, <1>4, <1>5, <1>6 DEF ServerStep

\* The steps of the job script.
LEMMA ScriptStepKeeps ==
    ASSUME LInv, ScriptStep
    PROVE  LInv'
<1> USE DEF LInv, TypeOK, TempIsPlain, BeforeSubmission, AfterSubmission, ArtifactsIn,
             Ending, JobOrder, LogFirst, Bound, InfoMeansBound,
             MisnamedHasNoWorkfile, HasInfo, Misnamed, FinalName, ParsesOutput,
             Dir, Artifacts, Info, Entry, Starting
<1>1. CASE StartServer
  BY <1>1 DEF StartServer, frontVars
<1>2. CASE ReadServerInfo
  BY <1>2 DEF ReadServerInfo, ChecksInfo, frontVars
<1>3. CASE NoServerInfo
  BY <1>3 DEF NoServerInfo, EndJob, ChecksInfo, frontVars
<1>4. CASE StartClients
  BY <1>4 DEF StartClients, frontVars
<1>5. CASE Wait
  BY <1>5 DEF Wait, EndJob, frontVars
<1> QED  BY <1>1, <1>2, <1>3, <1>4, <1>5 DEF ScriptStep

THEOREM LaunchInvariance == Spec => []LInv
<1>1. LInv /\ [Next]_vars => LInv'
  <2> SUFFICES ASSUME LInv, [Next]_vars PROVE LInv'
    OBVIOUS
  <2> USE DEF LInv, TypeOK, TempIsPlain, BeforeSubmission, AfterSubmission, ArtifactsIn,
             Ending, JobOrder, LogFirst, Bound, InfoMeansBound,
             MisnamedHasNoWorkfile, HasInfo, Misnamed, FinalName, ParsesOutput,
             Dir, Artifacts, Info, Entry, Starting
  <2>1. CASE FrontStep
    BY <2>1, FrontStepKeeps
  <2>2. CASE ServerStep
    BY <2>2, ServerStepKeeps
  <2>3. CASE ScriptStep
    BY <2>3, ScriptStepKeeps
  <2>4. CASE StartJob
    BY <2>4 DEF StartJob, frontVars
  <2>5. CASE ClientsLeave
    BY <2>5 DEF ClientsLeave, frontVars
  <2>6. CASE ClientsCrash
    BY <2>6 DEF ClientsCrash, frontVars
  <2>7. CASE Kill
    BY <2>7 DEF Kill, EndJob, frontVars
  <2>8. CASE UNCHANGED vars
    BY <2>8 DEF vars, frontVars, jobVars
  <2> QED  BY <2>1, <2>2, <2>3, <2>4, <2>5, <2>6, <2>7, <2>8 DEF Next
<1> QED  BY LaunchInit, <1>1, PTL DEF Spec

\* All processes of a start stay at the places of their programs, and the
\* directories have the entries that these programs make, for any choice of
\* tools and schedulers.
THEOREM TypesHold == Spec => []TypeOK
<1>1. LInv => TypeOK
  BY DEF LInv
<1> QED  BY LaunchInvariance, <1>1, PTL

\* A job id that was printed comes with a directory of that name that has all
\* artifacts: Ending has them under the final name, and TempIsPlain that the
\* temporary one is gone.
THEOREM ReportIsComplete == Spec => []ReportedComplete
<1>1. LInv => ReportedComplete
  BY DEF LInv, AfterSubmission, Ending, ArtifactsIn, ReportedComplete, FinalName, ParsesOutput, Misnamed, TypeOK, AllTools, AllSchedulers
<1> QED  BY LaunchInvariance, <1>1, PTL

\* The id of a job that missed its workfile is never printed: the name is taken
\* by the log (LogFirst), so that the artifacts never get there.
THEOREM MissedIsNotReported == Spec => []NoReportIfMissed
<1>1. LInv => NoReportIfMissed
  BY DEF LInv, LogFirst, Ending, ArtifactsIn, NoReportIfMissed, FinalName, ParsesOutput, Misnamed, TypeOK, AllTools, AllSchedulers, Artifacts
<1> QED  BY LaunchInvariance, <1>1, PTL

\* A job that wresume submits to Slurm never serves.
THEOREM MisnamedServesNothing == Spec => []MisnamedNeverServes
<1>1. LInv => MisnamedNeverServes
  BY DEF LInv, MisnamedHasNoWorkfile, MisnamedNeverServes
<1> QED  BY LaunchInvariance, <1>1, PTL

\* From the submission on, the artifacts are in one directory, under the
\* temporary or under the final name.
THEOREM ArtifactsAreInOnePlace == Spec => []ArtifactsInOnePlace
<1>1. LInv => ArtifactsInOnePlace
  <2> SUFFICES ASSUME LInv, run.tool # "launch", queue # "none"
               PROVE  \E d \in Dir : ArtifactsIn(d)
    BY DEF ArtifactsInOnePlace, ArtifactsIn, Artifacts, Dir
  <2>1. ArtifactsIn("temp") \/ ArtifactsIn(FinalName)
    BY DEF LInv, TypeOK, BeforeSubmission, AfterSubmission, Ending
  <2> QED  BY <2>1 DEF Dir, FinalName
<1> QED  BY LaunchInvariance, <1>1, PTL

\* An error that wsub handles leaves neither a job nor, unless it debugs, a
\* directory.
THEOREM HandledErrorsLeaveNothing == Spec => []HandledLeavesNothing
<1>1. LInv => HandledLeavesNothing
  BY DEF LInv, Ending, HandledLeavesNothing
<1> QED  BY LaunchInvariance, <1>1, PTL

\* On Slurm, no client starts before the server has its workfile and its socket.
THEOREM ClientsFollowServer == Spec => []ServerBeforeClients
<1>1. LInv => ServerBeforeClients
  BY DEF LInv, InfoMeansBound, Bound, ServerBeforeClients
<1> QED  BY LaunchInvariance, <1>1, PTL

=============================================================================
