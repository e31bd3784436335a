----------------------------- MODULE Processor -----------------------------
(***************************************************************************)
(* The execution of a work item (src/src/work_processor/processor.cpp):    *)
(* the client writes the item to the standard input of a bash process,     *)
(* waits for that process to end, and only then reads what it wrote to the *)
(* pipes of its standard output and error.                                 *)
(*                                                                         *)
(* An item is a sequence of commands.  bash reads them from its input one  *)
(* at a time, as it executes them.  Pipes are bounded; a unit of output is *)
(* named by the place of the command that wrote it.                        *)
(***************************************************************************)
EXTENDS Naturals, Sequences, FiniteSets

CONSTANTS
    MaxCommands,    \* bound: the length of an item
    Capacity,       \* the number of units a pipe holds
    Chunk           \* the number of commands the output stream's buffer holds

ASSUME ProcessorAssumption ==
    /\ MaxCommands \in Nat
    /\ Capacity \in Nat
    /\ Chunk \in 1..Capacity

\* What a command does:
\*   "ok", "fail"    ends with status 0 or 1
\*   "out", "err"    writes a unit to its output or error
\*   "read"          reads its standard input to the end, as cat does
\*   "exit"          ends the script with status 3
\*   "spawn"         starts a background process that writes a unit of output
Command == {"ok", "fail", "out", "err", "read", "exit", "spawn"}

Item == UNION {[1..n -> Command] : n \in 0..MaxCommands}

\* The client puts "exit_status" after the item, which ends it with $?.

VARIABLES
    script,     \* the item and the "exit $?" that the client puts after it
    client,     \* the statement of process_work the client is at
    sent,       \* how many commands the client wrote to the child's input
    taken,      \* how many of them were read
    executing,  \* the place of the command being executed, 0 between two
    child,      \* "running" or "ended"
    status,     \* $?, in the end the exit status
    spawned,    \* the background processes, which hold the outputs open
    out_pipe, err_pipe,     \* what the pipes hold
    output_str, error_str   \* what the client read

childVars == <<taken, executing, child, status, spawned>>
pipes == <<out_pipe, err_pipe>>
strings == <<output_str, error_str>>
vars == <<script, client, sent, childVars, pipes, strings>>

Init ==
    /\ script \in {Append(s, "exit_status") : s \in Item}
    /\ client = "write"
    /\ sent = 0
    /\ taken = 0
    /\ executing = 0
    /\ child = "running"
    /\ status = 0
    /\ spawned = {}
    /\ out_pipe = <<>> /\ err_pipe = <<>>
    /\ output_str = <<>> /\ error_str = <<>>

-----------------------------------------------------------------------------
(* The child (bash) and the processes it starts.                           *)

ReadCommandUnguarded ==
    /\ child = "running"
    /\ executing = 0
    /\ taken' = taken + 1
    /\ executing' = taken + 1
    /\ UNCHANGED <<script, client, sent, child, status, spawned, pipes, strings>>

ReadCommand ==
    /\ child = "running"
    /\ executing = 0
    /\ taken < sent
    /\ taken' = taken + 1
    /\ executing' = taken + 1
    /\ UNCHANGED <<script, client, sent, child, status, spawned, pipes, strings>>

Executes(command) ==
    /\ child = "running"
    /\ executing # 0
    /\ script[executing] = command

Ends(s) ==
    /\ status' = s
    /\ executing' = 0
    /\ UNCHANGED <<script, client, sent, taken, child, strings>>

Plain ==
    /\ \/ Executes("ok") /\ Ends(0)
       \/ Executes("fail") /\ Ends(1)
    /\ UNCHANGED <<spawned, pipes>>

\* A write blocks while the pipe is full.
WriteOut ==
    /\ Executes("out")
    /\ Len(out_pipe) < Capacity
    /\ out_pipe' = Append(out_pipe, executing)
    /\ Ends(0)
    /\ UNCHANGED <<spawned, err_pipe>>

WriteErr ==
    /\ Executes("err")
    /\ Len(err_pipe) < Capacity
    /\ err_pipe' = Append(err_pipe, executing)
    /\ Ends(0)
    /\ UNCHANGED <<spawned, out_pipe>>

\* The command eats the rest of the script and waits for the end of its
\* input, which does not come: the client keeps its end of the pipe open.
ReadInput ==
    /\ Executes("read")
    /\ taken < sent
    /\ taken' = sent
    /\ UNCHANGED <<script, client, sent, executing, child, status, spawned, pipes, strings>>

Spawn ==
    /\ Executes("spawn")
    /\ spawned' = spawned \cup {executing}
    /\ Ends(0)
    /\ UNCHANGED pipes

\* A background process writes its unit and ends.
SpawnedWrites(p) ==
    /\ Len(out_pipe) < Capacity
    /\ out_pipe' = Append(out_pipe, p)
    /\ spawned' = spawned \ {p}
    /\ UNCHANGED <<script, client, sent, taken, executing, child, status, err_pipe, strings>>

Exit ==
    /\ \/ Executes("exit") /\ status' = 3
       \/ Executes("exit_status") /\ UNCHANGED status
    /\ executing' = 0
    /\ child' = "ended"
    /\ UNCHANGED <<script, client, sent, taken, spawned, pipes, strings>>

ChildStep ==
    ReadCommand \/ Plain \/ WriteOut \/ WriteErr \/ ReadInput \/ Spawn \/ Exit

-----------------------------------------------------------------------------
(* The client: process_work.                                               *)

NextChunkUnit == 1

\* The commands that the next write to the pipe holds.
NextChunk == IF Len(script) - sent < Chunk THEN Len(script) - sent ELSE Chunk

\* ops << work_item << "\nexit $?" << std::endl, buffer by buffer; a write
\* blocks until the pipe has room for it.
WriteScript ==
    /\ client = "write"
    /\ child = "running"
    /\ (sent - taken) + NextChunk <= Capacity
    /\ sent' = sent + NextChunk
    /\ client' = IF sent' = Len(script) THEN "wait" ELSE "write"
    /\ UNCHANGED <<script, childVars, pipes, strings>>

\* The item ended before the client wrote all of it: a write to a pipe that
\* nobody reads any more kills the client (SIGPIPE).
BrokenPipe ==
    /\ client = "write"
    /\ child = "ended"
    /\ client' = "killed"
    /\ UNCHANGED <<script, sent, childVars, pipes, strings>>

\* process.wait()
Wait ==
    /\ client = "wait"
    /\ child = "ended"
    /\ client' = "read_out"
    /\ UNCHANGED <<script, sent, childVars, pipes, strings>>

EndOfOutputChildOnly == child = "ended"

EndOfOutputClientHolds == FALSE

\* The pipes have no writer any more.
EndOfOutput == child = "ended" /\ spawned = {}

\* getline on the output, to its end.
ReadOut ==
    /\ client = "read_out"
    /\ \/ /\ out_pipe # <<>>
          /\ output_str' = Append(output_str, Head(out_pipe))
          /\ out_pipe' = Tail(out_pipe)
          /\ UNCHANGED client
       \/ /\ out_pipe = <<>>
          /\ EndOfOutput
          /\ client' = "read_err"
          /\ UNCHANGED <<output_str, out_pipe>>
    /\ UNCHANGED <<script, sent, childVars, err_pipe, error_str>>

ReadErr ==
    /\ client = "read_err"
    /\ \/ /\ err_pipe # <<>>
          /\ error_str' = Append(error_str, Head(err_pipe))
          /\ err_pipe' = Tail(err_pipe)
          /\ UNCHANGED client
       \/ /\ err_pipe = <<>>
          /\ EndOfOutput
          /\ client' = "returned"
          /\ UNCHANGED <<error_str, err_pipe>>
    /\ UNCHANGED <<script, sent, childVars, out_pipe, output_str>>

ClientStep == WriteScript \/ BrokenPipe \/ Wait \/ ReadOut \/ ReadErr

Next ==
    \/ ChildStep
    \/ \E p \in spawned : SpawnedWrites(p)
    \/ ClientStep

Spec == Init /\ [][Next]_vars

\* The client and the processes of the item run.
Fairness ==
    /\ WF_vars(ChildStep)
    /\ WF_vars(\E p \in spawned : SpawnedWrites(p))
    /\ WF_vars(ClientStep)

FairSpec == Spec /\ Fairness

-----------------------------------------------------------------------------
\* The places of the commands that are executed: those up to the first exit.
Executed ==
    {i \in DOMAIN script : \A j \in 1..(i - 1) : script[j] # "exit"}

Writing(commands) == {i \in Executed : script[i] \in commands}

ReadsInput == Writing({"read"}) # {}

\* The status of the last command executed before the end.
ExpectedStatus ==
    LET last == CHOOSE i \in Executed : \A j \in Executed : j <= i
    IN IF script[last] = "exit" THEN 3
       ELSE IF last > 1 /\ script[last - 1] = "fail" THEN 1
       ELSE 0

\* Types of all variables.
TypeOK ==
    /\ client \in {"write", "wait", "read_out", "read_err", "returned", "killed"}
    /\ sent \in 0..Len(script)
    /\ taken \in 0..sent
    /\ executing \in 0..taken
    /\ child \in {"running", "ended"}
    /\ status \in {0, 1, 3}
    /\ spawned \subseteq DOMAIN script
    /\ Len(out_pipe) <= Capacity /\ Len(err_pipe) <= Capacity

\* What commands of that kind wrote is in the order of the script.
InOrderOf(s, command) ==
    \A k, l \in DOMAIN s :
        k < l /\ script[s[k]] = command /\ script[s[l]] = command => s[k] < s[l]

\* The result has all that the item wrote, background processes included, in
\* the order of the commands, and the exit status of the last one.
ResultComplete ==
    client = "returned" =>
        /\ {output_str[k] : k \in DOMAIN output_str} = Writing({"out", "spawn"})
        /\ Len(output_str) = Cardinality(Writing({"out", "spawn"}))
        /\ InOrderOf(output_str, "out")
        /\ {error_str[k] : k \in DOMAIN error_str} = Writing({"err"})
        /\ Len(error_str) = Cardinality(Writing({"err"}))
        /\ InOrderOf(error_str, "err")
        /\ status = ExpectedStatus

\* The client is killed only by an item with an exit of its own, longer than
\* the stream's buffer.
KilledByEarlyExit ==
    client = "killed" =>
        Len(script) > Chunk /\ \E i \in Executed : script[i] = "exit"

\* An item whose output fits, that leaves its input alone, and that was
\* written at once if it exits early, returns in the end.
ReturnsWhenFits ==
    LET fits == /\ ~ReadsInput
                /\ Cardinality(Writing({"out", "spawn"})) <= Capacity
                /\ Cardinality(Writing({"err"})) <= Capacity
                /\ Len(script) <= Chunk \/ \A i \in Executed : script[i] # "exit"
    IN fits => <>(client = "returned")

\* What processor.h says of process_work: it executes the script and returns
\* its status, its output and its error.
ProcessWorkReturns == <>(client = "returned")

=============================================================================
