------------------------------- MODULE Worker -------------------------------
(***************************************************************************)
(* A job: one server and its clients (src/src/server.cpp and               *)
(* src/src/client.cpp), their sockets, and the faults of the environment   *)
(* in the set Faults.                                                      *)
(***************************************************************************)
EXTENDS Server, Client

vars == <<serverVars, clientVars, request, reply, awaiting>>

Init ==
    /\ SocketsInit
    /\ ServerInit
    /\ ClientInit

Running(c) == pc[c] \notin Ended

\* The answer that client c waits for is on its way, or will be.
AnswerPending(c) ==
    \/ reply[c] # NoMsg
    \/ request[c] # NoMsg /\ server = "loop"

\* The socket's timeout expires when no answer will come, or when the answer
\* takes longer than the timeout.
TimeoutExpires(c) ==
    \/ "slow" \in Faults
    \/ ~AnswerPending(c)

ClientStep(c) ==
    /\ \/ SendQuery(c)
       \/ QueryRefused(c)
       \/ RecvReply(c)
       \/ TimeoutExpires(c) /\ QueryTimeout(c)
       \/ Process(c)
       \/ RecvAck(c)
       \/ TimeoutExpires(c) /\ AckTimeout(c)
    /\ UNCHANGED serverVars

ServerStep(c) ==
    /\ Serve(c)
    /\ UNCHANGED clientVars

ClientCrash(c) ==
    /\ "crash" \in Faults
    /\ Running(c)
    /\ pc' = [pc EXCEPT ![c] = "crashed"]
    /\ UNCHANGED <<serverVars, work, request, reply, awaiting>>

ServerKill ==
    /\ "kill" \in Faults
    /\ server = "loop"
    /\ server' = "dead"
    /\ UNCHANGED <<nr_items, to_do, out, clientVars, request, reply, awaiting>>

\* A message is lost when its connection breaks, or when the process at the
\* client's end of the connection is gone.
Disconnect(c) ==
    /\ "loss" \in Faults \/ ~Running(c)
    /\ Drop(c)
    /\ UNCHANGED <<serverVars, clientVars>>

\* Every process has ended and nothing is under way: the job is over.
Terminated ==
    /\ server # "loop"
    /\ \A c \in Clients : ~Running(c) /\ request[c] = NoMsg /\ reply[c] = NoMsg
    /\ UNCHANGED vars

Next ==
    \/ \E c \in Clients : ClientStep(c) \/ ServerStep(c)
    \/ \E c \in Clients : ClientCrash(c) \/ Disconnect(c)
    \/ ServerKill
    \/ Terminated

Spec == Init /\ [][Next]_vars

\* Each process runs, a work item ends, a timeout expires when no answer
\* comes, and the socket takes its peers' messages in turn (ZeroMQ reads the
\* connections of a REP socket round-robin), so that no client waits for ever
\* while the server serves.  Faults may happen and need not.
Fairness ==
    \A c \in Clients : WF_vars(ClientStep(c)) /\ WF_vars(ServerStep(c))

FairSpec == Spec /\ Fairness

-----------------------------------------------------------------------------
\* Types of all variables of the job.
TypeOK ==
    /\ request \in [Clients -> Message]
    /\ reply \in [Clients -> Message]
    /\ awaiting \in [Clients -> BOOLEAN]
    /\ server \in {"loop", "done", "failed", "dead"}
    /\ nr_items \in 0..NumItems
    /\ to_do \subseteq Item
    /\ out \in Seq(Item)
    /\ pc \in [Clients -> PC]
    /\ work \in [Clients -> [id : Item \cup {NoItem}, content : Item \cup {NoItem}]]

\* Client c, or a message from or to it, carries the item i.
Carries(c, i) ==
    \/ reply[c].subject = "work" /\ reply[c].id = i
    \/ request[c].subject = "result" /\ request[c].id = i
    \/ pc[c] = "process" /\ work[c].id = i

\* An item under way is open at the server, and is with one client only
\* (the server's to_do against what messages and clients hold).
Custody ==
    \A c \in Clients, i \in Item \cup {NoItem} :
        Carries(c, i) =>
            /\ i \in to_do
            /\ \A d \in Clients \ {c} : ~Carries(d, i)

\* to_do is exactly the items handed out whose result is not written yet, and
\* only items that were handed out have results.
ToDoExact ==
    /\ Written \subseteq 1..nr_items
    /\ to_do = (1..nr_items) \ Written

\* The result of an item is written at most once, whatever messages are lost,
\* late or repeated by clients that try again after a timeout.
WrittenOnce ==
    \A k, l \in DOMAIN out : out[k] = out[l] => k = l

\* The server leaves its loop only when the output has every item's result.
DoneIsComplete ==
    server = "done" => Written = Item

\* A client that is told to stop finds no item left to hand out: no client
\* goes home while there is work.
StopIsFinal ==
    \A c \in Clients :
        \/ reply[c].subject \in {"stop", "ack_stop"}
        \/ pc[c] = "stopped"
        => nr_items = NumItems

\* A client's id and content stay together: the result sent under an id is
\* that of the item with that position in the workfile, so that the log,
\* which has the ids, tells which results the output has.
IdIsPosition ==
    \A c \in Clients :
        /\ reply[c].subject = "work" => reply[c].id = reply[c].content
        /\ pc[c] = "process" => work[c].id = work[c].content
        /\ request[c].subject = "result" => request[c].id = request[c].content

\* No process ever meets a message it does not expect: the branches
\* "invalid message" of both loops are never taken.
ProtocolKept ==
    /\ server # "failed"
    /\ \A c \in Clients : pc[c] # "failed"

\* Without faults a client aborts only when the server has finished: the
\* query that comes after the last result finds nobody to answer it.
AbortOnlyAfterEnd ==
    \A c \in Clients : pc[c] = "aborted" => server = "done"

\* An item once handed out is never handed out again, not even after its
\* client is gone, and no result is taken back from the output.
NeverReassigned ==
    [][/\ to_do' \ to_do \subseteq {nr_items + 1}
       /\ \A k \in DOMAIN out : k \in DOMAIN out' /\ out'[k] = out[k]]_vars

\* Without faults the server finishes.
ServerCompletes == <>(server = "done")

\* Every process ends or crashes, also when the server is killed, messages
\* are lost and other clients crash: the timeout gets every client out.
ClientsEnd == <>[](\A c \in Clients : ~Running(c))

\* What README.md says of the job: a crash of a client has no impact on the
\* server, so that the server finishes as long as one client does not crash.
CrashHasNoImpact ==
    (\E c \in Clients : [](pc[c] # "crashed")) => ServerCompletes

\* What a fault leaves intact: as long as one client does not go down, every
\* item is done in the end but at most one for each client that went down.
FaultsContained ==
    LET down == {c \in Clients : pc[c] \in {"crashed", "aborted"}}
    IN \/ \A c \in Clients : <>(c \in down)
       \/ <>[](/\ Item \ Written = to_do
               /\ Cardinality(to_do) <= Cardinality(down))

-----------------------------------------------------------------------------
\* The refinement of the abstract dispatcher.
AbstractStatus ==
    [i \in Item |-> IF i \in Written THEN "done"
                    ELSE IF i <= nr_items THEN "started"
                    ELSE "waiting"]

D == INSTANCE Dispatch WITH status <- AbstractStatus,
                            open <- server # "done"

\* Under any faults the server is a dispatcher.
ImplementsDispatch == D!Spec

\* Without faults it is one that gets its work done.
ImplementsFairDispatch == D!FairSpec

=============================================================================
