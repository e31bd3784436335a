------------------------------- MODULE Client -------------------------------
(***************************************************************************)
(* A client (src/src/client.cpp): it asks the server for work, executes    *)
(* the item, sends the result back and waits for the acknowledgement, in a *)
(* loop, until the server tells it to stop.  Its socket has a timeout.     *)
(*                                                                         *)
(* pc[c] is the statement of the loop that client c is about to execute:   *)
(*   "query"       send the query         "process"    run the work item   *)
(*   "await_work"  receive the reply      "await_ack"  receive the ack     *)
(* or how its process ended:                                               *)
(*   "stopped"  normal exit               "failed"   exit on a bad message *)
(*   "aborted"  an exception no handler catches     "crashed"  died        *)
(***************************************************************************)
EXTENDS Message

VARIABLES
    pc,     \* the control state of each client
    work    \* the id and content of the work message each client is handling

clientVars == <<pc, work>>

Ended == {"stopped", "aborted", "failed", "crashed"}

PC == {"query", "await_work", "process", "await_ack"} \cup Ended

NoWork == [id |-> NoItem, content |-> NoItem]

ClientInit ==
    /\ pc = [c \in Clients |-> "query"]
    /\ work = [c \in Clients |-> NoWork]

SendQuery(c) ==
    /\ pc[c] = "query"
    /\ Send(c, Signal("query"))
    /\ pc' = [pc EXCEPT ![c] = "await_work"]
    /\ UNCHANGED work

\* After an acknowledgement timed out the REQ socket still awaits its reply:
\* the send of the next query throws, and nothing catches it.
QueryRefused(c) ==
    /\ pc[c] = "query"
    /\ awaiting[c]
    /\ pc' = [pc EXCEPT ![c] = "aborted"]
    /\ UNCHANGED <<work, request, reply, awaiting>>

AfterReplyNoStop(subject) ==
    IF subject = "work" THEN "process" ELSE "failed"

AfterReply(subject) ==
    CASE subject = "stop" -> "stopped"
      [] subject = "work" -> "process"
      [] OTHER            -> "failed"

\* The server's reply to the query.
RecvReply(c) ==
    /\ pc[c] = "await_work"
    /\ Receive(c)
    /\ pc' = [pc EXCEPT ![c] = AfterReply(reply[c].subject)]
    /\ work' = [work EXCEPT ![c] =
                  IF reply[c].subject = "work"
                  THEN [id |-> reply[c].id, content |-> reply[c].content]
                  ELSE @]

QueryTimeoutRetry(c) ==
    /\ pc[c] = "await_work"
    /\ pc' = [pc EXCEPT ![c] = "query"]
    /\ awaiting' = [awaiting EXCEPT ![c] = FALSE]
    /\ UNCHANGED <<work, request, reply>>

\* The query's reply timed out: the empty message is parsed all the same, and
\* the parse exception is not caught.
QueryTimeout(c) ==
    /\ pc[c] = "await_work"
    /\ pc' = [pc EXCEPT ![c] = "aborted"]
    /\ UNCHANGED <<work, request, reply, awaiting>>

\* process_work runs the item to its end; its output is sent as the result,
\* under the id the work message had.
Process(c) ==
    /\ pc[c] = "process"
    /\ Send(c, Msg("result", work[c].id, work[c].content))
    /\ pc' = [pc EXCEPT ![c] = "await_ack"]
    /\ UNCHANGED work

AfterAckAnyStops(subject) ==
    IF subject \in {"ack", "ack_stop"} THEN "stopped" ELSE "query"

AfterAck(subject) == IF subject = "ack_stop" THEN "stopped" ELSE "query"

RecvAck(c) ==
    /\ pc[c] = "await_ack"
    /\ Receive(c)
    /\ pc' = [pc EXCEPT ![c] = AfterAck(reply[c].subject)]
    /\ UNCHANGED work

AckTimeoutResend(c) ==
    /\ pc[c] = "await_ack"
    /\ pc' = [pc EXCEPT ![c] = "process"]
    /\ awaiting' = [awaiting EXCEPT ![c] = FALSE]
    /\ UNCHANGED <<work, request, reply>>

\* The acknowledgement timed out: it is logged and the loop goes on.
AckTimeout(c) ==
    /\ pc[c] = "await_ack"
    /\ pc' = [pc EXCEPT ![c] = "query"]
    /\ UNCHANGED <<work, request, reply, awaiting>>

=============================================================================
