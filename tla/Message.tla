------------------------------ MODULE Message ------------------------------
(***************************************************************************)
(* The messages of the server/client protocol (src/src/message.h) and the  *)
(* request/reply sockets that carry them (ZeroMQ, external).               *)
(*                                                                         *)
(* A client owns a REQ socket, which is in strict lock-step: a message may *)
(* be sent only when no reply is awaited, so at most one message of a      *)
(* client is under way.  The state of the connection of client c is        *)
(*   request[c]   the message the server has not read yet, or NoMsg        *)
(*   reply[c]     the message the client has not read yet, or NoMsg        *)
(*   awaiting[c]  the state of the REQ socket: a reply is awaited          *)
(***************************************************************************)
EXTENDS Naturals

CONSTANTS
    Clients,    \* the clients, one process each
    NumItems,   \* the number of work items in the workfile
    Faults      \* the environment's faults: a subset of FaultKinds

\* "crash": a client dies; "kill": the server dies; "loss": a connection
\* breaks and the message under way is lost; "slow": an answer that is on its
\* way may take longer than the client's timeout.
FaultKinds == {"crash", "kill", "loss", "slow"}

ASSUME NumItemsAssumption == NumItems \in Nat

ASSUME FaultsAssumption == Faults \subseteq FaultKinds

VARIABLES request, reply, awaiting

Subject == {"ack", "query", "result", "work", "ack_stop", "stop", "invalid"}

\* The content of a work message is a work item, and that of a result message
\* is the output of one; both are named by the item's position in the workfile.
Item == 1..NumItems

\* No item: the id and the content of a message that has none.  The builder's
\* build() resets both after each message.
NoItem == 0

Message ==
    [subject : Subject, id : Item \cup {NoItem}, content : Item \cup {NoItem}]

Msg(subject, id, content) ==
    [subject |-> subject, id |-> id, content |-> content]

\* A message with a subject only.
Signal(subject) == Msg(subject, NoItem, NoItem)

NoMsg == Signal("invalid")

SocketsInit ==
    /\ request = [c \in Clients |-> NoMsg]
    /\ reply = [c \in Clients |-> NoMsg]
    /\ awaiting = [c \in Clients |-> FALSE]

\* The client's send: legal for a REQ socket that awaits no reply.
Send(c, msg) ==
    /\ ~awaiting[c]
    /\ request' = [request EXCEPT ![c] = msg]
    /\ awaiting' = [awaiting EXCEPT ![c] = TRUE]
    /\ UNCHANGED reply

\* The client's recv, when a reply is there.
Receive(c) ==
    /\ awaiting[c]
    /\ reply[c] # NoMsg
    /\ reply' = [reply EXCEPT ![c] = NoMsg]
    /\ awaiting' = [awaiting EXCEPT ![c] = FALSE]
    /\ UNCHANGED request

\* The server reads the request of c and answers it on the same connection.
Answer(c, msg) ==
    /\ request' = [request EXCEPT ![c] = NoMsg]
    /\ reply' = [reply EXCEPT ![c] = msg]
    /\ UNCHANGED awaiting

\* The connection of c breaks while a message is under way.
Drop(c) ==
    /\ \/ request[c] # NoMsg
       \/ reply[c] # NoMsg
    /\ request' = [request EXCEPT ![c] = NoMsg]
    /\ reply' = [reply EXCEPT ![c] = NoMsg]
    /\ UNCHANGED awaiting

=============================================================================
