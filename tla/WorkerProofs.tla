---------------------------- MODULE WorkerProofs ----------------------------
(***************************************************************************)
(* Proofs about Worker for every set of clients, every number of items and *)
(* every set of faults.                                                    *)
(***************************************************************************)
EXTENDS Worker, TLAPS

\* The lock-step of a client with its socket: what may be under way in each
\* control state, and which subjects travel in which direction.
Lockstep ==
    \A c \in Clients :
        /\ ~awaiting[c] => request[c] = NoMsg /\ reply[c] = NoMsg
        /\ request[c] # NoMsg => request[c].subject \in {"query", "result"}
        /\ reply[c] # NoMsg =>
              /\ request[c] = NoMsg
              /\ reply[c].subject \in {"work", "stop", "ack", "ack_stop"}
        /\ pc[c] = "await_work" =>
              /\ request[c].subject # "result"
              /\ reply[c].subject \notin {"ack", "ack_stop"}
        /\ pc[c] = "process" => ~awaiting[c]
        /\ pc[c] = "await_ack" =>
              /\ request[c].subject # "query"
              /\ reply[c].subject \notin {"work", "stop"}

\* A server that left its loop handed out everything and got it back.
DoneState ==
    server = "done" => nr_items = NumItems /\ to_do = {}

\* The inductive invariant.
IInv ==
    /\ TypeOK
    /\ Lockstep
    /\ ProtocolKept
    /\ IdIsPosition
    /\ Custody
    /\ ToDoExact
    /\ WrittenOnce
    /\ StopIsFinal
    /\ DoneState

-----------------------------------------------------------------------------
(* The client's steps.                                                     *)

\* What the client's steps leave alone.
LEMMA ServerPartKept ==
    ASSUME IInv, UNCHANGED serverVars
    PROVE  ToDoExact' /\ WrittenOnce' /\ DoneState'
  BY DEF IInv, ToDoExact, WrittenOnce, DoneState, serverVars, Written

LEMMA SendQueryKeeps ==
    ASSUME IInv, NEW c \in Clients, SendQuery(c), UNCHANGED serverVars
    PROVE  IInv'
<1> USE DEF IInv
<1>1. TypeOK'
  BY DEF TypeOK, SendQuery, Send, Signal, Msg, Message, Subject, NoItem, PC, serverVars
<1>2. Lockstep'
  BY DEF TypeOK, Lockstep, SendQuery, Send, Signal, Msg, NoMsg, NoItem
<1>3. ProtocolKept' /\ IdIsPosition' /\ StopIsFinal'
  BY DEF TypeOK, ProtocolKept, IdIsPosition, StopIsFinal, SendQuery, Send, Signal, Msg, serverVars
<1>4. Custody'
  BY DEF TypeOK, Custody, Carries, SendQuery, Send, Signal, Msg, serverVars
<1> QED  BY <1>1, <1>2, <1>3, <1>4, ServerPartKept

LEMMA RecvReplyKeeps ==
    ASSUME IInv, NEW c \in Clients, RecvReply(c), UNCHANGED serverVars
    PROVE  IInv'
<1> USE DEF IInv
<1>1. TypeOK'
  BY DEF TypeOK, RecvReply, Receive, Signal, Msg, NoMsg, Message, Subject, NoItem, PC, AfterReply, serverVars, Ended
<1>2. Lockstep'
  BY DEF TypeOK, Lockstep, RecvReply, Receive, Signal, Msg, NoMsg, NoItem, AfterReply
<1>3. reply[c].subject \in {"work", "stop"}
  BY DEF Lockstep, RecvReply, Receive
<1>4. ProtocolKept'
  BY <1>3 DEF TypeOK, ProtocolKept, RecvReply, serverVars, AfterReply
<1>5. IdIsPosition'
  BY <1>3 DEF TypeOK, IdIsPosition, RecvReply, Receive, Signal, Msg, NoMsg, AfterReply
<1>6. StopIsFinal'
  BY <1>3 DEF TypeOK, StopIsFinal, RecvReply, Receive, Signal, Msg, NoMsg, serverVars, AfterReply
<1>7. Custody'
  BY <1>3 DEF TypeOK, Custody, Carries, RecvReply, Receive, Signal, Msg, NoMsg, serverVars, AfterReply
<1> QED  BY <1>1, <1>2, <1>4, <1>5, <1>6, <1>7, ServerPartKept

LEMMA ProcessKeeps ==
    ASSUME IInv, NEW c \in Clients, Process(c), UNCHANGED serverVars
    PROVE  IInv'
<1> USE DEF IInv
<1>1. TypeOK'
  BY DEF TypeOK, Process, Send, Msg, Message, Subject, NoItem, PC, serverVars
<1>2. Lockstep'
  BY DEF TypeOK, Lockstep, Process, Send, Msg, NoMsg, Signal, NoItem
<1>3. ProtocolKept'
  BY DEF TypeOK, ProtocolKept, Process, serverVars
<1>4. IdIsPosition'
  BY DEF TypeOK, IdIsPosition, Process, Send, Msg
<1>5. StopIsFinal'
  BY DEF TypeOK, StopIsFinal, Process, Send, serverVars
<1>6. Custody'
  BY DEF TypeOK, Custody, Carries, Process, Send, Msg, serverVars
<1> QED  BY <1>1, <1>2, <1>3, <1>4, <1>5, <1>6, ServerPartKept

LEMMA RecvAckKeeps ==
    ASSUME IInv, NEW c \in Clients, RecvAck(c), UNCHANGED serverVars
    PROVE  IInv'
<1> USE DEF IInv
<1>1. TypeOK'
  BY DEF TypeOK, RecvAck, Receive, Signal, Msg, NoMsg, Message, Subject, NoItem, PC, AfterAck, serverVars, Ended
<1>2. Lockstep'
  BY DEF TypeOK, Lockstep, RecvAck, Receive, Signal, Msg, NoMsg, NoItem, AfterAck
<1>3. ProtocolKept'
  BY DEF TypeOK, ProtocolKept, RecvAck, serverVars, AfterAck
<1>4. IdIsPosition'
  BY DEF TypeOK, IdIsPosition, RecvAck, Receive, Signal, Msg, NoMsg, AfterAck
<1>5. StopIsFinal'
  BY DEF TypeOK, StopIsFinal, RecvAck, Receive, Signal, Msg, NoMsg, serverVars, AfterAck
<1>6. Custody'
  BY DEF TypeOK, Custody, Carries, RecvAck, Receive, Signal, Msg, NoMsg, serverVars, AfterAck
<1> QED  BY <1>1, <1>2, <1>3, <1>4, <1>5, <1>6, ServerPartKept

\* The timeouts, the refused send and the crash change the control state only,
\* and none of them makes the client process an item, wait for an answer or
\* stop as told.
LEMMA ControlOnlyKeeps ==
    ASSUME IInv, NEW c \in Clients, NEW p \in {"query", "aborted", "crashed"},
           pc' = [pc EXCEPT ![c] = p],
           UNCHANGED <<serverVars, work, request, reply, awaiting>>
    PROVE  IInv'
<1> USE DEF IInv
<1>1. TypeOK'
  BY DEF TypeOK, PC, Ended, serverVars
<1>2. Lockstep'
  BY DEF TypeOK, Lockstep
<1>3. ProtocolKept' /\ IdIsPosition' /\ StopIsFinal'
  BY DEF TypeOK, ProtocolKept, IdIsPosition, StopIsFinal, serverVars
<1>4. Custody'
  BY DEF TypeOK, Custody, Carries, serverVars
<1> QED  BY <1>1, <1>2, <1>3, <1>4, ServerPartKept

\* A lost message is carried by nobody any more.
LEMMA DropKeeps ==
    ASSUME IInv, NEW c \in Clients, Drop(c), UNCHANGED <<serverVars, clientVars>>
    PROVE  IInv'
<1> USE DEF IInv
<1>1. TypeOK'
  BY DEF TypeOK, Drop, NoMsg, Signal, Msg, Message, Subject, NoItem, serverVars, clientVars
<1>2. Lockstep'
  BY DEF TypeOK, Lockstep, Drop, NoMsg, Signal, Msg, NoItem, clientVars
<1>3. ProtocolKept' /\ IdIsPosition' /\ StopIsFinal'
  BY DEF TypeOK, ProtocolKept, IdIsPosition, StopIsFinal, Drop, NoMsg, Signal, Msg, serverVars, clientVars
<1>4. Custody'
  BY DEF TypeOK, Custody, Carries, Drop, NoMsg, Signal, Msg, serverVars, clientVars
<1> QED  BY <1>1, <1>2, <1>3, <1>4, ServerPartKept

-----------------------------------------------------------------------------
(* The server's steps.                                                     *)

LEMMA SendWorkKeeps ==
    ASSUME IInv, NEW c \in Clients, request[c].subject = "query",
           server = "loop", HasNext(nr_items), SendWork(c),
           server' = LoopEnd(nr_items', to_do'), UNCHANGED <<out, clientVars>>
    PROVE  IInv'
<1> USE DEF IInv
<1>1. server' = "loop" /\ nr_items + 1 \in Item /\ nr_items + 1 \notin to_do
  BY NumItemsAssumption DEF TypeOK, ToDoExact, SendWork, LoopEnd, HasNext, Item
<1>2. TypeOK'
  BY <1>1 DEF TypeOK, SendWork, Answer, NoMsg, Signal, Msg, Message, Subject, NoItem, clientVars, Item
<1>3. Lockstep'
  BY DEF TypeOK, Lockstep, SendWork, Answer, NoMsg, Signal, Msg, NoItem, clientVars
<1>4. ProtocolKept' /\ IdIsPosition'
  BY <1>1 DEF TypeOK, ProtocolKept, IdIsPosition, SendWork, Answer, NoMsg, Signal, Msg, clientVars
<1>5. StopIsFinal'
  BY NumItemsAssumption DEF TypeOK, StopIsFinal, SendWork, Answer, Msg, HasNext, clientVars
<1>6. Custody'
  BY <1>1 DEF TypeOK, Custody, Carries, SendWork, Answer, NoMsg, Signal, Msg, clientVars
<1>7. ToDoExact'
  BY DEF TypeOK, ToDoExact, SendWork, Written
<1>8. WrittenOnce' /\ DoneState'
  BY <1>1 DEF WrittenOnce, DoneState
<1> QED  BY <1>2, <1>3, <1>4, <1>5, <1>6, <1>7, <1>8

LEMMA SendStopKeeps ==
    ASSUME IInv, NEW c \in Clients, request[c].subject = "query",
           server = "loop", ~HasNext(nr_items), SendStop(c),
           server' = LoopEnd(nr_items', to_do'), UNCHANGED <<out, clientVars>>
    PROVE  IInv'
<1> USE DEF IInv
<1>1. nr_items = NumItems
  BY NumItemsAssumption DEF TypeOK, HasNext
<1>2. TypeOK'
  BY DEF TypeOK, SendStop, LoopEnd, Answer, NoMsg, Signal, Msg, Message, Subject, NoItem, clientVars
<1>3. Lockstep'
  BY DEF TypeOK, Lockstep, SendStop, Answer, NoMsg, Signal, Msg, NoItem, clientVars
<1>4. ProtocolKept' /\ IdIsPosition' /\ StopIsFinal'
  BY <1>1 DEF TypeOK, ProtocolKept, IdIsPosition, StopIsFinal, SendStop, LoopEnd, Answer, NoMsg, Signal, Msg, clientVars
<1>5. Custody'
  BY DEF TypeOK, Custody, Carries, SendStop, Answer, NoMsg, Signal, Msg, clientVars
<1>6. ToDoExact' /\ WrittenOnce'
  BY DEF ToDoExact, WrittenOnce, SendStop, Written
<1>7. DoneState'
  BY <1>1 DEF DoneState, SendStop, LoopEnd
<1> QED  BY <1>2, <1>3, <1>4, <1>5, <1>6, <1>7

\* The item of a result under way is open, so that its result is not yet in
\* the output and may be appended.
LEMMA ResultIsOpen ==
    ASSUME IInv, NEW c \in Clients, request[c].subject = "result"
    PROVE  /\ request[c].content = request[c].id
           /\ request[c].id \in to_do
           /\ request[c].id \in 1..nr_items
           /\ request[c].id \notin Written
  BY DEF IInv, TypeOK, Message, IdIsPosition, Custody, Carries, ToDoExact

LEMMA AppendWritten ==
    ASSUME out \in Seq(Item), NEW i \in Item, out' = Append(out, i)
    PROVE  /\ Written' = Written \cup {i}
           /\ WrittenOnce /\ i \notin Written => WrittenOnce'
  BY DEF Written, WrittenOnce

LEMMA HandleResultKeeps ==
    ASSUME IInv, NEW c \in Clients, request[c].subject = "result",
           server = "loop", HandleResult(c), UNCHANGED clientVars
    PROVE  IInv'
<1> USE DEF IInv
<1> DEFINE i == request[c].id
<1>1. /\ i \in to_do /\ i \in 1..nr_items /\ i \in Item /\ i \notin Written
      /\ out' = Append(out, i)
  BY ResultIsOpen DEF TypeOK, HandleResult
<1>2. Written' = Written \cup {i} /\ WrittenOnce'
  BY <1>1, AppendWritten DEF TypeOK
<1>3. TypeOK'
  BY <1>1 DEF TypeOK, HandleResult, LoopEnd, AckSubject, Answer, NoMsg, Signal, Msg, Message, Subject, NoItem, clientVars
<1>4. Lockstep'
  BY DEF TypeOK, Lockstep, HandleResult, AckSubject, Answer, NoMsg, Signal, Msg, NoItem, clientVars
<1>5. ProtocolKept' /\ IdIsPosition'
  BY DEF TypeOK, ProtocolKept, IdIsPosition, HandleResult, LoopEnd, AckSubject, Answer, NoMsg, Signal, Msg, clientVars
<1>6. StopIsFinal'
  BY NumItemsAssumption DEF TypeOK, StopIsFinal, HandleResult, AckSubject, HasNext, Answer, Signal, Msg, clientVars
<1>7. Custody'
  <2>1. \A j : ~Carries(c, j)'
    BY DEF TypeOK, Lockstep, Carries, HandleResult, AckSubject, Answer, NoMsg, Signal, Msg, clientVars
  <2>2. \A d \in Clients \ {c}, j \in Item \cup {NoItem} :
           Carries(d, j)' => Carries(d, j) /\ j # i
    BY <1>1 DEF TypeOK, Custody, Carries, HandleResult, Answer, clientVars
  <2> QED
    BY <2>1, <2>2 DEF Custody, HandleResult
<1>8. ToDoExact'
  BY <1>1, <1>2 DEF TypeOK, ToDoExact, HandleResult
<1>9. DoneState'
  BY NumItemsAssumption DEF TypeOK, DoneState, HandleResult, LoopEnd, HasNext
<1> QED  BY <1>2, <1>3, <1>4, <1>5, <1>6, <1>7, <1>8, <1>9

-----------------------------------------------------------------------------
(* The specification.                                                      *)

LEMMA InitHolds == Init => IInv
<1> SUFFICES ASSUME Init PROVE IInv
  OBVIOUS
<1> USE DEF Init, SocketsInit, ServerInit, ClientInit, NoMsg, Signal, Msg, NoItem
<1>1. TypeOK
  BY NumItemsAssumption DEF TypeOK, Message, Subject, PC, NoWork
<1>2. Lockstep /\ ProtocolKept /\ IdIsPosition /\ Custody
  BY DEF Lockstep, ProtocolKept, IdIsPosition, Custody, Carries, NoWork
<1>3. ToDoExact /\ WrittenOnce /\ StopIsFinal /\ DoneState
  BY DEF ToDoExact, WrittenOnce, StopIsFinal, DoneState, Written
<1> QED  BY <1>1, <1>2, <1>3 DEF IInv

LEMMA ClientStepKeeps ==
    ASSUME IInv, NEW c \in Clients, ClientStep(c)
    PROVE  IInv'
<1>1. CASE SendQuery(c)
  BY <1>1, SendQueryKeeps DEF ClientStep
<1>2. CASE QueryRefused(c)
  BY <1>2, ControlOnlyKeeps DEF ClientStep, QueryRefused
<1>3. CASE RecvReply(c)
  BY <1>3, RecvReplyKeeps DEF ClientStep
<1>4. CASE QueryTimeout(c)
  BY <1>4, ControlOnlyKeeps DEF ClientStep, QueryTimeout
<1>5. CASE Process(c)
  BY <1>5, ProcessKeeps DEF ClientStep
<1>6. CASE RecvAck(c)
  BY <1>6, RecvAckKeeps DEF ClientStep
<1>7. CASE AckTimeout(c)
  BY <1>7, ControlOnlyKeeps DEF ClientStep, AckTimeout
<1> QED
  BY <1>1, <1>2, <1>3, <1>4, <1>5, <1>6, <1>7 DEF ClientStep

\* Only queries and results reach the server.
LEMMA ServeCases ==
    ASSUME IInv, NEW c \in Clients, Serve(c)
    PROVE  /\ server = "loop"
           /\ \/ request[c].subject = "query" /\ HandleQuery(c)
              \/ request[c].subject = "result" /\ HandleResult(c)
<1>1. request[c].subject \in {"query", "result"}
  BY DEF IInv, Lockstep, Serve
<1> QED  BY <1>1 DEF Serve

LEMMA ServerStepKeeps ==
    ASSUME IInv, NEW c \in Clients, ServerStep(c)
    PROVE  IInv'
<1>1. CASE request[c].subject = "query" /\ HandleQuery(c)
  BY <1>1, ServeCases, SendWorkKeeps, SendStopKeeps DEF ServerStep, HandleQuery
<1>2. CASE request[c].subject = "result" /\ HandleResult(c)
  BY <1>2, ServeCases, HandleResultKeeps DEF ServerStep
<1> QED  BY <1>1, <1>2, ServeCases DEF ServerStep

LEMMA ServerKillKeeps == IInv /\ ServerKill => IInv'
<1> SUFFICES ASSUME IInv, ServerKill PROVE IInv'
  OBVIOUS
<1> USE DEF IInv, ServerKill, clientVars
<1>1. TypeOK' /\ Lockstep' /\ ProtocolKept' /\ IdIsPosition'
  BY DEF TypeOK, Lockstep, ProtocolKept, IdIsPosition
<1>2. Custody' /\ ToDoExact' /\ WrittenOnce' /\ StopIsFinal' /\ DoneState'
  BY DEF Custody, Carries, ToDoExact, WrittenOnce, StopIsFinal, DoneState, Written
<1> QED  BY <1>1, <1>2

LEMMA StutterKeeps == IInv /\ UNCHANGED vars => IInv'
<1> SUFFICES ASSUME IInv, UNCHANGED vars PROVE IInv'
  OBVIOUS
<1> USE DEF IInv, vars, serverVars, clientVars
<1>1. TypeOK' /\ Lockstep' /\ ProtocolKept' /\ IdIsPosition'
  BY DEF TypeOK, Lockstep, ProtocolKept, IdIsPosition
<1>2. Custody' /\ ToDoExact' /\ WrittenOnce' /\ StopIsFinal' /\ DoneState'
  BY DEF Custody, Carries, ToDoExact, WrittenOnce, StopIsFinal, DoneState, Written
<1> QED  BY <1>1, <1>2

LEMMA NextKeeps == IInv /\ [Next]_vars => IInv'
<1> SUFFICES ASSUME IInv, [Next]_vars PROVE IInv'
  OBVIOUS
<1>1. ASSUME NEW c \in Clients, ClientStep(c) PROVE IInv'
  BY <1>1, ClientStepKeeps
<1>2. ASSUME NEW c \in Clients, ServerStep(c) PROVE IInv'
  BY <1>2, ServerStepKeeps
<1>3. ASSUME NEW c \in Clients, ClientCrash(c) PROVE IInv'
  BY <1>3, ControlOnlyKeeps DEF ClientCrash
<1>4. ASSUME NEW c \in Clients, Disconnect(c) PROVE IInv'
  BY <1>4, DropKeeps DEF Disconnect
<1>5. CASE ServerKill
  BY <1>5, ServerKillKeeps
<1>6. CASE UNCHANGED vars
  BY <1>6, StutterKeeps
<1> QED
  BY <1>1, <1>2, <1>3, <1>4, <1>5, <1>6 DEF Next, Terminated

\* The inductive invariant holds in every reachable state of the job.
THEOREM Invariance == Spec => []IInv
  BY InitHolds, NextKeeps, PTL DEF Spec

\* Types are kept: the ids in messages and in to_do are positions of the
\* workfile, although a result's id is what a client sent.
THEOREM TypeCorrect == Spec => []TypeOK
  BY Invariance, PTL DEF IInv

\* An item under way is open at the server and with one client only.
THEOREM CustodyHolds == Spec => []Custody
  BY Invariance, PTL DEF IInv

\* to_do is what was handed out and has no result.
THEOREM ToDoIsExact == Spec => []ToDoExact
  BY Invariance, PTL DEF IInv

\* No result is written twice.
THEOREM ResultsWrittenOnce == Spec => []WrittenOnce
  BY Invariance, PTL DEF IInv

\* Results are filed under the id of their item.
THEOREM IdsArePositions == Spec => []IdIsPosition
  BY Invariance, PTL DEF IInv

\* Neither loop meets an invalid message.
THEOREM ProtocolIsKept == Spec => []ProtocolKept
  BY Invariance, PTL DEF IInv

\* A client is told to stop only when no item is left to hand out.
THEOREM StopsAreFinal == Spec => []StopIsFinal
  BY Invariance, PTL DEF IInv

\* A server that ended normally wrote the results of all items.
THEOREM DoneMeansComplete == Spec => []DoneIsComplete
<1>1. IInv => DoneIsComplete
  BY DEF IInv, DoneState, ToDoExact, DoneIsComplete, Item
<1> QED  BY <1>1, Invariance, PTL

-----------------------------------------------------------------------------
(* Steps of the server: what they never do, and the abstract dispatcher    *)
(* they implement.                                                         *)

\* Steps of clients and of the environment leave the dispatch alone.
LEMMA OtherStepsKeepDispatch ==
    ASSUME NEW c \in Clients,
           ClientStep(c) \/ ClientCrash(c) \/ Disconnect(c)
    PROVE  UNCHANGED serverVars
  BY DEF ClientStep, ClientCrash, Disconnect

\* A step of the server starts the next item, completes an open item, or
\* tells a client to stop.
LEMMA ServerStepCases ==
    ASSUME IInv, NEW c \in Clients, ServerStep(c)
    PROVE  /\ server = "loop"
           /\ server' = LoopEnd(nr_items', to_do')
           /\ \/ /\ nr_items < NumItems
                 /\ nr_items' = nr_items + 1
                 /\ to_do' = to_do \cup {nr_items + 1}
                 /\ UNCHANGED out
              \/ /\ nr_items = NumItems
                 /\ UNCHANGED <<nr_items, to_do, out>>
              \/ \E i \in to_do :
                    /\ i \in 1..nr_items /\ i \in Item /\ i \notin Written
                    /\ to_do' = to_do \ {i}
                    /\ out' = Append(out, i)
                    /\ Written' = Written \cup {i}
                    /\ UNCHANGED nr_items
<1>1. CASE HandleQuery(c) /\ SendWork(c) /\ HasNext(nr_items)
  BY <1>1, ServeCases DEF ServerStep, HandleQuery, SendWork, HasNext
<1>2. CASE HandleQuery(c) /\ SendStop(c) /\ ~HasNext(nr_items)
  BY <1>2, ServeCases, NumItemsAssumption
  DEF ServerStep, HandleQuery, SendStop, HasNext, IInv, TypeOK
<1>3. CASE request[c].subject = "result" /\ HandleResult(c)
  <2> DEFINE i == request[c].id
  <2>1. i \in to_do /\ i \in 1..nr_items /\ i \in Item /\ i \notin Written
    BY <1>3, ResultIsOpen DEF IInv, TypeOK
  <2>2. out' = Append(out, i)
    BY <1>3, ResultIsOpen DEF HandleResult
  <2>3. Written' = Written \cup {i}
    BY <2>1, <2>2, AppendWritten DEF IInv, TypeOK
  <2> QED
    BY <1>3, <2>1, <2>2, <2>3, ServeCases DEF ServerStep, HandleResult
<1> QED
  BY <1>1, <1>2, <1>3, ServeCases DEF ServerStep, HandleQuery

\* No item is handed out twice and no result is taken back.
THEOREM NoItemReassigned == Spec => NeverReassigned
<1> DEFINE Kept == /\ to_do' \ to_do \subseteq {nr_items + 1}
                   /\ \A k \in DOMAIN out : k \in DOMAIN out' /\ out'[k] = out[k]
<1>1. ASSUME IInv, NEW c \in Clients, ServerStep(c) PROVE Kept
  <2>1. \A i \in Item : out' = Append(out, i) =>
           \A k \in DOMAIN out : k \in DOMAIN out' /\ out'[k] = out[k]
    BY <1>1 DEF IInv, TypeOK
  <2> QED  BY <1>1, <2>1, ServerStepCases
<1>2. UNCHANGED serverVars => Kept
  BY DEF serverVars
<1>3. ServerKill \/ Terminated => Kept
  BY DEF ServerKill, Terminated, vars, serverVars
<1>4. IInv /\ [Next]_vars => [Kept]_vars
  BY <1>1, <1>2, <1>3, OtherStepsKeepDispatch DEF Next
<1> QED  BY <1>4, Invariance, PTL DEF Spec, NeverReassigned

LEMMA InitRefines == Init => D!Init
<1> SUFFICES ASSUME Init PROVE D!Init
  OBVIOUS
<1>1. Written = {} /\ nr_items = 0 /\ server = "loop"
  BY DEF Init, ServerInit, Written
<1>2. \A i \in Item : AbstractStatus[i] = "waiting"
  BY <1>1 DEF AbstractStatus, Item
<1> QED
  BY <1>1, <1>2 DEF D!Init, D!Item, AbstractStatus, Item

\* While the server serves, an item is started and not done when it is open.
LEMMA StatusOfItem ==
    ASSUME IInv, NEW i \in Item
    PROVE  /\ AbstractStatus[i] = "done" <=> i \in Written
           /\ AbstractStatus[i] = "started" <=> i \in to_do
           /\ AbstractStatus[i] = "waiting" <=> i > nr_items
  BY DEF AbstractStatus, IInv, TypeOK, ToDoExact, Item

LEMMA ServerStepRefines ==
    ASSUME IInv, IInv', NEW c \in Clients, ServerStep(c)
    PROVE  [D!Next]_<<AbstractStatus, server # "done">>
<1>1. /\ server = "loop"
      /\ server' = LoopEnd(nr_items', to_do')
  BY ServerStepCases
<1>2. CASE /\ nr_items < NumItems
           /\ nr_items' = nr_items + 1
           /\ to_do' = to_do \cup {nr_items + 1}
           /\ UNCHANGED out
  <2> DEFINE n == nr_items + 1
  <2>1. n \in Item /\ AbstractStatus[n] = "waiting"
    BY <1>2, NumItemsAssumption, StatusOfItem DEF IInv, TypeOK, Item
  <2>2. \A j \in 1..(n - 1) : AbstractStatus[j] # "waiting"
    BY <1>2, NumItemsAssumption, StatusOfItem DEF IInv, TypeOK, Item
  <2>3. AbstractStatus' = [AbstractStatus EXCEPT ![n] = "started"]
    <3>1. Written' = Written /\ n \notin Written
      BY <1>2 DEF Written, IInv, TypeOK, ToDoExact
    <3>2. AbstractStatus'[n] = "started"
      BY <1>2, <2>1, <3>1 DEF AbstractStatus, IInv, TypeOK
    <3>3. \A j \in Item : j # n => AbstractStatus'[j] = AbstractStatus[j]
      BY <1>2, <3>1, NumItemsAssumption DEF AbstractStatus, IInv, TypeOK, Item
    <3>4. AbstractStatus' = [j \in Item |-> AbstractStatus'[j]]
      BY DEF AbstractStatus
    <3>5. [AbstractStatus EXCEPT ![n] = "started"]
          = [j \in Item |-> IF j = n THEN "started" ELSE AbstractStatus[j]]
      BY DEF AbstractStatus
    <3> HIDE DEF n
    <3> QED
      BY <3>2, <3>3, <3>4, <3>5
  <2>4. server' = "loop"
    BY <1>1, <1>2 DEF LoopEnd, IInv, TypeOK
  <2>5. D!Start(n)
    BY <1>1, <2>1, <2>2, <2>3, <2>4 DEF D!Start
  <2> QED  BY <2>1, <2>5 DEF D!Next, D!Item, Item
<1>3. CASE nr_items = NumItems /\ UNCHANGED <<nr_items, to_do, out>>
  <2>1. AbstractStatus' = AbstractStatus
    BY <1>3 DEF AbstractStatus, Written
  <2>2. CASE to_do = {}
    <3>1. \A i \in Item : AbstractStatus[i] = "done"
      BY <1>3, <2>2, StatusOfItem DEF IInv, ToDoExact, Item
    <3>2. server' = "done"
      BY <1>1, <1>3, <2>2, NumItemsAssumption DEF LoopEnd, HasNext
    <3>3. D!Close
      BY <1>1, <2>1, <3>1, <3>2 DEF D!Close, D!AllDone, D!Item, Item
    <3> QED  BY <3>3 DEF D!Next
  <2>3. CASE to_do # {}
    BY <1>1, <1>3, <2>1, <2>3 DEF LoopEnd
  <2> QED  BY <2>2, <2>3
<1>4. ASSUME NEW i \in to_do,
             i \in 1..nr_items, i \in Item, i \notin Written,
             to_do' = to_do \ {i}, Written' = Written \cup {i},
             UNCHANGED nr_items
      PROVE  D!Finish(i)
  <2>1. AbstractStatus[i] = "started"
    BY <1>4, StatusOfItem
  <2>2. AbstractStatus' = [AbstractStatus EXCEPT ![i] = "done"]
    BY <1>4 DEF AbstractStatus, Item
  <2>3. D!AllDone(AbstractStatus)' <=> server' = "done"
    <3>1. D!AllDone(AbstractStatus)' <=> Item \subseteq Written'
      BY DEF D!AllDone, D!Item, AbstractStatus, Item
    <3>2. Item \subseteq Written' <=> nr_items' = NumItems /\ to_do' = {}
      BY <1>4, NumItemsAssumption DEF IInv, TypeOK, ToDoExact, Item
    <3> QED
      BY <1>1, <3>1, <3>2, NumItemsAssumption DEF IInv, TypeOK, LoopEnd, HasNext
  <2> QED
    BY <1>1, <2>1, <2>2, <2>3 DEF D!Finish, D!AllDone
<1> QED
  BY <1>2, <1>3, <1>4, ServerStepCases DEF D!Next, D!Item, Item

\* The job implements the abstract dispatcher, whatever faults happen.
THEOREM RefinesDispatch == Spec => ImplementsDispatch
<1>1. UNCHANGED serverVars => UNCHANGED <<AbstractStatus, server # "done">>
  BY DEF serverVars, AbstractStatus, Written
<1>2. ServerKill \/ Terminated \/ UNCHANGED vars
      => UNCHANGED <<AbstractStatus, server # "done">>
  BY <1>1 DEF ServerKill, Terminated, vars, serverVars, AbstractStatus, Written
<1>3. IInv /\ IInv' /\ [Next]_vars => [D!Next]_<<AbstractStatus, server # "done">>
  BY <1>1, <1>2, OtherStepsKeepDispatch, ServerStepRefines DEF Next
<1> QED
  BY <1>3, InitRefines, Invariance, PTL DEF Spec, ImplementsDispatch, D!Spec, D!vars

-----------------------------------------------------------------------------
(* Jobs without faults.                                                    *)

\* Without faults a running client that waits has its answer coming, unless the
\* server has finished, and no client aborts before.
Answered ==
    /\ server \in {"loop", "done"}
    /\ \A c \in Clients :
          /\ pc[c] # "crashed"
          /\ pc[c] \in {"await_work", "await_ack"} => awaiting[c]
          /\ server = "loop" =>
                /\ pc[c] # "aborted"
                /\ pc[c] = "query" => ~awaiting[c]
                /\ Running(c) /\ awaiting[c] => request[c] # NoMsg \/ reply[c] # NoMsg

\* Messages with a subject that the protocol has are not the empty one.
LEMMA SignalsAreMessages ==
    /\ \A s \in {"query", "stop", "ack", "ack_stop"} : Signal(s) # NoMsg
    /\ \A s \in {"work", "result"} : \A i, x : Msg(s, i, x) # NoMsg
  BY DEF Signal, Msg, NoMsg

LEMMA ClientStepAnswered ==
    ASSUME Faults = {}, IInv, Answered, NEW c \in Clients, ClientStep(c)
    PROVE  Answered'
<1> USE DEF Answered
<1>1. UNCHANGED serverVars /\ server' = server
  BY DEF ClientStep, serverVars
<1>2. TypeOK /\ Lockstep
  BY DEF IInv
<1>3. CASE SendQuery(c)
  BY <1>1, <1>2, <1>3, SignalsAreMessages DEF SendQuery, Send, TypeOK, Running, Ended
<1>4. CASE QueryRefused(c)
  BY <1>1, <1>2, <1>4 DEF QueryRefused, TypeOK, Running, Ended
<1>5. CASE RecvReply(c)
  <2>1. AfterReply(reply[c].subject) \in {"stopped", "process"}
    BY <1>2, <1>5 DEF Lockstep, RecvReply, Receive, AfterReply
  <2> QED
    BY <1>1, <1>2, <1>5, <2>1 DEF RecvReply, Receive, TypeOK, Running, Ended
<1>6. CASE TimeoutExpires(c) /\ (QueryTimeout(c) \/ AckTimeout(c))
  <2>1. server # "loop"
    BY <1>6 DEF TimeoutExpires, AnswerPending, QueryTimeout, AckTimeout, Running, Ended
  <2> QED
    BY <1>1, <1>2, <1>6, <2>1 DEF QueryTimeout, AckTimeout, TypeOK
<1>7. CASE Process(c)
  BY <1>1, <1>2, <1>7, SignalsAreMessages DEF Process, Send, TypeOK, Running, Ended
<1>8. CASE RecvAck(c)
  BY <1>1, <1>2, <1>8 DEF RecvAck, Receive, AfterAck, TypeOK, Running, Ended
<1> QED
  BY <1>3, <1>4, <1>5, <1>6, <1>7, <1>8 DEF ClientStep

LEMMA ServerStepAnswered ==
    ASSUME IInv, Answered, NEW c \in Clients, ServerStep(c)
    PROVE  Answered'
<1>1. TypeOK
  BY DEF IInv
<1>2. PICK m : m # NoMsg /\ Answer(c, m)
  <2>1. CASE HandleQuery(c)
    BY <2>1, SignalsAreMessages DEF HandleQuery, SendWork, SendStop
  <2>2. CASE HandleResult(c)
    BY <2>2, SignalsAreMessages DEF HandleResult, AckSubject
  <2> QED
    BY <2>1, <2>2, ServeCases DEF ServerStep
<1>3. server' \in {"loop", "done"} /\ server = "loop"
  BY ServerStepCases DEF LoopEnd
<1>4. UNCHANGED clientVars
  BY DEF ServerStep
<1> QED
  BY <1>1, <1>2, <1>3, <1>4 DEF Answered, Answer, TypeOK, Running, clientVars

\* Without faults a connection breaks only when its client has ended.
LEMMA DisconnectAnswered ==
    ASSUME Faults = {}, IInv, Answered, NEW c \in Clients, Disconnect(c)
    PROVE  Answered'
  BY DEF IInv, Answered, Disconnect, Drop, TypeOK, Running, serverVars, clientVars

LEMMA NextAnswered ==
    ASSUME Faults = {}, IInv, Answered, [Next]_vars
    PROVE  Answered'
<1>1. ASSUME NEW c \in Clients, ClientStep(c) PROVE Answered'
  BY <1>1, ClientStepAnswered
<1>2. ASSUME NEW c \in Clients, ServerStep(c) PROVE Answered'
  BY <1>2, ServerStepAnswered
<1>3. ASSUME NEW c \in Clients, Disconnect(c) PROVE Answered'
  BY <1>3, DisconnectAnswered
<1>4. ~ServerKill /\ \A c \in Clients : ~ClientCrash(c)
  BY DEF ServerKill, ClientCrash
<1>5. CASE UNCHANGED vars
  BY <1>5 DEF vars, serverVars, clientVars, Answered, Running
<1> QED
  BY <1>1, <1>2, <1>3, <1>4, <1>5 DEF Next, Terminated

\* In a job without faults, of any size, a client aborts only when the server
\* has finished.
THEOREM AbortsAreLate == Faults = {} => (Spec => []AbortOnlyAfterEnd)
<1> SUFFICES ASSUME Faults = {} PROVE Spec => []AbortOnlyAfterEnd
  OBVIOUS
<1>1. Init => Answered
  BY DEF Init, SocketsInit, ServerInit, ClientInit, Answered
<1>2. IInv /\ Answered /\ [Next]_vars => Answered'
  BY NextAnswered
<1>3. Answered => AbortOnlyAfterEnd
  BY DEF Answered, AbortOnlyAfterEnd
<1> QED
  BY <1>1, <1>2, <1>3, Invariance, PTL DEF Spec

=============================================================================
