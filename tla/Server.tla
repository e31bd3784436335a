------------------------------- MODULE Server -------------------------------
(***************************************************************************)
(* The server (src/src/server.cpp): it reads the workfile item by item,    *)
(* hands an item to each client that asks for work, and writes the results *)
(* as they come in.  It is one thread in a receive/handle/reply loop, so   *)
(* the handling of a message is one action.                                *)
(***************************************************************************)
EXTENDS Message, FiniteSets, Sequences

VARIABLES
    server,     \* "loop", "done", "failed" (exit on an error), "dead" (killed)
    nr_items,   \* Work_parser: the number of items handed out
    to_do,      \* the ids of the items started and not completed
    out         \* the output file: the items whose results were written

serverVars == <<server, nr_items, to_do, out>>

ServerInit ==
    /\ server = "loop"
    /\ nr_items = 0
    /\ to_do = {}
    /\ out = <<>>

HasNextOffByOne(given) == given <= NumItems

\* Work_parser::has_next: the parser holds one item of look-ahead.
HasNext(given) == given < NumItems

LoopEndNoToDo(given, open) == IF ~HasNext(given) THEN "done" ELSE "loop"

\* The check at the end of the message loop: leave it when every item was
\* handed out and completed.
LoopEnd(given, open) ==
    IF ~HasNext(given) /\ open = {} THEN "done" ELSE "loop"

SendWorkNoInsert(c) ==
    /\ nr_items' = nr_items + 1
    /\ UNCHANGED to_do
    /\ Answer(c, Msg("work", nr_items + 1, nr_items + 1))

SendWorkTwice(c) ==
    /\ nr_items' = nr_items + 2
    /\ to_do' = to_do \cup {nr_items + 2}
    /\ Answer(c, Msg("work", nr_items + 2, nr_items + 2))

\* next() returns the item held and counts it; the message carries the count
\* as the item's id, and the id is open from now on.
SendWork(c) ==
    /\ nr_items' = nr_items + 1
    /\ to_do' = to_do \cup {nr_items + 1}
    /\ Answer(c, Msg("work", nr_items + 1, nr_items + 1))

SendStop(c) ==
    /\ UNCHANGED <<nr_items, to_do>>
    /\ Answer(c, Signal("stop"))

HandleQueryOneOpen(c) ==
    /\ \/ HasNext(nr_items) /\ to_do = {} /\ SendWork(c)
       \/ ~(HasNext(nr_items) /\ to_do = {}) /\ SendStop(c)
    /\ server' = LoopEnd(nr_items', to_do')
    /\ UNCHANGED out

HandleQuery(c) ==
    /\ \/ HasNext(nr_items) /\ SendWork(c)
       \/ ~HasNext(nr_items) /\ SendStop(c)
    /\ server' = LoopEnd(nr_items', to_do')
    /\ UNCHANGED out

AckSubjectEarly(given) == IF HasNext(given + 1) THEN "ack" ELSE "ack_stop"

AckSubject(given) == IF HasNext(given) THEN "ack" ELSE "ack_stop"

HandleResultNoErase(c) ==
    /\ out' = Append(out, request[c].content)
    /\ UNCHANGED <<to_do, nr_items>>
    /\ Answer(c, Signal(AckSubject(nr_items)))
    /\ server' = LoopEnd(nr_items, to_do')

HandleResultNoAck(c) ==
    /\ out' = Append(out, request[c].content)
    /\ to_do' = to_do \ {request[c].id}
    /\ UNCHANGED nr_items
    /\ Answer(c, NoMsg)
    /\ server' = LoopEnd(nr_items, to_do')

\* The result is written before the item is closed, and then acknowledged.
HandleResult(c) ==
    /\ out' = Append(out, request[c].content)
    /\ to_do' = to_do \ {request[c].id}
    /\ UNCHANGED nr_items
    /\ Answer(c, Signal(AckSubject(nr_items)))
    /\ server' = LoopEnd(nr_items, to_do')

\* A message with another subject ends the server.
RejectRequest(c) ==
    /\ server' = "failed"
    /\ request' = [request EXCEPT ![c] = NoMsg]
    /\ UNCHANGED <<nr_items, to_do, out, reply, awaiting>>

Serve(c) ==
    /\ server = "loop"
    /\ request[c] # NoMsg
    /\ CASE request[c].subject = "query"  -> HandleQuery(c)
         [] request[c].subject = "result" -> HandleResult(c)
         [] OTHER                         -> RejectRequest(c)

\* The items whose results are in the output file.
Written == {out[k] : k \in DOMAIN out}

=============================================================================
