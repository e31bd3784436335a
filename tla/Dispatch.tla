------------------------------ MODULE Dispatch ------------------------------
(***************************************************************************)
(* What the server promises, whatever messages it takes: the items of the  *)
(* workfile are started in the order of the file, each one once, an item   *)
(* is finished once after it was started, and the dispatch closes when all *)
(* items are finished, never before.                                       *)
(***************************************************************************)
EXTENDS Naturals

CONSTANT NumItems

VARIABLES
    status,     \* status[i]: "waiting", "started" or "done"
    open        \* the server still serves

vars == <<status, open>>

Item == 1..NumItems

Init ==
    /\ status = [i \in Item |-> "waiting"]
    /\ open = TRUE

AllDone(s) == \A i \in Item : s[i] = "done"

Start(i) ==
    /\ open
    /\ status[i] = "waiting"
    /\ \A j \in 1..(i - 1) : status[j] # "waiting"
    /\ status' = [status EXCEPT ![i] = "started"]
    /\ UNCHANGED open

Finish(i) ==
    /\ open
    /\ status[i] = "started"
    /\ status' = [status EXCEPT ![i] = "done"]
    /\ open' = ~AllDone(status')

\* Only an empty workfile is closed by a message that is not a result.
Close ==
    /\ open
    /\ AllDone(status)
    /\ open' = FALSE
    /\ UNCHANGED status

Next ==
    \/ \E i \in Item : Start(i) \/ Finish(i)
    \/ Close

Spec == Init /\ [][Next]_vars

FairSpec == Spec /\ WF_vars(Next)

=============================================================================
