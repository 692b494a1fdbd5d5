----------------------------- MODULE TaskService -----------------------------
(***************************************************************************)
(* What async::IExecutor promises: an accepted task runs exactly once, and *)
(* once the executor is stopped it accepts no more.                        *)
(***************************************************************************)
CONSTANT Item

VARIABLES waiting, ran, open

Init == waiting = {} /\ ran = {} /\ open = TRUE

\* An item is taken on.
Accept ==
    /\ open
    /\ \E i \in Item \ (waiting \cup ran) : waiting' = waiting \cup {i}
    /\ UNCHANGED <<ran, open>>

\* An item taken on before runs.
Run ==
    /\ \E i \in waiting : waiting' = waiting \ {i} /\ ran' = ran \cup {i}
    /\ UNCHANGED open

\* A stopped executor runs an item at once, in the thread that brings it.
RunNow ==
    /\ ~open
    /\ \E i \in Item \ (waiting \cup ran) : ran' = ran \cup {i}
    /\ UNCHANGED <<waiting, open>>

Close == open' = FALSE /\ UNCHANGED <<waiting, ran>>

Next == Accept \/ Run \/ RunNow \/ Close

Spec == Init /\ [][Next]_<<waiting, ran, open>>
==============================================================================
