------------------------------ MODULE MCExecutor ------------------------------
(***************************************************************************)
(* Small instances of Executor and SqlText for TLC.  The two are           *)
(* independent, so a behaviour is about one of them, chosen at the start.  *)
(***************************************************************************)
EXTENDS Executor, SqlText

CONSTANTS p1, p2, f1, d1, w1, w2

VARIABLE part

\* what the scanners tell apart, with the closing forms of each region
MCPieces == {<<"'">>, <<"\\">>, <<"-", "-">>, <<"nl">>, <<"/", "*">>, <<"*", "/">>,
             <<"$", "$">>, <<"$", "a", "$">>, <<":", "a">>, <<":">>, <<"?">>, <<"[">>,
             <<"]">>, <<"q", "'">>, <<"a">>, <<"(">>, <<")">>, <<";">>,
             <<"1">>, <<"$">>, <<"#">>, <<"!">>}

textVars == <<text, pieces>>

MCInit == part \in {"executor", "text"} /\ Init /\ TextInit

MCNext ==
    /\ UNCHANGED part
    /\ \/ part = "executor" /\ Next /\ UNCHANGED textVars
       \/ part = "text" /\ TextNext /\ UNCHANGED vars

\* Fairness is the executor's.  A behaviour about text is not fair to the clock, but
\* nothing has to happen in one.
MCSpec == MCInit /\ [][MCNext]_<<vars, textVars, part>> /\ Fairness
===============================================================================
