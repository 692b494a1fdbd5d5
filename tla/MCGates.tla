-------------------------------- MODULE MCGates --------------------------------
(***************************************************************************)
(* Small instances of what stands between a call and its data source:      *)
(* CircuitBreaker and the objects of RequestLimits.  They are independent, *)
(* so a behaviour is about one of them, chosen at the start.               *)
(***************************************************************************)
EXTENDS CircuitBreaker, RequestLimits, TLC

CONSTANTS
    c1, c2,
    Parts   \* the parts a run is about

VARIABLE part

\* a cancellable caller with statements and asynchronous queries, one with cursors; both
\* with transactions
MCEntries == (c1 :> {"statement", "async", "transaction"}) @@ (c2 :> {"cursor", "transaction"})

\* every caller with statements and cursors
PlainEntries == [c \in Caller |-> {"statement", "cursor"}]

\* a part that does not move starts in one state only
MCInit ==
    /\ Init /\ RateInit /\ CursorInit /\ PageInit
    /\ part \in Parts
    /\ part # "breaker" => calm
    /\ part # "rate" => 0 \in DOMAIN bucket
    /\ part # "cursor" => limit > 0
    /\ part # "page" => table = 0

MCNext ==
    /\ UNCHANGED part
    /\ \/ part = "breaker" /\ Next /\ UNCHANGED <<rateVars, cursorVars, pageVars>>
       \/ part = "rate" /\ RateNext /\ UNCHANGED <<vars, cursorVars, pageVars>>
       \/ part = "cursor" /\ CursorNext /\ UNCHANGED <<vars, rateVars, pageVars>>
       \/ part = "page" /\ PageNext /\ UNCHANGED <<vars, rateVars, cursorVars>>

\* Fairness is the breaker's; nothing has to happen in a behaviour about another part.
MCSpec == MCInit /\ [][MCNext]_<<vars, rateVars, cursorVars, pageVars, part>> /\ Fairness
================================================================================
