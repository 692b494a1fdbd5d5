----------------------------- MODULE PoolLease ------------------------------
(***************************************************************************)
(* What core::ConnectionPool promises its callers, without queues, slots,  *)
(* checks or heartbeats: connections are leased to clients, never to more  *)
(* than Limit of them, and no new lease is granted once the pool is        *)
(* closed.                                                                 *)
(***************************************************************************)
EXTENDS Integers, FiniteSets

CONSTANTS Client, Limit

VARIABLES holders, open,
          limited   \* the limit applies

Init == holders = {} /\ open = TRUE /\ limited \in BOOLEAN

\* Some clients are granted a connection each.
Grant ==
    /\ open
    /\ \E new \in SUBSET (Client \ holders) : holders' = holders \cup new
    /\ limited => Cardinality(holders') <= Limit
    /\ UNCHANGED <<open, limited>>

\* A client gives its connection back.
Release ==
    /\ \E c \in holders : holders' = holders \ {c}
    /\ UNCHANGED <<open, limited>>

\* A client's connection passes directly to another client.
Handover ==
    /\ open
    /\ \E c \in holders, d \in Client \ holders : holders' = (holders \ {c}) \cup {d}
    /\ UNCHANGED <<open, limited>>

Close == open' = FALSE /\ UNCHANGED <<holders, limited>>

Next == Grant \/ Release \/ Handover \/ Close

Spec == Init /\ [][Next]_<<holders, open, limited>>

=============================================================================
