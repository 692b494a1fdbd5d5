-------------------------- MODULE MCConnectionPool --------------------------
(***************************************************************************)
(* Instances of ConnectionPool for TLC.  All borrowers at once are too     *)
(* many, so a behaviour has a cast: the borrowers that call the pool, the  *)
(* ones whose operations may be stopped, whether a heartbeat runs          *)
(* (heartbeat_interval_ms may be 0), and whether the pool and the executor *)
(* are shut down.                                                          *)
(***************************************************************************)
EXTENDS ConnectionPool

CONSTANTS Casts   \* the casts of a run

VARIABLE cast

\* A behaviour of the pool in which only the cast takes part.
CastNext ==
    /\ UNCHANGED cast
    /\ \/ \E t \in Thread \cap cast.borrowers : BorrowStep(t)
       \/ \E r \in Request \cap cast.borrowers : AsyncStep(r) \/ Arm(r) \/ FireTimer(r)
       \/ \E b \in cast.borrowers :
             Borrow(b) \/ ReturnStep(b) \/ ReturnClose(b) \/ Tick(b)
       \/ \E b \in cast.stoppable : Stop(b)
       \/ Sweep
       \/ "heartbeat" \in cast.events /\ (HbStart \/ Heartbeat)
       \/ "halt" \in cast.events /\ Halt
       \/ "shutdown" \in cast.events /\ (Shutdown \/ Closedown)

CastInit == Init /\ cast \in Casts /\ pooled = cast.pooled

CastSpec == CastInit /\ [][CastNext]_<<vars, cast>> /\ Fairness

CONSTANTS t1, t2, r1, r2

Cast(borrowers, stoppable, events) ==
    [borrowers |-> borrowers, stoppable |-> stoppable, events |-> events, pooled |-> TRUE]

MCCasts ==
    { \* a thread and a request while the heartbeat and shutdown() run
      Cast({t1, r1}, {}, {"heartbeat", "shutdown"}),
      \* two waiting requests: hand-offs beside overdue waiters
      Cast({t2, r1, r2}, {}, {}),
      \* two waiting threads: a notification goes to the other one
      Cast({t1, t2, r1}, {}, {"shutdown"}),
      \* the heartbeat wakes several requests
      Cast({r1, r2}, {}, {"heartbeat"}),
      \* stopped operations
      Cast({t1, t2}, {t1}, {"shutdown"}),
      \* the executor is shut down before the pool
      Cast({t1, r1}, {r1}, {"halt", "shutdown"}),
      \* pool.enabled is off
      [Cast({t1, r1}, {}, {"shutdown"}) EXCEPT !.pooled = FALSE] }

\* A connection comes back while one request is overdue and another one waits.
HandoffCast == {Cast({t2, r1, r2}, {}, {})}
=============================================================================
