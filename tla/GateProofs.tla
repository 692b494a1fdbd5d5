------------------------------ MODULE GateProofs ------------------------------
(***************************************************************************)
(* Proofs about what stands between a call and its data source: first      *)
(* CircuitBreaker, for every number of callers, threshold and number of    *)
(* attempts, then RequestLimits, for every number of threads, every limit, *)
(* burst and rate, and every width of the integers.                        *)
(***************************************************************************)
EXTENDS CircuitBreaker, RequestLimits, FiniteSetTheorems, TLAPS

-----------------------------------------------------------------------------
(* The circuit breaker.                                                    *)

\* Counting saturates inside the range of the counter.
LEMMA Saturates ==
    ASSUME NEW n \in 0 .. Threshold
    PROVE  Saturate(n + 1) \in 0 .. Threshold
BY BreakerAssumption DEF Saturate

\* The data source starts with a closed circuit and nobody in a call.
LEMMA InitTyped == Init => TypeOK
<1> SUFFICES ASSUME Init PROVE TypeOK
  BY Zenon
<1>1. halfOpen \in BOOLEAN /\ calm \in BOOLEAN /\ lost \in BOOLEAN
  BY Zenon DEF Init
<1>2. failures \in 0 .. Threshold /\ attempt \in [Caller -> 1 .. MaxAttempts]
  BY BreakerAssumption DEF Init
<1> QED
  BY <1>1, <1>2, Zenon DEF Init, TypeOK, Place, Report, Outcome

\* What a step of caller c may do to the per-call variables: they keep their types, the
\* other callers keep theirs, and c arrives at the place p with the status o.
Arrives(c, p, o) ==
    /\ pc' = [pc EXCEPT ![c] = p]
    /\ outcome' = [outcome EXCEPT ![c] = o]
    /\ entry' \in [Caller -> EntryPoint \cup {"none"}]
    /\ attempt' \in [Caller -> 1 .. MaxAttempts]
    /\ prober' \subseteq Caller /\ stopped' \subseteq Impatient

\* Returning to the application is an arrival.
LEMMA ReturnArrives ==
    ASSUME TypeOK, NEW c \in Caller, Return(c)
    PROVE  Arrives(c, "idle", "ok")
BY BreakerAssumption DEF TypeOK, Return, Goto, Arrives

\* The end of afterAttempt() leads to the application, the gate or the commit.
LEMMA FinishArrives ==
    ASSUME TypeOK, NEW c \in Caller, Finish(c)
    PROVE  \E p \in {"idle", "gate", "commit"} : Arrives(c, p, "ok")
<1>1. CASE Return(c)
  BY <1>1, ReturnArrives, Zenon
<1>2. CASE /\ attempt[c] < MaxAttempts /\ Goto(c, "gate", "ok")
           /\ attempt' = [attempt EXCEPT ![c] = @ + 1]
           /\ prober' = prober \ {c} /\ UNCHANGED <<entry, stopped>>
  <2>1. attempt' \in [Caller -> 1 .. MaxAttempts]
    BY <1>2, BreakerAssumption DEF TypeOK
  <2>2. Arrives(c, "gate", "ok")
    BY <1>2, <2>1, Zenon DEF TypeOK, Goto, Arrives
  <2> QED
    BY <2>2, Zenon
<1>3. CASE /\ Goto(c, "commit", "ok") /\ prober' = prober \ {c}
           /\ UNCHANGED <<entry, attempt, stopped>>
  <2>1. Arrives(c, "commit", "ok")
    BY <1>3, Zenon DEF TypeOK, Goto, Arrives
  <2> QED
    BY <2>1, Zenon
<1> QED
  BY <1>1, <1>2, <1>3, Zenon DEF Finish

\* An arrival keeps the types when the breaker's own variables keep theirs.
LEMMA ArrivalKeeps ==
    ASSUME TypeOK, NEW c \in Caller, NEW p \in Place, NEW o \in Outcome, Arrives(c, p, o),
           failures' \in 0 .. Threshold, halfOpen' \in BOOLEAN, lost' \in BOOLEAN,
           openUntil' \in {"none", "future", "past"}, calm' \in BOOLEAN
    PROVE  TypeOK'
BY Zenon DEF TypeOK, Arrives

\* Every step of the specification keeps the types.
LEMMA NextTyped == TypeOK /\ [Next]_vars => TypeOK'
<1> SUFFICES ASSUME TypeOK, [Next]_vars PROVE TypeOK'
  BY Zenon
<1>0. Threshold \in Nat /\ failures \in 0 .. Threshold
  BY BreakerAssumption, Zenon DEF TypeOK
<1>1. ASSUME NEW c \in Caller, UNCHANGED <<breaker, calm>>, lost' \in BOOLEAN,
             NEW p \in Place, NEW o \in Outcome, Arrives(c, p, o)
      PROVE  TypeOK'
  BY <1>0, <1>1, ArrivalKeeps DEF breaker, TypeOK
<1>a. lost \in BOOLEAN
  BY Zenon DEF TypeOK
<1>2. ASSUME NEW c \in Caller, Call(c) PROVE TypeOK'
  <2>1. Arrives(c, "gate", "ok")
    BY <1>2, BreakerAssumption, Zenon DEF Call, Goto, Arrives, TypeOK
  <2> QED
    BY <1>1, <1>a, <1>2, <2>1, Zenon DEF Call, Place, Outcome
<1>3. ASSUME NEW c \in Caller, Gate(c) PROVE TypeOK'
  <2>1. \E p \in {"idle", "probe", "run"} : Arrives(c, p, "ok")
    BY <1>3, ReturnArrives, Zenon DEF Gate, Goto, Arrives, TypeOK
  <2> QED
    BY <1>1, <1>a, <1>3, <2>1, Zenon DEF Gate, Place, Outcome
<1>4. ASSUME NEW c \in Caller, Probe(c) PROVE TypeOK'
  <2>1. \E p \in {"idle", "run"} : Arrives(c, p, "ok")
    BY <1>4, ReturnArrives, Zenon DEF Probe, Goto, Arrives, TypeOK
  <2>2. halfOpen' \in BOOLEAN
    BY <1>4, Zenon DEF Probe
  <2> QED
    BY <1>0, <1>4, <2>1, <2>2, ArrivalKeeps DEF Probe, Place, Outcome, TypeOK
<1>5. ASSUME NEW c \in Caller, Run(c) \/ Commit(c) PROVE TypeOK'
  <2>1. PICK o \in Possible(c) :
             \/ Return(c)
             \/ Goto(c, FirstStore(o), o) /\ UNCHANGED <<entry, attempt, prober, stopped>>
    BY <1>5, Zenon DEF Run, Commit, Leave
  <2>4. lost' \in BOOLEAN
    BY <1>5, <1>a, Zenon DEF Run, Commit, Leave
  <2>2. o \in Outcome /\ FirstStore(o) \in {"zero", "release"}
    BY <2>1, Zenon DEF Possible, Outcome, FirstStore
  <2>3. Arrives(c, "idle", "ok") \/ Arrives(c, FirstStore(o), o)
    BY <2>1, ReturnArrives, Zenon DEF Goto, Arrives, TypeOK
  <2> QED
    BY <1>1, <1>5, <2>2, <2>3, <2>4, Zenon DEF Run, Commit, Place, Report, Outcome
<1>6. ASSUME NEW c \in Caller, Abandon(c) PROVE TypeOK'
  <2>1. lost' \in BOOLEAN
    BY <1>6, Zenon DEF Abandon, Leave
  <2> QED
    BY <1>1, <1>6, <2>1, ReturnArrives, Zenon DEF Abandon, Leave, Place, Outcome
<1>7. ASSUME NEW c \in Caller, NEW p \in Place, Then(c, p) PROVE Arrives(c, p, outcome[c])
  BY <1>7, Zenon DEF Then, Goto, Arrives, TypeOK
<1>8. \A c \in Caller : outcome[c] \in Outcome
  BY Zenon DEF TypeOK
<1>9. ASSUME NEW c \in Caller, StoreZero(c) PROVE TypeOK'
  <2>1. \E p \in {"release", "close"} : Arrives(c, p, outcome[c])
    BY <1>7, <1>9, Zenon DEF StoreZero, Place, Report
  <2>2. failures' \in 0 .. Threshold
    BY <1>0, <1>9 DEF StoreZero
  <2> QED
    BY <1>0, <1>8, <1>9, <2>1, <2>2, ArrivalKeeps DEF StoreZero, Place, Report, TypeOK
<1>10. ASSUME NEW c \in Caller, StoreRelease(c) PROVE TypeOK'
  <2>1. \/ \E p \in {"idle", "gate", "commit"} : Arrives(c, p, "ok")
        \/ \E p \in {"close", "zero", "count"} : Arrives(c, p, outcome[c])
    BY <1>7, <1>8, <1>10, FinishArrives, Zenon DEF StoreRelease, Released, Place, Report, Outcome
  <2>2. halfOpen' \in BOOLEAN
    BY <1>10, Zenon DEF StoreRelease
  <2> QED
    BY <1>0, <1>8, <1>10, <2>1, <2>2, ArrivalKeeps
    DEF StoreRelease, Place, Report, Outcome, TypeOK
<1>11. ASSUME NEW c \in Caller, StoreClose(c) PROVE TypeOK'
  <2>1. PICK p \in {"idle", "gate", "commit"} : Arrives(c, p, "ok")
    BY <1>11, FinishArrives, Zenon DEF StoreClose
  <2> QED
    BY <1>0, <1>11, <2>1, ArrivalKeeps DEF StoreClose, Place, Outcome, TypeOK
<1>12. ASSUME NEW c \in Caller, CountFailure(c) PROVE TypeOK'
  <2>1. failures' \in 0 .. Threshold
    BY <1>0, <1>12, Saturates, Zenon DEF CountFailure
  <2>2. \/ \E p \in {"idle", "gate", "commit"} : Arrives(c, p, "ok")
        \/ Arrives(c, "open", outcome[c])
    BY <1>7, <1>12, FinishArrives, Zenon DEF CountFailure, Place, Report
  <2> QED
    BY <1>8, <1>12, <2>1, <2>2, ArrivalKeeps DEF CountFailure, Place, Report, Outcome, TypeOK
<1>13. ASSUME NEW c \in Caller, StoreOpen(c) PROVE TypeOK'
  <2>1. PICK p \in {"idle", "gate", "commit"} : Arrives(c, p, "ok")
    BY <1>13, FinishArrives, Zenon DEF StoreOpen
  <2> QED
    BY <1>0, <1>13, <2>1, ArrivalKeeps DEF StoreOpen, Place, Outcome, TypeOK
<1>14. ASSUME NEW c \in Caller, Stop(c) PROVE TypeOK'
  BY <1>14, Zenon DEF Stop, breaker, TypeOK
<1>15. CASE CoolDown
  BY <1>15, Zenon DEF CoolDown, call, TypeOK
<1>16. CASE Trouble
  <2>1. calm' \in BOOLEAN
    BY <1>16, Zenon DEF Trouble
  <2> QED
    BY <1>16, <2>1, Zenon DEF Trouble, breaker, call, TypeOK
<1>17. CASE UNCHANGED vars
  BY <1>17, Zenon DEF vars, breaker, call, TypeOK
<1> QED
  BY <1>2, <1>3, <1>4, <1>5, <1>6, <1>9, <1>10, <1>11, <1>12, <1>13, <1>14, <1>15, <1>16,
       <1>17, Zenon DEF Next, Step, AfterAttempt

\* The counters, places and statuses of CircuitBreaker stay in their types.
THEOREM BreakerTyped == Spec => []TypeOK
BY InitTyped, NextTyped, PTL DEF Spec

-----------------------------------------------------------------------------
(* The half-open probe.                                                    *)

\* halfOpenInFlight_ is set only while its owner is between the gate and the report,
\* unless an owner left openCursorUngated() or the asynchronous engine without one.
THEOREM ProbeNeverStranded == Spec => []ProbeOwned
<1>1. Init => ProbeOwned
  BY Zenon DEF Init, ProbeOwned
<1>2. TypeOK /\ ProbeOwned /\ [Next]_vars => ProbeOwned'
  <2> SUFFICES ASSUME TypeOK, ProbeOwned, [Next]_vars, halfOpen', ~lost'
               PROVE  \E d \in prober' : InFlight(d)'
    BY Zenon DEF ProbeOwned
  <2>0. ~lost
    BY Zenon DEF Next, Step, AfterAttempt, Call, Gate, Probe, Run, Abandon, Leave, Commit,
        StoreZero,
           StoreRelease, StoreClose, CountFailure, StoreOpen, Stop, CoolDown, Trouble, vars
  <2>1. ASSUME NEW c \in Caller, ~InFlight(c), halfOpen,
               \A d \in Caller \ {c} : pc'[d] = pc[d] /\ outcome'[d] = outcome[d],
               prober \ {c} \subseteq prober'
        PROVE  \E d \in prober' : InFlight(d)'
    <3>1. PICK d \in prober : InFlight(d)
      BY <2>0, <2>1, Zenon DEF ProbeOwned
    <3> QED
      BY <2>1, <3>1, Zenon DEF InFlight, TypeOK
  <2>2. ASSUME NEW c \in Caller, NEW p, NEW o, Goto(c, p, o)
        PROVE  \A d \in Caller \ {c} : pc'[d] = pc[d] /\ outcome'[d] = outcome[d]
    BY <2>2, Zenon DEF Goto, TypeOK
  <2>3. ASSUME NEW c \in Caller, ~InFlight(c), halfOpen, Return(c)
        PROVE  \E d \in prober' : InFlight(d)'
    BY <2>1, <2>2, <2>3, Zenon DEF Return
  <2>4. ASSUME NEW c \in Caller, ~InFlight(c), halfOpen, Finish(c)
        PROVE  \E d \in prober' : InFlight(d)'
    BY <2>1, <2>2, <2>3, <2>4, Zenon DEF Finish
  <2>5. ASSUME NEW c \in Caller, NEW p, ~InFlight(c), halfOpen, Then(c, p)
        PROVE  \E d \in prober' : InFlight(d)'
    BY <2>1, <2>2, <2>5, Zenon DEF Then
  <2>6. ASSUME NEW c \in Caller, Call(c) PROVE \E d \in prober' : InFlight(d)'
    BY <2>1, <2>2, <2>6, Zenon DEF Call, InFlight, breaker
  <2>7. ASSUME NEW c \in Caller, Gate(c) PROVE \E d \in prober' : InFlight(d)'
    BY <2>1, <2>2, <2>3, <2>7, Zenon DEF Gate, InFlight, breaker
  <2>8. ASSUME NEW c \in Caller, Probe(c) PROVE \E d \in prober' : InFlight(d)'
    <3>1. CASE halfOpen
      BY <2>3, <2>8, <3>1, Zenon DEF Probe, InFlight
    <3>2. CASE ~halfOpen
      <4>1. c \in prober' /\ pc'[c] = "run"
        BY <2>8, <3>2, Zenon DEF Probe, Goto, TypeOK
      <4> QED
        BY <4>1, Zenon DEF InFlight
    <3> QED
      BY <3>1, <3>2, Zenon
  <2>9. ASSUME NEW c \in Caller, halfOpen, Leave(c)
        PROVE  \E d \in prober' : InFlight(d)'
    <3>1. PICK d \in prober : InFlight(d)
      BY <2>0, <2>9, Zenon DEF ProbeOwned
    <3>2. d # c
      BY <2>9, <3>1, Zenon DEF Leave
    <3> QED
      BY <2>2, <2>9, <3>1, <3>2, Zenon DEF Leave, Return, InFlight, TypeOK
  <2>10. ASSUME NEW c \in Caller, Run(c) \/ Abandon(c) PROVE \E d \in prober' : InFlight(d)'
    <3>1. CASE Leave(c)
      BY <2>9, <2>10, <3>1, Zenon DEF Run, Abandon, breaker
    <3>2. CASE ~Leave(c)
      <4>1. PICK o \in Possible(c) : Goto(c, FirstStore(o), o)
        BY <2>10, <3>2, Zenon DEF Run, Abandon
      <4>2. InFlight(c)'
        BY <4>1, Zenon DEF Goto, FirstStore, InFlight, TypeOK
      <4>3. prober' = prober /\ halfOpen
        BY <2>10, <3>2, Zenon DEF Run, Abandon, breaker
      <4> QED
        BY <2>0, <2>2, <4>1, <4>2, <4>3, Zenon DEF ProbeOwned, InFlight, TypeOK
    <3> QED
      BY <3>1, <3>2, Zenon
  <2>11. ASSUME NEW c \in Caller, Commit(c) PROVE \E d \in prober' : InFlight(d)'
    <3>1. ~InFlight(c) /\ halfOpen
      BY <2>11, Zenon DEF Commit, InFlight, breaker
    <3>2. \/ Return(c)
          \/ \E o \in Possible(c) : Goto(c, FirstStore(o), o) /\ prober' = prober
      BY <2>11, Zenon DEF Commit
    <3> QED
      BY <2>1, <2>2, <2>3, <3>1, <3>2, Zenon
  <2>12. ASSUME NEW c \in Caller, StoreZero(c) PROVE \E d \in prober' : InFlight(d)'
    <3>1. CASE outcome[c] = "ok"
      <4>1. Goto(c, "release", outcome[c]) /\ prober' = prober /\ halfOpen
        BY <2>12, <3>1, Zenon DEF StoreZero, Then
      <4>2. InFlight(c)'
        BY <4>1, Zenon DEF Goto, InFlight, TypeOK
      <4> QED
        BY <2>0, <2>2, <4>1, <4>2, Zenon DEF ProbeOwned, InFlight, TypeOK
    <3>2. CASE outcome[c] # "ok"
      BY <2>5, <2>12, <3>2, Zenon DEF StoreZero, InFlight
    <3> QED
      BY <3>1, <3>2, Zenon
  <2>13. ASSUME NEW c \in Caller, StoreRelease(c) PROVE FALSE
    BY <2>13, Zenon DEF StoreRelease
  <2>14. ASSUME NEW c \in Caller, StoreClose(c) \/ StoreOpen(c)
         PROVE  \E d \in prober' : InFlight(d)'
    BY <2>4, <2>14, Zenon DEF StoreClose, StoreOpen, InFlight
  <2>15. ASSUME NEW c \in Caller, CountFailure(c) PROVE \E d \in prober' : InFlight(d)'
    BY <2>4, <2>5, <2>15, Zenon DEF CountFailure, InFlight
  <2>16. ASSUME UNCHANGED <<pc, outcome, prober, halfOpen>>
         PROVE  \E d \in prober' : InFlight(d)'
    BY <2>0, <2>16, Zenon DEF ProbeOwned, InFlight
  <2> QED
    BY <2>6, <2>7, <2>8, <2>9, <2>10, <2>11, <2>12, <2>13, <2>14, <2>15, <2>16, Zenon
    DEF Next, Step, AfterAttempt, Stop, CoolDown, Trouble, vars, breaker, call
<1> QED
  BY <1>1, <1>2, BreakerTyped, PTL DEF Spec

--------------------------------------------------------------------------------
\* The cursor budget

Leased == {t \in Thread : cursor[t].lease}

CursorPlace == [at : {"idle", "cas", "open"}, seen : Int, lease : BOOLEAN]

\* The counter is the number of leases; a lease belongs to an open cursor; a
\* thread about to exchange saw a value below the limit.
BudgetInv ==
    /\ limit \in Int
    /\ cursor \in [Thread -> CursorPlace]
    /\ open = Cardinality(Leased)
    /\ limit > 0 => open <= limit
    /\ \A t \in Thread : cursor[t].lease => cursor[t].at = "open"
    /\ \A t \in Thread : cursor[t].at = "cas" => limit > 0 /\ cursor[t].seen < limit

\* The leases are a finite set, so their number is a natural number.
LEMMA LeasedFinite == IsFiniteSet(Leased) /\ Cardinality(Leased) \in Nat
  <1>1. IsFiniteSet(Thread)
    BY LimitsAssumption, Zenon
  <1>2. Leased \subseteq Thread
    BY Zenon DEF Leased
  <1>3. IsFiniteSet(Leased)
    BY <1>1, <1>2, FS_Subset, Zenon
  <1> QED
    BY <1>3, FS_CardinalityType, Zenon

\* Every place of the loop in cursorBudgetAcquire() keeps the counter equal to
\* the leases.
LEMMA BudgetInductive == BudgetInv /\ [CursorNext]_cursorVars => BudgetInv'
  <1> SUFFICES ASSUME BudgetInv, [CursorNext]_cursorVars
               PROVE  BudgetInv'
    BY Zenon
  <1>1. ASSUME UNCHANGED cursorVars
        PROVE  BudgetInv'
    BY <1>1, Zenon DEF BudgetInv, cursorVars, Leased
  <1>2. ASSUME NEW t \in Thread, LoadBudget(t)
        PROVE  BudgetInv'
    <2>1. open \in Int
      BY LeasedFinite DEF BudgetInv
    <2>2. limit > 0 => Trying(open) \in CursorPlace /\ ~Trying(open).lease
                       /\ (Trying(open).at = "cas" => Trying(open).seen < limit)
      BY <2>1 DEF Trying, NoCursor, CursorPlace, BudgetInv
    <2>3. cursor' \in [Thread -> CursorPlace] /\ Leased' = Leased
      BY <1>2, <2>2 DEF LoadBudget, BudgetInv, CursorPlace, Leased
    <2> QED
      BY <1>2, <2>2, <2>3 DEF LoadBudget, BudgetInv, CursorPlace
  <1>3. ASSUME NEW t \in Thread, Exchange(t)
        PROVE  BudgetInv'
    <2>1. open \in Int /\ limit > 0
      BY <1>3, LeasedFinite DEF BudgetInv, Exchange
    <2>2. CASE open = cursor[t].seen /\ open' = open + 1
               /\ cursor' = [cursor EXCEPT ![t] = [@ EXCEPT !.at = "open", !.lease = TRUE]]
      <3>1. t \notin Leased /\ Leased' = Leased \cup {t}
        BY <1>3, <2>2, Zenon DEF Exchange, BudgetInv, Leased, CursorPlace
      <3>2. Cardinality(Leased') = Cardinality(Leased) + 1
        BY <3>1, LeasedFinite, FS_AddElement, Zenon
      <3>3. cursor' \in [Thread -> CursorPlace]
        BY <2>2, Zenon DEF BudgetInv, CursorPlace
      <3>4. open < limit
        BY <1>3, <2>2, Zenon DEF BudgetInv, Exchange
      <3>5. limit' = limit
        BY <1>3, Zenon DEF Exchange
      <3>6. \A u \in Thread : cursor'[u].lease => cursor'[u].at = "open"
        BY <2>2 DEF BudgetInv, CursorPlace
      <3>7. \A u \in Thread : cursor'[u].at = "cas" => limit > 0 /\ cursor'[u].seen < limit
        BY <2>2, Zenon DEF BudgetInv, CursorPlace
      <3>8. open' = Cardinality(Leased')
        <4>1. open = Cardinality(Leased)
          BY Zenon DEF BudgetInv
        <4> QED
          BY <2>2, <3>2, <4>1, Zenon
      <3>9. limit \in Int /\ open' <= limit
        BY <2>1, <2>2, <3>4 DEF BudgetInv
      <3> QED
        BY <2>1, <3>3, <3>5, <3>6, <3>7, <3>8, <3>9, Zenon DEF BudgetInv
    <2>3. CASE cursor' = [cursor EXCEPT ![t] = Trying(open)] /\ open' = open
      <3>1. Trying(open) \in CursorPlace /\ ~Trying(open).lease
            /\ (Trying(open).at = "cas" => Trying(open).seen < limit)
        BY <2>1 DEF Trying, NoCursor, CursorPlace, BudgetInv
      <3>2. cursor' \in [Thread -> CursorPlace] /\ Leased' = Leased
        BY <1>3, <2>3, <3>1, Zenon DEF Exchange, BudgetInv, CursorPlace, Leased
      <3> QED
        BY <1>3, <2>1, <2>3, <3>1, <3>2, Zenon DEF Exchange, BudgetInv, CursorPlace
    <2> QED
      BY <1>3, <2>2, <2>3, Zenon DEF Exchange
  <1>4. ASSUME NEW t \in Thread, DropLease(t)
        PROVE  BudgetInv'
    <2>1. open \in Int
      BY LeasedFinite DEF BudgetInv
    <2>2. cursor' \in [Thread -> CursorPlace] /\ Leased' = Leased \ {t}
      BY <1>4 DEF DropLease, NoCursor, BudgetInv, CursorPlace, Leased
    <2>3. Cardinality(Leased') = IF t \in Leased THEN Cardinality(Leased) - 1
                                 ELSE Cardinality(Leased)
      BY <2>2, LeasedFinite, FS_RemoveElement, Zenon
    <2>4. t \in Leased <=> cursor[t].lease
      BY Zenon DEF Leased
    <2>5. open' = Cardinality(Leased') /\ open' <= open
      BY <1>4, <2>1, <2>3, <2>4 DEF DropLease, BudgetInv
    <2> QED
      BY <1>4, <2>1, <2>2, <2>5 DEF DropLease, NoCursor, BudgetInv, CursorPlace
  <1> QED
    BY <1>1, <1>2, <1>3, <1>4, Zenon DEF CursorNext

\* At most max_open_cursors cursors hold a lease, and the counter is their
\* number, for every number of threads that open and close cursors.
THEOREM CursorsWithinBudget == CursorSpec => []CursorBudget
  <1>1. CursorInit => BudgetInv
    <2> SUFFICES ASSUME CursorInit PROVE BudgetInv
      BY Zenon
    <2>1. Leased = {}
      BY Zenon DEF CursorInit, NoCursor, Leased
    <2>2. Cardinality(Leased) = 0
      BY <2>1, FS_EmptySet, Zenon
    <2> QED
      BY <2>2, LimitsAssumption DEF CursorInit, NoCursor, BudgetInv, CursorPlace
  <1>2. BudgetInv => CursorBudget
    BY Zenon DEF BudgetInv, CursorBudget, Leased
  <1> QED
    BY <1>1, <1>2, BudgetInductive, PTL DEF CursorSpec
--------------------------------------------------------------------------------
\* The rate limiter

Bucket == [tokens : Int, last : Int, granted : Seq(Int)]

\* What a bucket has granted since its i-th grant, with the tokens it still
\* holds, is covered by its burst and the time since then.
Covered(b) ==
    \A i \in 1 .. Len(b.granted) :
        /\ b.granted[i] <= b.last
        /\ (Len(b.granted) - i + 1) * Part + b.tokens
             <= Burst * Part + Rate * (b.last - b.granted[i])

\* RateBound for one bucket.
Bounded(b) ==
    \A j \in 1 .. Len(b.granted) : \A i \in 1 .. j :
        (j - i + 1) * Part <= Burst * Part + Rate * (b.granted[j] - b.granted[i])

BucketOK(b, at) ==
    /\ b \in Bucket
    /\ b.tokens >= 0 /\ b.tokens <= Burst * Part
    /\ b.last <= at
    /\ Covered(b)
    /\ Bounded(b)

RateInv ==
    /\ now \in Int
    /\ bucket = [k \in DOMAIN bucket |-> bucket[k]]
    /\ \A k \in DOMAIN bucket : BucketOK(bucket[k], now)
    /\ \A t \in Thread : asking[t].at = "take" => asking[t].fp \in DOMAIN bucket

\* A bucket that time passes over stays as it is; refilling it neither passes
\* the burst nor gains more than the time since last_ pays for.
LEMMA RefillBounds ==
  ASSUME now \in Int, NEW b, BucketOK(b, now)
  PROVE  /\ Refill(b) \in Int
         /\ Refill(b) >= 0
         /\ Refill(b) <= Burst * Part
         /\ Refill(b) <= b.tokens + (now - b.last) * Rate
  <1> DEFINE cap == Burst * Part
             gain == (now - b.last) * Rate
  <1>1. cap \in Nat
    BY LimitsAssumption
  <1>2. gain \in Nat
    BY LimitsAssumption DEF BucketOK, Bucket
  <1>3. b.tokens \in Int /\ b.tokens >= 0
    BY Zenon DEF BucketOK, Bucket
  <1>4. Refill(b) = IF b.tokens + gain > cap THEN cap ELSE b.tokens + gain
    BY Zenon DEF Refill
  <1>5. b.tokens <= cap
    BY Zenon DEF BucketOK
  <1> HIDE DEF cap, gain
  <1>6. /\ Refill(b) \in Int /\ Refill(b) >= 0 /\ Refill(b) <= cap
        /\ Refill(b) <= b.tokens + gain
    BY <1>1, <1>2, <1>3, <1>4, <1>5
  <1> QED
    BY <1>6, Zenon DEF cap, gain

\* What flows in over two adjoining stretches of time flows in over both.
LEMMA Inflow ==
  \A x, y, z \in Int : /\ Rate * (z - x) = Rate * (y - x) + (z - y) * Rate
                        /\ Rate * (x - x) = 0
  BY LimitsAssumption

\* One token more is Part parts more.
LEMMA OneMore ==
  \A n \in Int : n * Part \in Int /\ (n + 1) * Part = n * Part + Part /\ 1 * Part = Part
  BY LimitsAssumption

\* Amounts of parts are integers.
LEMMA Products == Burst * Part \in Int /\ \A x \in Int : Rate * x \in Int
  BY LimitsAssumption

\* When the bucket is refilled up to now, its grants stay covered.
LEMMA RefillCovers ==
  ASSUME now \in Int, NEW b, BucketOK(b, now), NEW i \in 1 .. Len(b.granted)
  PROVE  /\ b.granted[i] \in Int /\ b.granted[i] <= now
         /\ (Len(b.granted) - i + 1) * Part + Refill(b)
              <= Burst * Part + Rate * (now - b.granted[i])
  <1> DEFINE g == b.granted[i]
             held == (Len(b.granted) - i + 1) * Part
             cap == Burst * Part
             before == Rate * (b.last - g)
             gain == (now - b.last) * Rate
             after == Rate * (now - g)
  <1>1. g \in Int /\ b.last \in Int /\ b.tokens \in Int /\ Len(b.granted) \in Nat
    BY DEF BucketOK, Bucket
  <1>2. g <= b.last /\ b.last <= now
    BY Zenon DEF BucketOK, Covered
  <1>3. held + b.tokens <= cap + before
    BY Zenon DEF BucketOK, Covered
  <1>4. after = before + gain
    BY <1>1, Inflow, Zenon
  <1>5. Refill(b) \in Int /\ Refill(b) <= b.tokens + gain
    BY RefillBounds, Zenon
  <1>6. held \in Int /\ cap \in Int /\ before \in Int /\ gain \in Int
    BY <1>1, LimitsAssumption
  <1> HIDE DEF g, held, cap, before, gain, after
  <1>7. held + Refill(b) <= cap + after
    BY <1>1, <1>3, <1>4, <1>5, <1>6
  <1>8. g <= now
    BY <1>1, <1>2
  <1> QED
    BY <1>1, <1>7, <1>8, Zenon DEF g, held, cap, after

\* tryAcquire() keeps a bucket's grants bounded over every stretch of time.
LEMMA TryAcquireOK ==
  ASSUME now \in Int, NEW b, BucketOK(b, now)
  PROVE  BucketOK(TryAcquire(b), now)
  <1> DEFINE n == Len(b.granted)
             cap == Burst * Part
  <1>1. b \in Bucket /\ n \in Nat /\ b.granted \in Seq(Int) /\ Part \in Nat /\ Part > 0
    BY LimitsAssumption DEF BucketOK, Bucket
  <1>2. Refill(b) \in Int /\ Refill(b) >= 0 /\ Refill(b) <= cap
    BY RefillBounds, Zenon
  <1>3. CASE Refill(b) >= Part
    <2> DEFINE c == TryAcquire(b)
    <2>1. c = [tokens |-> Refill(b) - Part, last |-> now, granted |-> Append(b.granted, now)]
      BY <1>3, Zenon DEF TryAcquire
    <2>2. c.tokens = Refill(b) - Part /\ c.last = now /\ c.granted = Append(b.granted, now)
      BY <2>1
    <2> HIDE DEF c
    <2>3. Len(c.granted) = n + 1 /\ c.granted[n + 1] = now
          /\ \A i \in 1 .. n : c.granted[i] = b.granted[i]
      BY <1>1, <2>2
    <2>4. c \in Bucket
      BY <1>1, <1>2, <2>1 DEF Bucket, c
    <2>5. c.tokens >= 0 /\ c.tokens <= cap /\ c.last <= now
      <3>1. cap \in Int
        BY LimitsAssumption
      <3> HIDE DEF cap
      <3> QED
        BY <1>1, <1>2, <1>3, <2>2, <3>1
    <2>6. ASSUME NEW i \in 1 .. n + 1
          PROVE  /\ c.granted[i] \in Int /\ c.granted[i] <= now
                 /\ (n + 1 - i + 1) * Part + c.tokens <= cap + Rate * (now - c.granted[i])
      <3>1. CASE i = n + 1
        <4>1. c.granted[i] = now /\ n + 1 - i + 1 = 1
          BY <1>1, <2>3, <3>1
        <4>2. Rate * (now - now) = 0 /\ 1 * Part = Part
          BY Inflow, OneMore, Zenon
        <4>3. cap \in Int
          BY LimitsAssumption
        <4> HIDE DEF cap
        <4>4. Part + c.tokens <= cap + 0 /\ now \in Int /\ now <= now
          BY <1>1, <1>2, <2>2, <4>3
        <4>5. (n + 1 - i + 1) * Part = Part /\ Rate * (now - c.granted[i]) = 0
          BY <4>1, <4>2, Zenon
        <4> QED
          BY <4>1, <4>4, <4>5, Zenon
      <3>2. CASE i \in 1 .. n
        <4> DEFINE held == (n - i + 1) * Part
                   after == Rate * (now - b.granted[i])
        <4>1. b.granted[i] \in Int /\ b.granted[i] <= now /\ held + Refill(b) <= cap + after
          BY <3>2, RefillCovers, Zenon
        <4>2. (n + 1 - i + 1) * Part = held + Part /\ held \in Int
          <5>1. n - i + 1 \in Int /\ n + 1 - i + 1 = (n - i + 1) + 1
            BY <1>1, <3>2
          <5> QED
            BY <5>1, OneMore, Zenon
        <4>3. c.granted[i] = b.granted[i]
          BY <2>3, <3>2, Zenon
        <4>4. cap \in Int /\ after \in Int
          <5>1. now - b.granted[i] \in Int
            BY <4>1
          <5> QED
            BY <5>1, Products, Zenon
        <4> HIDE DEF held, after, cap
        <4>5. held + Part + c.tokens <= cap + after
          BY <1>1, <1>2, <2>2, <4>1, <4>2, <4>4
        <4> QED
          BY <4>1, <4>2, <4>3, <4>5, Zenon DEF after
      <3> QED
        BY <1>1, <3>1, <3>2
    <2>7. Covered(c)
      BY <2>2, <2>3, <2>6 DEF Covered
    <2>8. ASSUME NEW j \in 1 .. n + 1, NEW i \in 1 .. j
          PROVE  (j - i + 1) * Part <= cap + Rate * (c.granted[j] - c.granted[i])
      <3>1. CASE j = n + 1
        <4> DEFINE held == (n + 1 - i + 1) * Part
                   after == Rate * (now - c.granted[i])
        <4>1. i \in 1 .. n + 1
          BY <1>1
        <4>2. c.granted[i] \in Int /\ held + c.tokens <= cap + after
          BY <2>6, <4>1, Zenon
        <4>3. held \in Int /\ cap \in Int /\ after \in Int /\ c.tokens \in Int
          <5>1. held \in Int
            BY <1>1, <4>1
          <5>2. cap \in Int /\ after \in Int
            <6>1. now - c.granted[i] \in Int
              BY <4>2
            <6> QED
              BY <6>1, Products, Zenon
          <5>3. c.tokens \in Int
            BY <1>1, <1>2, <2>2
          <5> QED
            BY <5>1, <5>2, <5>3, Zenon
        <4> HIDE DEF held, after, cap
        <4>4. held <= cap + after
          BY <2>5, <4>2, <4>3
        <4>5. c.granted[j] = now
          BY <2>3, <3>1
        <4>6. (j - i + 1) * Part = held
          <5>1. j - i + 1 = n + 1 - i + 1
            BY <3>1
          <5> QED
            BY <5>1, Zenon DEF held
        <4>7. Rate * (c.granted[j] - c.granted[i]) = after
          BY <4>5, Zenon DEF after
        <4> QED
          BY <4>4, <4>6, <4>7, Zenon
      <3>2. CASE j \in 1 .. n
        <4>1. i \in 1 .. n
          BY <1>1, <3>2
        <4>2. c.granted[j] = b.granted[j] /\ c.granted[i] = b.granted[i]
          BY <2>3, <3>2, <4>1, Zenon
        <4> QED
          BY <3>2, <4>2, Zenon DEF BucketOK, Bounded
      <3>3. j = n + 1 \/ j \in 1 .. n
        BY <1>1
      <3> QED
        BY <3>1, <3>2, <3>3, Zenon
    <2>9. Bounded(c)
      BY <2>3, <2>8, Zenon DEF Bounded
    <2> QED
      BY <2>4, <2>5, <2>7, <2>9, Zenon DEF BucketOK, c
  <1>4. CASE ~(Refill(b) >= Part)
    <2> DEFINE c == TryAcquire(b)
    <2>1. c = [b EXCEPT !.tokens = Refill(b), !.last = now]
      BY <1>4, Zenon DEF TryAcquire
    <2>2. c.tokens = Refill(b) /\ c.last = now /\ c.granted = b.granted /\ c \in Bucket
      BY <1>1, <1>2, <2>1, Zenon DEF Bucket
    <2> HIDE DEF c
    <2>3. Covered(c)
      BY <2>2, RefillCovers, Zenon DEF Covered
    <2>4. Bounded(c)
      BY <2>2, Zenon DEF BucketOK, Bounded
    <2> QED
      BY <1>2, <2>2, <2>3, <2>4 DEF BucketOK, c
  <1> QED
    BY <1>3, <1>4, Zenon

\* A new bucket has granted nothing and is full.
LEMMA NewBucketOK ==
  ASSUME now \in Int
  PROVE  BucketOK(NewBucket, now)
  <1>1. NewBucket.granted = <<>> /\ NewBucket.last = now /\ NewBucket.tokens = Burst * Part
    BY Zenon DEF NewBucket
  <1>2. Burst * Part \in Int /\ Burst * Part >= 0
    BY LimitsAssumption
  <1>3. NewBucket \in Bucket
    BY <1>2 DEF NewBucket, Bucket
  <1>4. Covered(NewBucket) /\ Bounded(NewBucket)
    BY <1>1 DEF Covered, Bounded
  <1> QED
    BY <1>1, <1>2, <1>3, <1>4 DEF BucketOK

\* Time alone does not disturb a bucket.
LEMMA BucketKeeps ==
  ASSUME NEW at \in Int, NEW later \in Int, at <= later, NEW b, BucketOK(b, at)
  PROVE  BucketOK(b, later)
  BY DEF BucketOK, Bucket

\* Every step of acquire(), by any thread, keeps every bucket bounded.
LEMMA RateInductive == RateInv /\ [RateNext]_rateVars => RateInv'
  <1> SUFFICES ASSUME RateInv, [RateNext]_rateVars
               PROVE  RateInv'
    BY Zenon
  <1>0. now \in Int
    BY Zenon DEF RateInv
  <1>1. ASSUME UNCHANGED rateVars
        PROVE  RateInv'
    BY <1>1, Zenon DEF RateInv, rateVars
  <1>2. ASSUME Tick
        PROVE  RateInv'
    <2>1. now' \in Int /\ now <= now' /\ bucket' = bucket /\ asking' = asking
      BY <1>0, <1>2 DEF Tick
    <2>2. \A k \in DOMAIN bucket : BucketOK(bucket[k], now')
      BY <1>0, <2>1, BucketKeeps, Zenon DEF RateInv
    <2> QED
      BY <2>1, <2>2, Zenon DEF RateInv
  <1>3. ASSUME NEW t \in Thread, NEW fp \in Fingerprint \cup {0}, AcquireGlobal(t, fp)
        PROVE  RateInv'
    <2>1. DOMAIN bucket' = DOMAIN bucket /\ now' = now
          /\ bucket' = [k \in DOMAIN bucket' |-> bucket'[k]]
      BY <1>3, Zenon DEF AcquireGlobal
    <2>2. ASSUME NEW k \in DOMAIN bucket
          PROVE  BucketOK(bucket'[k], now)
      <3>1. bucket'[k] = IF k = 0 THEN TryAcquire(bucket[k]) ELSE bucket[k]
        BY <1>3, Zenon DEF AcquireGlobal
      <3>2. BucketOK(bucket[k], now)
        BY Zenon DEF RateInv
      <3>3. BucketOK(TryAcquire(bucket[k]), now)
        BY <1>0, <3>2, TryAcquireOK, Zenon
      <3> QED
        BY <3>1, <3>2, <3>3, Zenon
    <2>3. \A u \in Thread : asking'[u].at = "take" => asking'[u].fp \in DOMAIN bucket
      BY <1>3 DEF AcquireGlobal, RateInv
    <2> QED
      BY <2>1, <2>2, <2>3, Zenon DEF RateInv
  <1>4. ASSUME NEW t \in Thread, FindBucket(t)
        PROVE  RateInv'
    <2> DEFINE fp == asking[t].fp
    <2>1. now' = now
      BY <1>4, Zenon DEF FindBucket
    <2>2. CASE bucket' = bucket
      <3>1. \A u \in Thread : asking'[u].at = "take" => asking'[u].fp \in DOMAIN bucket
        BY <1>4, <2>2 DEF FindBucket, Silent, RateInv
      <3> QED
        BY <2>1, <2>2, <3>1, Zenon DEF RateInv
    <2>3. CASE bucket' = [f \in DOMAIN bucket \cup {fp} |-> IF f = fp THEN NewBucket ELSE bucket[f]]
      <3>1. \A k \in DOMAIN bucket' : BucketOK(bucket'[k], now)
        BY <1>0, <2>3, NewBucketOK, Zenon DEF RateInv
      <3>2. \A u \in Thread : asking'[u].at = "take" => asking'[u].fp \in DOMAIN bucket'
        BY <1>4, <2>3 DEF FindBucket, Silent, RateInv
      <3> QED
        BY <2>1, <2>3, <3>1, <3>2, Zenon DEF RateInv
    <2> QED
      BY <1>4, <2>2, <2>3, Zenon DEF FindBucket
  <1>5. ASSUME NEW t \in Thread, AcquireFingerprint(t)
        PROVE  RateInv'
    <2> DEFINE fp == asking[t].fp
    <2>1. fp \in DOMAIN bucket /\ now' = now
      BY <1>5, Zenon DEF AcquireFingerprint, RateInv
    <2>2. BucketOK(TryAcquire(bucket[fp]), now)
      BY <1>0, <2>1, TryAcquireOK, Zenon DEF RateInv
    <2>3. bucket' = [bucket EXCEPT ![fp] = TryAcquire(bucket[fp])]
      BY <1>5, Zenon DEF AcquireFingerprint
    <2>4. \A k \in DOMAIN bucket' : BucketOK(bucket'[k], now)
      BY <2>1, <2>2, <2>3, Zenon DEF RateInv
    <2>5. \A u \in Thread : asking'[u].at = "take" => asking'[u].fp \in DOMAIN bucket
      BY <1>5 DEF AcquireFingerprint, Silent, RateInv
    <2>6. DOMAIN bucket' = DOMAIN bucket /\ bucket' = [k \in DOMAIN bucket' |-> bucket'[k]]
      BY <2>3, Zenon
    <2> QED
      BY <2>1, <2>4, <2>5, <2>6, Zenon DEF RateInv
  <1> QED
    BY <1>1, <1>2, <1>3, <1>4, <1>5, Zenon DEF RateNext

\* No bucket grants more, in any stretch of time, than its burst and what
\* flows in meanwhile, for every burst, rate, cap and number of threads.
THEOREM RateIsBounded == RateSpec => []RateBound
  <1>1. RateInit => RateInv
    <2> SUFFICES ASSUME RateInit PROVE RateInv
      BY Zenon
    <2>1. now \in Int /\ \A t \in Thread : asking[t].at = "idle"
      BY DEF RateInit, Silent
    <2>2. PICK global \in SUBSET {0} : bucket = [b \in global |-> NewBucket]
      BY Zenon DEF RateInit
    <2> QED
      BY <2>1, <2>2, NewBucketOK, Zenon DEF RateInv
  <1>2. RateInv => RateBound
    <2> SUFFICES ASSUME RateInv, NEW k \in DOMAIN bucket
                 PROVE  \A j \in DOMAIN bucket[k].granted : \A i \in 1 .. j :
                          LET g == bucket[k].granted
                          IN  (j - i + 1) * Part <= Burst * Part + Rate * (g[j] - g[i])
      BY Zenon DEF RateBound
    <2>1. bucket[k].granted \in Seq(Int) /\ Bounded(bucket[k])
      BY Zenon DEF RateInv, BucketOK, Bucket
    <2>2. DOMAIN bucket[k].granted = 1 .. Len(bucket[k].granted)
      BY <2>1
    <2> QED
      BY <2>1, <2>2, Zenon DEF Bounded
  <1> QED
    BY <1>1, <1>2, RateInductive, PTL DEF RateSpec

--------------------------------------------------------------------------------
\* The arithmetic of preparePage()

\* Multiplication by a nonnegative number keeps an order.
LEMMA TimesKeepsOrder ==
  ASSUME NEW a \in Int, NEW b \in Int, NEW c \in Nat, a <= b
  PROVE  a * c <= b * c
  <1>1. (b - a) * c >= 0
    OBVIOUS
  <1>2. (b - a) * c = b * c - a * c
    OBVIOUS
  <1>3. a * c \in Int /\ b * c \in Int
    OBVIOUS
  <1> QED
    BY <1>1, <1>2, <1>3

\* The guard of preparePage() compares page - 1 with a quotient, so that it
\* does not overflow itself, and yet refuses exactly the pages whose window
\* with the row after it reaches beyond the largest integer, for every width.
THEOREM RefusesExactly ==
  ASSUME NEW n \in Int, NEW size \in Int, size <= MaxInt
  PROVE  InvalidPage(n, size) <=> n < 1 \/ size < 1 \/ Offset(n, size) + size + 1 > MaxInt
  <1>1. MaxInt \in Int
    BY LimitsAssumption
  <1>2. CASE n < 1 \/ size < 1
    BY <1>2, Zenon DEF InvalidPage
  <1>3. CASE n >= 1 /\ size >= 1 /\ size = MaxInt
    <2>1. (n - 1) * size >= 0
      BY <1>3
    <2>2. (n - 1) * size \in Int
      OBVIOUS
    <2>3. Offset(n, size) + size + 1 > MaxInt
      BY <1>1, <1>3, <2>1, <2>2 DEF Offset
    <2> QED
      BY <1>3, <2>3, Zenon DEF InvalidPage
  <1>4. CASE n >= 1 /\ size >= 1 /\ size < MaxInt
    <2> DEFINE a == MaxInt - size - 1
               q == a \div size
               o == (n - 1) * size
    <2>1. a \in Int /\ a >= 0
      BY <1>1, <1>4
    <2>2. q \in Int /\ q * size <= a /\ a < q * size + size
      BY <1>4, <2>1
    <2>3. InvalidPage(n, size) <=> n - 1 > q
      BY <1>1, <1>4, <2>1 DEF InvalidPage, Quotient
    <2>4. o \in Int /\ q * size \in Int
      BY <2>2
    <2>5. ASSUME n - 1 > q PROVE o > a
      <3>1. q + 1 \in Int /\ n - 1 \in Int /\ size \in Nat /\ q + 1 <= n - 1
        BY <1>4, <2>2, <2>5
      <3>2. (q + 1) * size <= o
        BY <3>1, TimesKeepsOrder, Zenon
      <3>3. (q + 1) * size = q * size + size
        BY <2>2
      <3> HIDE DEF o, q, a
      <3> QED
        BY <2>1, <2>2, <2>4, <3>2, <3>3
    <2>6. ASSUME ~(n - 1 > q) PROVE o <= a
      <3>1. n - 1 \in Int /\ size \in Nat /\ n - 1 <= q
        BY <1>4, <2>2, <2>6
      <3>2. o <= q * size
        BY <2>2, <3>1, TimesKeepsOrder, Zenon
      <3> HIDE DEF o, q, a
      <3> QED
        BY <2>1, <2>2, <2>4, <3>2
    <2>7. Offset(n, size) = o
      BY Zenon DEF Offset
    <2>8. o > a <=> o + size + 1 > MaxInt
      <3> HIDE DEF o
      <3> QED
        BY <1>1, <2>4
    <2>9. o > a <=> n - 1 > q
      <3> HIDE DEF o, q, a
      <3> QED
        BY <2>1, <2>4, <2>5, <2>6
    <2> QED
      BY <1>4, <2>3, <2>7, <2>8, <2>9
  <1> QED
    BY <1>1, <1>2, <1>3, <1>4
================================================================================
