---------------------------- MODULE CircuitBreaker ----------------------------
(***************************************************************************)
(* The circuit breaker of a data source: beforeAttempt() and afterAttempt()*)
(* of database_manager.cpp and the entry points that call them.  The       *)
(* breaker has no lock: its state is three atomics, and every load, store  *)
(* and compare-exchange of one is a step of its own.                       *)
(***************************************************************************)
EXTENDS Naturals, FiniteSets

CONSTANTS
    Caller,       \* threads and requests that call the data source
    Impatient,    \* callers whose operation has a deadline or can be cancelled
    Strict,       \* callers whose operation refuses the compatibility fallback
    Entries,      \* the entry points each of them uses
    Threshold,    \* circuit_breaker.failure_threshold
    MaxAttempts   \* retry.max_attempts

EntryPoint == {"statement", "cursor", "transaction", "async"}

ASSUME BreakerAssumption ==
    /\ Impatient \subseteq Caller /\ Strict \subseteq Caller
    /\ Entries \in [Caller -> SUBSET EntryPoint]
    /\ Threshold \in Nat \ {0} /\ MaxAttempts \in Nat \ {0}

VARIABLES
    failures,     \* consecutiveFailures_
    halfOpen,     \* halfOpenInFlight_
    openUntil,    \* circuitOpenUntil_: "none" (the zero time point), "future", "past"
    calm,         \* no attempt ends with a status that counts (see Possible)
    pc,           \* where each caller is
    entry,        \* the entry point it is in
    attempt,      \* the attempt of the retry loop it is in
    outcome,      \* the status of its last attempt
    prober,       \* the callers that won the compare-exchange in this call
    stopped,      \* callers whose operation is stopped
    lost          \* history: a caller left with the probe, without reporting its attempt

breaker == <<failures, halfOpen, openUntil>>
call    == <<entry, attempt, outcome, prober, stopped>>
vars    == <<breaker, calm, pc, call, lost>>

Outcome == {"ok", "transient", "permanent", "stop"}
Report  == {"zero", "release", "close", "count", "open"}
Place   == {"idle", "gate", "probe", "run", "commit"} \cup Report

TypeOK ==
    /\ failures \in 0 .. Threshold /\ halfOpen \in BOOLEAN
    /\ openUntil \in {"none", "future", "past"}
    /\ calm \in BOOLEAN
    /\ pc \in [Caller -> Place]
    /\ entry \in [Caller -> EntryPoint \cup {"none"}]
    /\ attempt \in [Caller -> 1 .. MaxAttempts]
    /\ outcome \in [Caller -> Outcome]
    /\ prober \subseteq Caller /\ stopped \subseteq Impatient
    /\ lost \in BOOLEAN

\* Counting above Threshold makes no difference to any comparison.
Saturate(n) == IF n > Threshold THEN Threshold ELSE n

Init ==
    /\ failures = 0 /\ halfOpen = FALSE /\ openUntil = "none"
    /\ calm \in BOOLEAN
    /\ pc = [c \in Caller |-> "idle"]
    /\ entry = [c \in Caller |-> "none"]
    /\ attempt = [c \in Caller |-> 1]
    /\ outcome = [c \in Caller |-> "ok"]
    /\ prober = {} /\ stopped = {} /\ lost = FALSE

\* The call goes on at another place, with the status o of its attempt.
Goto(c, place, o) ==
    /\ pc' = [pc EXCEPT ![c] = place]
    /\ outcome' = [outcome EXCEPT ![c] = o]

\* The call returns to the application.
Return(c) ==
    /\ Goto(c, "idle", "ok")
    /\ entry' = [entry EXCEPT ![c] = "none"]
    /\ attempt' = [attempt EXCEPT ![c] = 1]
    /\ prober' = prober \ {c} /\ stopped' = stopped \ {c}

-----------------------------------------------------------------------------
(* An application calls an entry point of the data source.                 *)

Call(c) ==
    /\ pc[c] = "idle"
    /\ \E e \in Entries[c] : entry' = [entry EXCEPT ![c] = e]
    /\ Goto(c, "gate", "ok")
    /\ UNCHANGED <<breaker, calm, attempt, prober, stopped, lost>>

\* beforeAttempt() up to the compare-exchange: the operation is stopped or the
\* circuit is open, the circuit is closed, or the cool-down is over.
Gate(c) ==
    /\ pc[c] = "gate"
    /\ IF c \in stopped \/ openUntil = "future"
         THEN Return(c)
         ELSE /\ Goto(c, IF openUntil = "past" THEN "probe" ELSE "run", "ok")
              /\ UNCHANGED <<entry, attempt, prober, stopped>>
    /\ UNCHANGED <<breaker, calm, lost>>

\* The compare-exchange of beforeAttempt(): one caller takes the half-open probe.
Probe(c) ==
    /\ pc[c] = "probe"
    /\ halfOpen' = TRUE
    /\ IF halfOpen
         THEN Return(c)
         ELSE /\ Goto(c, "run", "ok")
              /\ prober' = prober \cup {c}
              /\ UNCHANGED <<entry, attempt, stopped>>
    /\ UNCHANGED <<failures, openUntil, calm, lost>>

-----------------------------------------------------------------------------
(* The attempt, and afterAttempt(), one atomic store at a time.            *)

\* What an attempt can end with.  The statuses that count ("transient": retryable, or the
\* connection broke) are those of a database that does not answer, but also deadlocks, the
\* timeout of a transaction and the timeout of an asynchronous statement, which a database
\* in good health produces too.
Possible(c) == {"ok", "permanent"} \cup (IF calm THEN {} ELSE {"transient"})
                                   \cup (IF c \in stopped THEN {"stop"} ELSE {})

\* Mutant: an operation that ran out of its own budget is counted as a failure.
FirstStoreBlaming(o) == IF o = "ok" THEN "zero" ELSE IF o = "stop" THEN "count" ELSE "release"

\* The first store of afterAttempt().
FirstStore(o) == IF o = "ok" THEN "zero" ELSE "release"

\* Returning without afterAttempt().
Leave(c) == Return(c) /\ lost' = (lost \/ c \in prober)

\* Borrowing a connection and running the statement.  A cursor that opens leaves
\* openCursorUngated() without afterAttempt().
Run(c) ==
    /\ pc[c] = "run"
    /\ \E o \in Possible(c) :
          IF entry[c] = "cursor" /\ o = "ok"
            THEN Leave(c)
            ELSE Goto(c, FirstStore(o), o) /\ UNCHANGED <<entry, attempt, prober, stopped, lost>>
    /\ UNCHANGED <<breaker, calm>>

\* The callback of borrowAsync() returns without afterAttempt() when the operation is
\* stopped by then, or when it would have to fall back and may not.
Abandon(c) ==
    /\ pc[c] = "run" /\ entry[c] = "async" /\ (c \in stopped \/ c \in Strict)
    /\ Leave(c)
    /\ UNCHANGED <<breaker, calm>>

\* afterAttempt() returns: the call ends, a retryable statement is tried again, or a
\* transaction whose callback succeeded is committed.  (Only some of the failures that
\* count are retryable; a transaction may have been committed by its callback.)
Finish(c) ==
    \/ Return(c)
    \/ /\ entry[c] \in {"statement", "cursor"} /\ outcome[c] = "transient"
       /\ attempt[c] < MaxAttempts
       /\ Goto(c, "gate", "ok") /\ attempt' = [attempt EXCEPT ![c] = @ + 1]
       /\ prober' = prober \ {c} /\ UNCHANGED <<entry, stopped>>
    \/ /\ entry[c] = "transaction" /\ outcome[c] = "ok"
       /\ Goto(c, "commit", "ok") /\ prober' = prober \ {c} /\ UNCHANGED <<entry, attempt, stopped>>

\* Committing a transaction; a failed commit is reported as well.
Commit(c) ==
    /\ pc[c] = "commit"
    /\ \E o \in Possible(c) :
          IF o = "ok"
            THEN Return(c)
            ELSE Goto(c, FirstStore(o), o) /\ UNCHANGED <<entry, attempt, prober, stopped>>
    /\ UNCHANGED <<breaker, calm, lost>>

\* The next store of the same report.
Then(c, place) == Goto(c, place, outcome[c]) /\ UNCHANGED <<entry, attempt, prober, stopped>>

StoreZero(c) ==
    /\ pc[c] = "zero"
    /\ failures' = 0
    /\ Then(c, IF outcome[c] = "ok" THEN "release" ELSE "close")
    /\ UNCHANGED <<halfOpen, openUntil, calm, lost>>

\* What follows the store to halfOpenInFlight_.
Released(c) ==
    CASE outcome[c] = "ok"        -> Then(c, "close")
      [] outcome[c] = "permanent" -> Then(c, "zero")
      [] outcome[c] = "transient" -> Then(c, "count")
      [] outcome[c] = "stop"      -> Finish(c)

\* Mutant: a stopped operation keeps the probe.
StoreReleaseKept(c) ==
    /\ pc[c] = "release"
    /\ halfOpen' = (halfOpen /\ outcome[c] = "stop")
    /\ Released(c)
    /\ UNCHANGED <<failures, openUntil, calm, lost>>

StoreRelease(c) ==
    /\ pc[c] = "release"
    /\ halfOpen' = FALSE
    /\ Released(c)
    /\ UNCHANGED <<failures, openUntil, calm, lost>>

\* Mutant: a success does not reset circuitOpenUntil_.
StoreCloseSkipped(c) ==
    /\ pc[c] = "close"
    /\ Finish(c)
    /\ UNCHANGED <<breaker, calm, lost>>

StoreClose(c) ==
    /\ pc[c] = "close"
    /\ openUntil' = "none"
    /\ Finish(c)
    /\ UNCHANGED <<failures, halfOpen, calm, lost>>

CountFailure(c) ==
    /\ pc[c] = "count"
    /\ failures' = Saturate(failures + 1)
    /\ IF failures + 1 >= Threshold THEN Then(c, "open") ELSE Finish(c)
    /\ UNCHANGED <<halfOpen, openUntil, calm, lost>>

StoreOpen(c) ==
    /\ pc[c] = "open"
    /\ openUntil' = "future"
    /\ Finish(c)
    /\ UNCHANGED <<failures, halfOpen, calm, lost>>

-----------------------------------------------------------------------------
(* The environment.                                                        *)

\* The operation's deadline passes or its token is cancelled.
Stop(c) ==
    /\ c \in Impatient \ stopped /\ pc[c] # "idle"
    /\ stopped' = stopped \cup {c}
    /\ UNCHANGED <<breaker, calm, pc, entry, attempt, outcome, prober, lost>>

\* open_interval_ms passes.
CoolDown ==
    /\ openUntil = "future"
    /\ openUntil' = "past"
    /\ UNCHANGED <<failures, halfOpen, calm, pc, call, lost>>

\* The trouble (an outage, deadlocks, slow statements) begins or is over.
Trouble ==
    /\ calm' = ~calm
    /\ UNCHANGED <<breaker, pc, call, lost>>

AfterAttempt(c) ==
    StoreZero(c) \/ StoreRelease(c) \/ StoreClose(c) \/ CountFailure(c) \/ StoreOpen(c)

Step(c) == Gate(c) \/ Probe(c) \/ Run(c) \/ Abandon(c) \/ Commit(c) \/ AfterAttempt(c)

Next ==
    \/ \E c \in Caller : Call(c) \/ Step(c) \/ Stop(c)
    \/ CoolDown
    \/ Trouble

Spec == Init /\ [][Next]_vars

\* Calls that have begun go on, the clock advances, and the application keeps calling.
Fairness ==
    /\ \A c \in Caller : WF_vars(Call(c) \/ Step(c))
    /\ WF_vars(CoolDown)

FairSpec == Spec /\ Fairness

-----------------------------------------------------------------------------
(* Properties.                                                             *)

\* Between the gate and the store of afterAttempt() that clears halfOpenInFlight_.
InFlight(c) == pc[c] \in {"run", "release"} \/ (pc[c] = "zero" /\ outcome[c] = "ok")

\* halfOpenInFlight_ is set only while the caller that set it is still between
\* beforeAttempt() and the store of afterAttempt() that clears it, unless a caller left
\* with the probe without a report.  A flag nobody is going to clear would turn every
\* later call away for ever.
ProbeOwned == halfOpen => lost \/ \E c \in prober : InFlight(c)

\* "An application budget is not evidence of database unhealthiness"
\* (database_manager.cpp:1257): once no attempt ends with a status that counts, the circuit
\* is not opened again, although operations go on being cancelled or running out of their
\* deadlines for ever, and although reports of older failures arrive late.
BudgetsNeverOpen == <>[]calm => <>[](openUntil # "future")

\* Once no attempt ends with a status that counts, operations are not stopped any more and
\* the application keeps calling, the circuit closes and stays closed: late reports of old
\* attempts only delay it.  (Provided that no caller left with the probe.)
Recovers == <>[](calm /\ stopped = {}) /\ []~lost => <>[](openUntil = "none")

\* Stated by tests/sqlconduit_core_test.cpp:904 ("冷却后半开探测成功并关闭熔断": after the
\* cool-down the half-open probe succeeds and closes the circuit) and, for every entry
\* point, by docs/guide_en.md:470 ("**The circuit breaker covers all entry points**").
AlwaysRecovers == <>[]calm => <>[](openUntil = "none")
===============================================================================
