------------------------------ MODULE AsyncQuery ------------------------------
(***************************************************************************)
(* One asynchronous statement per request on a leaf data source            *)
(* (src/async/async_engine.cpp): the retry loop, the attempt, the          *)
(* compatibility path, and the native handshake between the driver's       *)
(* completion, the timeout task and the stop of the operation              *)
(* (src/common/operation_options.cpp).  Threads are those of the executor, *)
(* the timer thread, the driver's reactor, the deadline thread and the     *)
(* cancellation workers; one action is what one of them does between two   *)
(* accesses that another can see.  The pool and the executor are seen as   *)
(* ConnectionPool and Executor show them: a connection has one holder, a   *)
(* wait for one ends but its completion may be dropped, and a task that    *)
(* was taken on runs.                                                      *)
(***************************************************************************)
EXTENDS Integers, FiniteSets

CONSTANTS
    Read, Write,       \* requests of queryAsync() and executeAsync()
    Stoppable,         \* requests with an OperationState
    NativeOnly,        \* those of them that allow no compatibility fallback
    Conn,              \* the pool's connections
    Attempts,          \* retry.max_attempts
    RetryWrites,       \* writes may be repeated
    Timeout,           \* async.statement_timeout_ms > 0
    None

Request == Read \cup Write

ASSUME AsyncAssumption ==
    /\ Read \cap Write = {} /\ NativeOnly \subseteq Stoppable /\ Stoppable \subseteq Request
    /\ None \notin Conn /\ Attempts \in Nat \ {0}
    /\ RetryWrites \in BOOLEAN /\ Timeout \in BOOLEAN

VARIABLES
    place,             \* where the attempt is
    attempt,           \* its number
    handle,            \* the connection the attempt holds
    leaving,           \* connections of attempts that have ended but still hold them
    control,           \* the three flags of NativeQueryControl
    driver,            \* where the driver's completion callback is
    timer, late,       \* where the timeout task and deliverTimeout() are
    bound,             \* the connection the stop lease would cancel
    stop,              \* OperationState: live, over (status() is an error), told (signal sent)
    calling,           \* subscribers that request() has still to call
    cancels,           \* a cancellation waits for a cancellation worker
    written,           \* OperationState::writeStarted
    answer,            \* what the caller's future holds
    stopping,          \* the executor is shutting down
    calls,             \* history: completions of the engine
    executed,          \* history: how often the statement was given to the database
    struck             \* history: connections whose statement a stop has cancelled in this lease

attempts == <<place, attempt, handle, leaving>>
native   == <<control, driver, timer, late>>
signals  == <<bound, stop, calling, cancels, written>>
vars     == <<attempts, native, signals, answer, stopping, calls, executed, struck>>

Flags == [resolved : BOOLEAN, driverCompleted : BOOLEAN, timeoutDelivered : BOOLEAN]
NewControl == [resolved |-> FALSE, driverCompleted |-> FALSE, timeoutDelivered |-> FALSE]

Init ==
    /\ place = [r \in Request |-> "idle"] /\ attempt = [r \in Request |-> 1]
    /\ handle = [r \in Request |-> None] /\ leaving = {}
    /\ bound = [r \in Request |-> None]
    /\ control = [r \in Request |-> NewControl] /\ driver = [r \in Request |-> "none"]
    /\ timer = [r \in Request |-> "none"] /\ late = [r \in Request |-> "none"]
    /\ stop = [r \in Request |-> "live"] /\ calling = [r \in Request |-> {}]
    /\ cancels = [r \in Request |-> FALSE] /\ written = [r \in Request |-> FALSE]
    /\ answer = [r \in Request |-> "none"] /\ stopping = FALSE
    /\ calls = [r \in Request |-> 0] /\ executed = [r \in Request |-> 0] /\ struck = {}

-----------------------------------------------------------------------------
(* Answers, leases and connections.                                        *)

Stopped(r) == stop[r] # "live"

\* OperationState::status(), seen by the caller.
StopAnswer(r) == IF written[r] THEN "unknown" ELSE "stopped"

\* Pending::deliver(): the first answer counts, and a stop overrides it.
Deliver(r, v) ==
    answer' = IF r \in Stoppable /\ answer[r] # "none" THEN answer
              ELSE [answer EXCEPT ![r] = IF Stopped(r) THEN StopAnswer(r) ELSE v]

\* The completion the client gave to the engine: a query that took too long has timed out.
Complete(r, v) ==
    /\ Deliver(r, v) \/ (r \in Read /\ Timeout /\ Deliver(r, "timeout"))
    /\ calls' = [calls EXCEPT ![r] = @ + 1]
    /\ place' = [place EXCEPT ![r] = "done"] /\ UNCHANGED attempt

\* ~Handle(): the connection goes back; one that is not reusable is closed, and a new
\* one takes its place.
Return(r, reusable) ==
    /\ handle' = [handle EXCEPT ![r] = None]
    /\ struck' = IF reusable THEN struck ELSE struck \ {handle[r]}
    /\ UNCHANGED leaving

\* The same where the completion is called first: the connection goes back in Leave.
ReturnAfter(r, reusable) ==
    /\ handle' = [handle EXCEPT ![r] = None] /\ leaving' = leaving \cup {handle[r]}
    /\ struck' = IF reusable THEN struck ELSE struck \ {handle[r]}

\* The end of the stop lease: no cancellation gets through any more.
ReleaseStop(r) ==
    /\ bound' = [bound EXCEPT ![r] = None] /\ cancels' = [cancels EXCEPT ![r] = FALSE]
    /\ calling' = [calling EXCEPT ![r] = @ \ {"driver"}]

\* OperationState::bind(): after the signal was sent the subscriber is called at once.
BindStop(r) ==
    /\ written' = [written EXCEPT ![r] = @ \/ (r \in Stoppable /\ r \in Write)]
    /\ bound' = [bound EXCEPT ![r] = IF r \in Stoppable THEN handle[r] ELSE None]
    /\ cancels' = [cancels EXCEPT ![r] = r \in Stoppable /\ stop[r] = "told"]

\* Whether a result of this attempt is followed by another attempt.
RetriesRead(r, v)  == v = "retry" /\ attempt[r] < Attempts
RetriesWrite(r, v) == v = "retry" /\ RetryWrites /\ attempt[r] < Attempts

Outcome(r, v) ==
    IF IF r \in Read THEN RetriesRead(r, v) ELSE RetriesWrite(r, v)
    THEN place' = [place EXCEPT ![r] = "delayed"] /\ UNCHANGED <<attempt, answer, calls>>
    ELSE Complete(r, IF v = "retry" THEN "error" ELSE v)

-----------------------------------------------------------------------------
(* The retry loop and the start of an attempt.                             *)

\* run(): a stopped request ends; otherwise the attempt is posted, unless the executor
\* refuses it, the pool is gone or the time is used up.
Begin(r, n) ==
    \/ /\ ~Stopped(r) /\ ~stopping
       /\ place' = [place EXCEPT ![r] = "posted"] /\ attempt' = [attempt EXCEPT ![r] = n]
       /\ UNCHANGED <<answer, calls>>
    \/ Complete(r, "error")

Submit(r) ==
    /\ place[r] = "idle" /\ Begin(r, 1)
    /\ UNCHANGED <<handle, leaving, native, signals, stopping, executed, struck>>

Retry(r) ==
    /\ place[r] = "delayed" /\ Begin(r, attempt[r] + 1)
    /\ UNCHANGED <<handle, leaving, native, signals, stopping, executed, struck>>

\* The posted task of a query: refused by a gate, served by the cache, or on to the pool.
StartRead(r) ==
    /\ r \in Read /\ place[r] = "posted"
    /\ \/ Complete(r, "error") \/ Complete(r, "ok")
       \/ place' = [place EXCEPT ![r] = "borrowing"] /\ UNCHANGED <<attempt, answer, calls>>
    /\ UNCHANGED <<handle, leaving, native, signals, stopping, executed, struck>>

StartWrite(r) ==
    /\ r \in Write /\ place[r] = "posted"
    /\ \/ Complete(r, "error")
       \/ place' = [place EXCEPT ![r] = "borrowing"] /\ UNCHANGED <<attempt, answer, calls>>
    /\ UNCHANGED <<handle, leaving, native, signals, stopping, executed, struck>>

\* The pool answers with an error.
Refused(r) ==
    /\ place[r] = "borrowing"
    /\ IF Stopped(r) THEN Complete(r, "error") ELSE \E v \in {"retry", "error"} : Outcome(r, v)
    /\ UNCHANGED <<handle, leaving, native, signals, stopping, executed, struck>>

\* The pool hands a returned connection to another waiter and drops the completion of this
\* one, which is overdue (ReturnHandoff of ConnectionPool): nobody goes on with the attempt.
Forgotten(r) ==
    /\ place[r] = "borrowing" /\ place' = [place EXCEPT ![r] = "dropped"]
    /\ UNCHANGED <<attempt, handle, leaving, native, signals, answer, stopping, calls, executed, struck>>

\* The pool answers with a connection; a stopped request ends and gives it back.
Granted(r) ==
    /\ place[r] = "borrowing"
    /\ \E c \in Conn \ (leaving \cup {handle[q] : q \in Request}) :
          IF Stopped(r)
          THEN Complete(r, "error") /\ leaving' = leaving \cup {c} /\ UNCHANGED <<handle, struck>>
          ELSE /\ place' = [place EXCEPT ![r] = "leased"]
               /\ handle' = [handle EXCEPT ![r] = c] /\ struck' = struck \ {c}
               /\ UNCHANGED <<attempt, leaving, answer, calls>>
    /\ UNCHANGED <<native, signals, stopping, executed>>

\* An interceptor refuses the statement.
Intercepted(r) ==
    /\ place[r] \in {"leased", "fallback"} /\ Complete(r, "error") /\ ReturnAfter(r, TRUE)
    /\ UNCHANGED <<native, signals, stopping, executed>>

Bind(r) ==
    /\ place[r] = "leased" /\ place' = [place EXCEPT ![r] = "bound"] /\ BindStop(r)
    /\ UNCHANGED <<attempt, handle, leaving, native, stop, calling, answer, stopping, calls, executed, struck>>

\* The driver takes the statement.
StartNative(r) ==
    /\ place[r] = "bound" /\ place' = [place EXCEPT ![r] = "native"]
    /\ executed' = [executed EXCEPT ![r] = @ + 1]
    /\ control' = [control EXCEPT ![r] = NewControl]
    /\ driver' = [driver EXCEPT ![r] = "running"] /\ late' = [late EXCEPT ![r] = "none"]
    /\ timer' = [timer EXCEPT ![r] = IF r \in Read /\ Timeout THEN "unarmed" ELSE "none"]
    /\ UNCHANGED <<attempt, handle, leaving, signals, answer, stopping, calls, struck>>

\* The driver declines it.
Decline(r) ==
    /\ place[r] = "bound" /\ place' = [place EXCEPT ![r] = "fallback"] /\ ReleaseStop(r)
    /\ UNCHANGED <<attempt, handle, leaving, native, stop, written, answer, stopping, calls, executed,
                   struck>>

\* The connection has no native interface.
NotNative(r) ==
    /\ place[r] = "leased" /\ place' = [place EXCEPT ![r] = "fallback"]
    /\ UNCHANGED <<attempt, handle, leaving, native, signals, answer, stopping, calls, executed, struck>>

-----------------------------------------------------------------------------
(* The compatibility path: the worker runs the statement in a session.     *)

\* The statement is about to run: a request that allows no fallback or is stopped ends
\* here, otherwise the stop is bound to the connection.
Fallback(r) ==
    /\ place[r] = "fallback"
    /\ IF r \in NativeOnly \/ Stopped(r)
       THEN Complete(r, "error") /\ ReturnAfter(r, TRUE) /\ UNCHANGED <<bound, cancels, written>>
       ELSE /\ place' = [place EXCEPT ![r] = "checked"] /\ BindStop(r)
            /\ UNCHANGED <<attempt, handle, leaving, answer, calls, struck>>
    /\ UNCHANGED <<native, stop, calling, stopping, executed>>

\* It looks at the stop once more, and runs.
Session(r) ==
    /\ place[r] = "checked"
    /\ IF Stopped(r)
       THEN Complete(r, "error") /\ ReturnAfter(r, TRUE) /\ ReleaseStop(r) /\ UNCHANGED executed
       ELSE /\ place' = [place EXCEPT ![r] = "session"]
            /\ executed' = [executed EXCEPT ![r] = @ + 1]
            /\ UNCHANGED <<attempt, handle, leaving, bound, cancels, calling, answer, calls, struck>>
    /\ UNCHANGED <<native, stop, written, stopping>>

\* The statement ends; the connection of a stopped operation is not reused.
SessionEnd(r) ==
    /\ place[r] = "session" /\ ReleaseStop(r)
    /\ \E broken \in BOOLEAN : ReturnAfter(r, ~Stopped(r) /\ ~broken)
    /\ IF Stopped(r) THEN Complete(r, "error")
                     ELSE \E v \in {"ok", "retry", "error"} : Outcome(r, v)
    /\ UNCHANGED <<native, stop, written, stopping, executed>>

\* The callback that completed the request returns, and with it the connection.
Leave(c) ==
    /\ c \in leaving /\ leaving' = leaving \ {c}
    /\ UNCHANGED <<place, attempt, handle, native, signals, answer, stopping, calls, executed, struck>>

-----------------------------------------------------------------------------
(* The driver's completion callback.                                       *)

DriverAt(r, p) == driver' = [driver EXCEPT ![r] = p]
Set(r, flag)   == control' = [control EXCEPT ![r][flag] = TRUE]

\* The reactor sees the end of the statement and calls back.
DriverDone(r) ==
    /\ driver[r] = "running" /\ DriverAt(r, "completed") /\ Set(r, "driverCompleted")
    /\ UNCHANGED <<attempts, timer, late, signals, answer, stopping, calls, executed, struck>>

\* resolved.exchange(true): the callback delivers, or comes too late.
DriverResolve(r) ==
    /\ driver[r] = "completed" /\ Set(r, "resolved")
    /\ DriverAt(r, IF control[r].resolved THEN "late" ELSE "deliver")
    /\ UNCHANGED <<attempts, timer, late, signals, answer, stopping, calls, executed, struck>>

\* Mutant: the stop lease outlives the connection.
DeliverBackLeased(r) ==
    /\ driver[r] = "deliver" /\ DriverAt(r, IF Stopped(r) THEN "overruled" ELSE "returned")
    /\ \E broken \in BOOLEAN : Return(r, ~Stopped(r) /\ ~broken)
    /\ UNCHANGED <<place, attempt, control, timer, late, signals, answer, stopping, calls, executed>>

\* Mutant: a stop is not looked at when the connection is returned.
DeliverBackReusing(r) ==
    /\ driver[r] = "deliver" /\ DriverAt(r, IF Stopped(r) THEN "overruled" ELSE "returned")
    /\ ReleaseStop(r)
    /\ \E broken \in BOOLEAN : Return(r, ~broken)
    /\ UNCHANGED <<place, attempt, control, timer, late, stop, written, answer, stopping, calls,
                   executed>>

\* The delivery of a result returns the connection, which is not reused after a stop,
DeliverBack(r) ==
    /\ driver[r] = "deliver" /\ DriverAt(r, IF Stopped(r) THEN "overruled" ELSE "returned")
    /\ ReleaseStop(r)
    /\ \E broken \in BOOLEAN : Return(r, ~Stopped(r) /\ ~broken)
    /\ UNCHANGED <<place, attempt, control, timer, late, stop, written, answer, stopping, calls,
                   executed>>

\* and then completes the attempt: a stopped query ends with the stop,
DeliverRead(r) ==
    /\ r \in Read /\ driver[r] \in {"returned", "overruled"} /\ DriverAt(r, "gone")
    /\ IF driver[r] = "overruled"
       THEN Complete(r, "error") ELSE \E v \in {"ok", "retry", "error"} : Outcome(r, v)
    /\ UNCHANGED <<handle, leaving, control, timer, late, signals, stopping, executed, struck>>

\* a stopped write too, unless it has succeeded.
DeliverWrite(r) ==
    /\ r \in Write /\ driver[r] \in {"returned", "overruled"} /\ DriverAt(r, "gone")
    /\ IF driver[r] = "overruled"
       THEN \E v \in {"ok", "error"} : Complete(r, v)
       ELSE \E v \in {"ok", "retry", "error"} : Outcome(r, v)
    /\ UNCHANGED <<handle, leaving, control, timer, late, signals, stopping, executed, struck>>

\* Too late: after the timeout was delivered, the connection is this callback's to return.
DriverLate(r) ==
    /\ driver[r] = "late"
    /\ DriverAt(r, IF control[r].timeoutDelivered THEN "release" ELSE "gone")
    /\ UNCHANGED <<attempts, control, timer, late, signals, answer, stopping, calls, executed, struck>>

\* handleMutex is held by the timeout task while it cancels.
HandleFree(r) == timer[r] # "cancel"

LateRelease(r) ==
    /\ driver[r] = "release" /\ HandleFree(r) /\ DriverAt(r, "gone")
    /\ ReleaseStop(r) /\ Return(r, TRUE)
    /\ UNCHANGED <<place, attempt, control, timer, late, stop, written, answer, stopping, calls, executed>>

-----------------------------------------------------------------------------
(* The timeout task.                                                       *)

TimerAt(r, p) == timer' = [timer EXCEPT ![r] = p]
LateAt(r, p)  == late' = [late EXCEPT ![r] = p]

\* The thread that started the statement sets the timer.
Arm(r) ==
    /\ timer[r] = "unarmed" /\ TimerAt(r, "armed")
    /\ UNCHANGED <<attempts, control, driver, late, signals, answer, stopping, calls, executed, struck>>

\* Mutant: the timeout task does not look whether the driver was first.
FireAlways(r) ==
    /\ timer[r] = "armed" /\ Set(r, "resolved") /\ TimerAt(r, "won")
    /\ UNCHANGED <<attempts, driver, late, signals, answer, stopping, calls, executed, struck>>

\* resolved.exchange(true).
Fire(r) ==
    /\ timer[r] = "armed" /\ Set(r, "resolved")
    /\ TimerAt(r, IF control[r].resolved THEN "gone" ELSE "won")
    /\ UNCHANGED <<attempts, driver, late, signals, answer, stopping, calls, executed, struck>>

\* Mutant: a refused deliverTimeout() is forgotten.
PostTimeoutForgotten(r) ==
    /\ timer[r] = "won" /\ TimerAt(r, "cancel") /\ LateAt(r, IF stopping THEN "gone" ELSE "posted")
    /\ UNCHANGED <<attempts, control, driver, signals, answer, stopping, calls, executed, struck>>

\* Under handleMutex: deliverTimeout() is posted; an executor that is shutting down
\* refuses it.
PostTimeout(r) ==
    /\ timer[r] = "won" /\ TimerAt(r, "cancel")
    /\ LateAt(r, IF stopping THEN "inline" ELSE "posted")
    /\ UNCHANGED <<attempts, control, driver, signals, answer, stopping, calls, executed, struck>>

\* The statement is cancelled and handleMutex released; a refused deliverTimeout() runs now.
Cancel(r) ==
    /\ timer[r] = "cancel" /\ TimerAt(r, "gone")
    /\ LateAt(r, IF late[r] = "inline" THEN "posted" ELSE late[r])
    /\ UNCHANGED <<attempts, control, driver, signals, answer, stopping, calls, executed, struck>>

\* deliverTimeout() completes the request.
TimeoutAnswer(r) ==
    /\ late[r] = "posted" /\ LateAt(r, "answered") /\ Complete(r, "timeout")
    /\ UNCHANGED <<handle, leaving, control, driver, timer, signals, stopping, executed, struck>>

\* timeoutDelivered.store(true) and driverCompleted.load(): the load may be done first.
TimeoutStore(r) ==
    /\ late[r] = "answered" /\ LateAt(r, "stored") /\ Set(r, "timeoutDelivered")
    /\ UNCHANGED <<attempts, driver, timer, signals, answer, stopping, calls, executed, struck>>

\* Mutant: the timeout gives the connection back without waiting for the driver.
TimeoutLoadIgnored(r) ==
    /\ late[r] = "stored" /\ LateAt(r, "release")
    /\ UNCHANGED <<attempts, control, driver, timer, signals, answer, stopping, calls, executed, struck>>

TimeoutLoad(r) ==
    /\ late[r] = "stored" /\ LateAt(r, IF control[r].driverCompleted THEN "release" ELSE "gone")
    /\ UNCHANGED <<attempts, control, driver, timer, signals, answer, stopping, calls, executed, struck>>

TimeoutLoadEarly(r) ==
    /\ late[r] = "answered" /\ ~control[r].driverCompleted /\ LateAt(r, "blind")
    /\ UNCHANGED <<attempts, control, driver, timer, signals, answer, stopping, calls, executed, struck>>

TimeoutStoreLate(r) ==
    /\ late[r] = "blind" /\ LateAt(r, "gone") /\ Set(r, "timeoutDelivered")
    /\ UNCHANGED <<attempts, driver, timer, signals, answer, stopping, calls, executed, struck>>

TimeoutRelease(r) ==
    /\ late[r] = "release" /\ HandleFree(r) /\ LateAt(r, "gone")
    /\ ReleaseStop(r) /\ Return(r, TRUE)
    /\ UNCHANGED <<place, attempt, control, driver, timer, stop, written, answer, stopping, calls, executed>>

\* Mutant: the callbacks keep each other, and the handle, alive.
DropNever(r) == FALSE /\ handle[r] # None /\ UNCHANGED vars

\* ~NativeQueryControl(): the last callback that knows the handle is gone.
Drop(r) ==
    /\ handle[r] # None /\ driver[r] = "gone" /\ late[r] = "gone" /\ timer[r] = "gone"
    /\ ReleaseStop(r) /\ Return(r, TRUE)
    /\ UNCHANGED <<place, attempt, native, stop, written, answer, stopping, calls, executed>>

-----------------------------------------------------------------------------
(* The stop of an operation.                                               *)

\* The deadline passes or the token is cancelled: status() is an error from now on.
StopBegins(r) ==
    /\ r \in Stoppable /\ stop[r] = "live" /\ stop' = [stop EXCEPT ![r] = "over"]
    /\ UNCHANGED <<attempts, native, bound, calling, cancels, written, answer, stopping, calls,
                   executed, struck>>

\* StopSignal::request(): it collects its subscribers.
StopRequest(r) ==
    /\ stop[r] = "over" /\ stop' = [stop EXCEPT ![r] = "told"]
    /\ calling' = [calling EXCEPT ![r] = {s \in {"caller", "driver"} :
                      IF s = "caller" THEN place[r] # "idle" ELSE bound[r] # None}]
    /\ UNCHANGED <<attempts, native, bound, cancels, written, answer, stopping, calls, executed, struck>>

\* It calls the caller's completion,
StopCaller(r) ==
    /\ "caller" \in calling[r] /\ calling' = [calling EXCEPT ![r] = @ \ {"caller"}]
    /\ Deliver(r, "error")
    /\ UNCHANGED <<attempts, native, bound, stop, cancels, written, stopping, calls, executed, struck>>

\* and posts a cancellation.
StopDriver(r) ==
    /\ "driver" \in calling[r] /\ calling' = [calling EXCEPT ![r] = @ \ {"driver"}]
    /\ cancels' = [cancels EXCEPT ![r] = TRUE]
    /\ UNCHANGED <<attempts, native, bound, stop, written, answer, stopping, calls, executed, struck>>

Running(r) == driver[r] = "running" \/ place[r] = "session"

\* A cancellation worker cancels the connection of an active binding; a driver ignores it
\* when no statement runs.
StopCancel(r) ==
    /\ cancels[r] /\ cancels' = [cancels EXCEPT ![r] = FALSE]
    /\ struck' = IF \E q \in Request : Running(q) /\ handle[q] = bound[r]
                 THEN struck \cup {bound[r]} ELSE struck
    /\ UNCHANGED <<attempts, native, bound, stop, calling, written, answer, stopping, calls, executed>>

Shutdown ==
    /\ ~stopping /\ stopping' = TRUE
    /\ UNCHANGED <<attempts, native, signals, answer, calls, executed, struck>>

-----------------------------------------------------------------------------
Attempt(r) ==
    \/ Retry(r) \/ StartRead(r) \/ StartWrite(r) \/ Refused(r) \/ Forgotten(r) \/ Granted(r)
    \/ Intercepted(r) \/ Bind(r) \/ StartNative(r) \/ Decline(r) \/ NotNative(r)
    \/ Fallback(r) \/ Session(r)
Database(r) == SessionEnd(r) \/ DriverDone(r)
Callback(r) ==
    \/ DriverResolve(r) \/ DeliverBack(r) \/ DeliverRead(r) \/ DeliverWrite(r)
    \/ DriverLate(r) \/ LateRelease(r)
Expiry(r) ==
    \/ Arm(r) \/ Fire(r) \/ PostTimeout(r) \/ Cancel(r) \/ TimeoutAnswer(r) \/ TimeoutStore(r)
    \/ TimeoutLoad(r) \/ TimeoutLoadEarly(r) \/ TimeoutStoreLate(r) \/ TimeoutRelease(r)
Signal(r) == StopRequest(r) \/ StopCaller(r) \/ StopDriver(r)

Next ==
    \/ \E r \in Request :
          \/ Submit(r) \/ Attempt(r) \/ Database(r) \/ Callback(r) \/ Expiry(r) \/ Drop(r)
          \/ StopBegins(r) \/ Signal(r) \/ StopCancel(r)
    \/ \E c \in Conn : Leave(c)
    \/ Shutdown

Spec == Init /\ [][Next]_vars

\* Whether the answer of the database is the only thing that ends the statement: not when
\* it is a native query with a timeout.
Unlimited(r) == place[r] = "session" \/ r \in Write \/ ~Timeout

\* Workers, the timer thread, callbacks and the deadline thread make progress, and the pool
\* ends every wait (WaitsEnd of ConnectionPool).  The database answers the statements that
\* nothing else ends.  Nobody has to submit, stop or shut down, and a cancellation may be
\* lost.
Fairness ==
    /\ \A r \in Request :
          /\ WF_vars(Attempt(r)) /\ WF_vars(Callback(r)) /\ WF_vars(Expiry(r))
          /\ WF_vars(Drop(r)) /\ WF_vars(Signal(r)) /\ WF_vars(Unlimited(r) /\ Database(r))
    /\ \A c \in Conn : WF_vars(Leave(c))

FairSpec == Spec /\ Fairness

-----------------------------------------------------------------------------
(* Properties.                                                             *)

\* Every variable has its type.
TypeOK ==
    /\ place \in [Request -> {"idle", "posted", "borrowing", "leased", "bound", "native",
                              "fallback", "checked", "session", "delayed", "dropped", "done"}]
    /\ attempt \in [Request -> 1 .. Attempts]
    /\ handle \in [Request -> Conn \cup {None}] /\ leaving \subseteq Conn
    /\ bound \in [Request -> Conn \cup {None}]
    /\ control \in [Request -> Flags]
    /\ driver \in [Request -> {"none", "running", "completed", "deliver", "returned", "overruled",
                               "late", "release", "gone"}]
    /\ timer \in [Request -> {"none", "unarmed", "armed", "won", "cancel", "gone"}]
    /\ late \in [Request -> {"none", "posted", "inline", "answered", "stored", "blind", "release", "gone"}]
    /\ stop \in [Request -> {"live", "over", "told"}]
    /\ calling \in [Request -> SUBSET {"caller", "driver"}]
    /\ cancels \in [Request -> BOOLEAN] /\ written \in [Request -> BOOLEAN]
    /\ answer \in [Request -> {"none", "ok", "error", "timeout", "stopped", "unknown"}]
    /\ stopping \in BOOLEAN
    /\ calls \in [Request -> Nat] /\ executed \in [Request -> Nat] /\ struck \subseteq Conn

\* The completion of a request is called once at most, whichever of the driver, the
\* timeout, the retry loop and the executor's shutdown come together.
CompletesOnce == \A r \in Request : calls[r] <= 1

\* Stated by docs/guide_en.md:1026 ("keeps the connection borrowed until the native
\* completion callback arrives"): while a statement runs, its request holds the connection,
\* and nobody else does.
BorrowedWhileRunning ==
    \A r \in Request : Running(r) =>
        /\ handle[r] # None /\ handle[r] \notin leaving
        /\ \A q \in Request \ {r} : handle[q] # handle[r]

\* Stated by tests/sqlconduit_operation_test.cpp:228 ("late cancellation cannot target
\* reused connection"): a stop can only cancel the connection its own request holds.
CancelsOwnConnection == \A r \in Request : bound[r] # None => bound[r] = handle[r]

\* A write that must not be repeated is given to the database once at most.
WriteNotRepeated == ~RetryWrites => \A r \in Write : executed[r] <= 1

\* A connection whose running statement a stop has cancelled is given back for reuse in
\* one case only: the statement had also timed out, and whichever of the driver's
\* callback, the timeout task and the end of the control block comes last releases the
\* connection behind the answer already given.
StoppedReuse ==
    [][\A r \in Request :
          handle[r] \in struck /\ handle'[r] = None /\ handle[r] \in struck'
            => late[r] # "none"]_vars

\* Every request that was submitted is answered, unless the pool drops its completion
\* (connection_pool.cpp:102, see WaiterAnswered of ConnectionPool): also when the executor
\* shuts down meanwhile, and, when it is a native query with a timeout, when the database
\* never answers.  (CHANGELOG.md:152: "Delayed continuations are now resumed during executor
\* shutdown and resolve their futures".)
Answered ==
    \A r \in Request : place[r] # "idle" ~> (answer[r] # "none" \/ place[r] = "dropped")

\* A connection comes back once its statement has ended.
ComesBack ==
    \A r \in Request : (handle[r] # None /\ ~Running(r)) ~> (handle[r] = None \/ Running(r))
===============================================================================
