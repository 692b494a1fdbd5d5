-------------------------- MODULE DataSourceGroup --------------------------
(* A data source group (core/database_manager.cpp, class DataSource with a  *)
(* primary_): routing of reads and writes over a primary, its replicas, the *)
(* failover candidates and a shadow source, the read-your-writes pins, the  *)
(* query cache in front of each source, and the write buffer of WriteBuffer.*)
(* The statements of executeGroup() and queryGroup() of async_engine.cpp    *)
(* take the same steps; where they differ the call is marked async.         *)
(*                                                                          *)
(* Circuits, pools and databases may refuse or fail at any time, so their   *)
(* state is not kept: each attempt may meet any answer (CircuitBreaker,     *)
(* ConnectionPool and AsyncQuery model where the answers come from).        *)
EXTENDS WriteBuffer

CONSTANTS
    Request,        \* callers; each runs a script of statements in one context
    Calls,          \* what they may do together
    Primary,        \* primary_
    Replicas,       \* replicas_, a sequence
    Failover,       \* failoverPrimaries_: empty, or the primary and its stand-ins
    Shadow,         \* shadow_
    Interceptors,   \* interceptors are enabled
    Fallback,       \* fallbackToPrimary_
    Window,         \* readAfterWrite_ > 0
    CacheOn,        \* queryCache.enabled()
    ReplicaOnly,    \* queryCache.replicaOnly()
    MaxAttempts,    \* retry_.max_attempts, at least 1
    RetryWrites     \* retry_.retry_writes

none == "none"

Statement == {"read", "write", "session", "transaction"}

\* A caller: its statements, whether its context has shadow set, whether it
\* uses the asynchronous engine, whether its write comes with a buffered task,
\* how many ContextScopes it has entered, and the idempotency they give.
Call == [script : Seq(Statement) \ {<<>>}, shadow : BOOLEAN, async : BOOLEAN,
         bufferable : BOOLEAN, depth : Nat,
         idempotency : {"Unspecified", "Idempotent", "NonIdempotent"}]

Source == {Primary, Shadow} \cup Range(Replicas) \cup Range(Failover)

\* What an attempt on a plain source answers.  PoolExhausted stands for
\* DriverDisabled too, Lost for a retryable or connection-breaking error of a
\* statement that was sent, Failed for any other.
Status == {"Ok", "CircuitOpen", "PoolExhausted", "PoolClosed",
           "ConnectionFailed", "Lost", "Failed"}

\* retryable or connectionBroken; borrowSession() sets both on ConnectionFailed.
Retryable == {"ConnectionFailed", "Lost"}

ASSUME GroupAssumption ==
    /\ Write = Request
    /\ none \notin Source
    /\ Calls \subseteq [Request -> Call]
    /\ Replicas \in Seq(Source) /\ Failover \in Seq(Source)
    /\ {Interceptors, Fallback, Window, CacheOn, ReplicaOnly, RetryWrites} \subseteq BOOLEAN
    /\ MaxAttempts \in Nat \ {0}

\* What resolveShadows() has checked.
ASSUME ShadowAssumption == Shadow # Primary /\ Shadow \notin Range(Replicas)

\* Each request writes at most once: its writes are told apart by their request.
ASSUME OneWriteEach ==
    \A k \in Calls, r \in Request : \A i, j \in DOMAIN k[r].script :
        k[r].script[i] # "read" /\ k[r].script[j] # "read" => i = j

VARIABLES
    call,       \* what each request does; never changes
    step,       \* the statement each request is at
    pc,         \* where in it the request is
    listed,     \* dispatchWrite(): the targets still to try, as positions
    attempt,    \* the attempt on the current target
    target,     \* queryUngated(): target
    answer,     \* the status of the last attempt, in the end of the statement
    rows,       \* out: the writes the last read has seen
    todo,       \* markWrite(): the sources whose cache is still to be purged
    pinned,     \* the scopes of each request that have wroteInThisRequest
    window,     \* the time since lastWriteNs_ is below readAfterWrite_
    cache,      \* the cached rows of each source for the one query: a set of at most one
    reply,      \* the flush thread: what the task it runs has come to
    data,       \* external: the writes each database holds
    runs,       \* history: executions of each write outside the buffer
    took        \* history: the source that acknowledged the write of a request

requestVars == <<call, step, pc, listed, attempt, target, answer, rows, todo, pinned>>
groupHistory == <<runs, took>>
groupVars == <<requestVars, window, cache, reply, data, groupHistory>>
vars == <<bufferVars, groupVars>>

Init ==
    /\ BufferInit
    /\ call \in Calls
    /\ step = [r \in Request |-> 1]
    /\ pc = [r \in Request |-> "ready"]
    /\ listed = [r \in Request |-> {}]
    /\ attempt = [r \in Request |-> 1]
    /\ target = [r \in Request |-> Primary]
    /\ answer = [r \in Request |-> none]
    /\ rows = [r \in Request |-> {}]
    /\ todo = [r \in Request |-> <<>>]
    /\ pinned = [r \in Request |-> {}]
    /\ window = FALSE
    /\ cache = [s \in Source |-> {}]
    /\ reply = none
    /\ data = [s \in Source |-> {}]
    /\ runs = [r \in Request |-> 0]
    /\ took = [r \in Request |-> none]

Script(r) == call[r].script
Kind(r) == Script(r)[step[r]]
Shadowed(r) == call[r].shadow

\* The statement of r ends with the answer st.
Return(r, st) ==
    /\ pc' = [pc EXCEPT ![r] = "done"]
    /\ answer' = [answer EXCEPT ![r] = st]

\* The caller goes on to its next statement; what the last one left is gone.
Continue(r) ==
    /\ pc[r] = "done"
    /\ IF step[r] < Len(Script(r))
       THEN /\ step' = [step EXCEPT ![r] = step[r] + 1]
            /\ pc' = [pc EXCEPT ![r] = "ready"]
       ELSE /\ pc' = [pc EXCEPT ![r] = "end"]
            /\ UNCHANGED step
    /\ listed' = [listed EXCEPT ![r] = {}]
    /\ attempt' = [attempt EXCEPT ![r] = 1]
    /\ target' = [target EXCEPT ![r] = Primary]
    /\ answer' = [answer EXCEPT ![r] = none]
    /\ rows' = [rows EXCEPT ![r] = {}]
    /\ UNCHANGED <<bufferVars, call, todo, pinned,
                   window, cache, reply, data, groupHistory>>

\* preGate() or gateSession(), an interceptor or the executor refuses it.
Reject(r) ==
    /\ pc[r] = "ready"
    /\ Return(r, "Rejected")
    /\ UNCHANGED <<bufferVars, call, step, listed, attempt, target, rows, todo, pinned,
                   window, cache, reply, data, groupHistory>>

----------------------------------------------------------------------------
(* Writes: executeUngated() of a group, dispatchWrite(), executeGroup().    *)

\* The sources a write may go to, in order; sessions only know the primary.
Candidates(r) ==
    IF Kind(r) # "write" THEN <<Primary>>
    ELSE IF Shadowed(r) THEN <<Shadow>>
    ELSE IF Failover = <<>> THEN <<Primary>> ELSE Failover

\* writeTargets() leaves out candidates with an open circuit or, if
\* requireHealthy_, without a pool; a single target is never left out.
WriteTargets(r) ==
    IF Kind(r) = "write" /\ ~Shadowed(r) /\ Failover # <<>>
    THEN SUBSET DOMAIN Failover
    ELSE {{1}}

RouteWrite(r) ==
    /\ pc[r] = "ready" /\ Kind(r) # "read"
    /\ \E chosen \in WriteTargets(r) :
         /\ listed' = [listed EXCEPT ![r] = chosen]
         /\ pc' = [pc EXCEPT ![r] = IF chosen = {} THEN "buffer" ELSE "attempt"]
    /\ answer' = [answer EXCEPT ![r] = "CircuitOpen"]
    /\ attempt' = [attempt EXCEPT ![r] = 1]
    /\ UNCHANGED <<bufferVars, call, step, target, rows, todo, pinned,
                   window, cache, reply, data, groupHistory>>

\* The position of the target that is tried now.
Current(r) == {i \in listed[r] : \A j \in listed[r] : i <= j}

\* The database of s executes the write of r.
Executes(r, s) ==
    /\ data' = [data EXCEPT ![s] = data[s] \cup {r}]
    /\ runs' = [runs EXCEPT ![r] = runs[r] + 1]

NotExecuted == UNCHANGED <<data, runs>>

\* What a failed attempt may have done: only a statement that was sent can
\* have been executed.
FailsWith(r, s, st) ==
    \/ st \in {"Lost", "Failed"} /\ Executes(r, s)
    \/ NotExecuted

\* resolveWriteAttempts() in a context with the given idempotency.
ResolveWriteAttempts(idempotency) ==
    IF \/ idempotency = "NonIdempotent"
       \/ idempotency = "Unspecified" /\ ~RetryWrites
    THEN 1 ELSE MaxAttempts

WriteAttempts(r) == ResolveWriteAttempts(call[r].idempotency)

\* One attempt on a plain source that succeeds.
WriteOk(r) ==
    /\ pc[r] = "attempt" /\ Kind(r) = "write"
    /\ \E i \in Current(r) :
         /\ Executes(r, Candidates(r)[i])
         /\ took' = [took EXCEPT ![r] = Candidates(r)[i]]
    /\ pc' = [pc EXCEPT ![r] = "mark"]
    /\ answer' = [answer EXCEPT ![r] = "Ok"]
    /\ UNCHANGED <<bufferVars, call, step, listed, attempt, target, rows, todo, pinned,
                   window, cache, reply>>

\* A retryable failure with attempts left: the next one follows.
WriteRetry(r) ==
    /\ pc[r] = "attempt" /\ Kind(r) = "write"
    /\ attempt[r] < WriteAttempts(r)
    /\ \E i \in Current(r), st \in Retryable : FailsWith(r, Candidates(r)[i], st)
    /\ attempt' = [attempt EXCEPT ![r] = attempt[r] + 1]
    /\ UNCHANGED <<bufferVars, call, step, pc, listed, target, answer, rows, todo, pinned,
                   window, cache, reply, took>>

\* safeToFailoverWrite(): the answers that prove the write was not started.
SafeToFailoverWrite(st) == st \in {"CircuitOpen", "PoolExhausted", "PoolClosed"}

\* Mutant: a failed shadow write goes on to the buffer.
FailsOverAlways(r, st) == SafeToFailoverWrite(st)

\* Mutant: a broken connection counts as a write that was not started.
FailsOverBroken(r, st) ==
    ~Shadowed(r) /\ (SafeToFailoverWrite(st) \/ st \in Retryable)

\* A shadow write ends with its failure, and so does one that may have run.
FailsOver(r, st) == ~Shadowed(r) /\ SafeToFailoverWrite(st)

\* The last attempt on the target fails.
WriteFails(r) ==
    /\ pc[r] = "attempt" /\ Kind(r) = "write"
    /\ \E i \in Current(r), st \in Status \ {"Ok"} :
         /\ st = "ConnectionFailed" => attempt[r] = WriteAttempts(r)
         /\ FailsWith(r, Candidates(r)[i], st)
         /\ answer' = [answer EXCEPT ![r] = st]
         /\ LET rest == listed[r] \ {i}
            IN  IF FailsOver(r, st)
                THEN /\ listed' = [listed EXCEPT ![r] = rest]
                     /\ attempt' = [attempt EXCEPT ![r] = 1]
                     /\ pc' = [pc EXCEPT ![r] = IF rest = {} THEN "buffer" ELSE "attempt"]
                ELSE /\ pc' = [pc EXCEPT ![r] = "done"]
                     /\ UNCHANGED <<listed, attempt>>
    /\ UNCHANGED <<bufferVars, call, step, target, rows, todo, pinned,
                   window, cache, reply, took>>

\* executeGroup() or queryGroup(): the pool of the target is gone before the
\* leaf has started.  The statement ends, whatever targets are left.
NotStarted(r) ==
    /\ pc[r] \in {"attempt", "lookup"} /\ call[r].async
    /\ Kind(r) \in {"read", "write"}
    /\ Return(r, "PoolClosed")
    /\ UNCHANGED <<bufferVars, call, step, listed, attempt, target, rows, todo, pinned,
                   window, cache, reply, data, groupHistory>>

\* No target is left: the write buffer takes the write, or the last failure
\* is the answer.
Buffer(r) ==
    /\ pc[r] = "buffer"
    /\ \/ /\ call[r].bufferable /\ Enqueue(r)
          /\ Return(r, "Buffered")
       \/ /\ ~call[r].bufferable \/ ~Accepts
          /\ Return(r, answer[r])
          /\ UNCHANGED bufferVars
    /\ UNCHANGED <<call, step, listed, attempt, target, rows, todo, pinned,
                   window, cache, reply, data, groupHistory>>

----------------------------------------------------------------------------
(* Sessions and transactions of a group run on its primary.                 *)

SessionRefused(r) ==
    /\ pc[r] = "attempt" /\ Kind(r) \in {"session", "transaction"}
    /\ \E st \in Status \ {"Ok", "Lost"} : Return(r, st)
    /\ UNCHANGED <<bufferVars, call, step, listed, attempt, target, rows, todo, pinned,
                   window, cache, reply, data, groupHistory>>

\* The callback has run and didWrite(): the writer is marked.  A statement of
\* a session stays executed when the callback fails later.  A transaction is
\* rolled back then, and marked only if that fails too; a commit without an
\* answer may be done.
SessionWrote(r) ==
    /\ pc[r] = "attempt" /\ Kind(r) \in {"session", "transaction"}
    /\ \E st \in {"Ok", "Failed", "Lost"} :
         /\ \/ Kind(r) = "session" /\ Executes(r, Primary)
            \/ Kind(r) = "transaction" /\ st # "Failed" /\ Executes(r, Primary)
            \/ Kind(r) = "transaction" /\ st # "Ok" /\ NotExecuted
         /\ answer' = [answer EXCEPT ![r] = st]
         /\ took' = IF st = "Ok" THEN [took EXCEPT ![r] = Primary] ELSE took
    /\ pc' = [pc EXCEPT ![r] = "mark"]
    /\ UNCHANGED <<bufferVars, call, step, listed, attempt, target, rows, todo, pinned,
                   window, cache, reply>>

\* It has not written, as far as the library knows.  A transaction that is not
\* read-only opens the window all the same when it commits.
SessionRead(r) ==
    /\ pc[r] = "attempt" /\ Kind(r) \in {"session", "transaction"}
    /\ \E st \in {"Ok", "Failed", "Lost"} :
         /\ \/ (Kind(r) = "session" \/ st = "Lost") /\ Executes(r, Primary)
            \/ NotExecuted
         /\ answer' = [answer EXCEPT ![r] = st]
         /\ \/ pc' = [pc EXCEPT ![r] = "done"]
            \/ /\ Kind(r) = "transaction" /\ st = "Ok"
               /\ pc' = [pc EXCEPT ![r] = "window"]
    /\ UNCHANGED <<bufferVars, call, step, listed, attempt, target, rows, todo, pinned,
                   window, cache, reply, took>>

----------------------------------------------------------------------------
(* markWrite(), first of the plain source that took the write, then of the  *)
(* group.                                                                   *)

\* The frame runWithInterceptors() has pushed on the request's scopes.
InnerFrames(r) == IF Interceptors /\ Kind(r) = "write" THEN 1 ELSE 0

\* Mutant: the innermost frame is pinned, which may be the interceptors' own.
PinnedInner(r) == {call[r].depth + InnerFrames(r)} \cap 1 .. call[r].depth

\* pinRequestWrite(): the last but one frame, or the only one; a frame that is
\* popped with the statement keeps nothing, and neither does a worker thread.
PinnedFrame(r) ==
    LET size == call[r].depth + InnerFrames(r)
    IN  IF call[r].async THEN {}
        ELSE IF size >= 2 THEN {size - 1}
        ELSE {1} \cap 1 .. call[r].depth

LeafOf(r) == {Candidates(r)[i] : i \in Current(r)}

Mark(r) ==
    /\ pc[r] = "mark"
    /\ \E s \in LeafOf(r) : cache' = [cache EXCEPT ![s] = {}]
    /\ pinned' = [pinned EXCEPT ![r] = pinned[r] \cup PinnedFrame(r)]
    /\ pc' = [pc EXCEPT ![r] =
                IF \/ Kind(r) = "write" /\ Shadowed(r)
                   \/ Kind(r) = "transaction" /\ answer[r] # "Ok"
                THEN "done" ELSE "window"]
    /\ UNCHANGED <<bufferVars, call, step, listed, attempt, target, answer, rows, todo,
                   window, reply, data, groupHistory>>

OpenWindow(r) ==
    /\ pc[r] = "window"
    /\ window' = Window
    /\ todo' = [todo EXCEPT ![r] = <<Primary>> \o Replicas \o Failover]
    /\ pc' = [pc EXCEPT ![r] = "purge"]
    /\ UNCHANGED <<bufferVars, call, step, listed, attempt, target, answer, rows, pinned,
                   cache, reply, data, groupHistory>>

\* queryCache.invalidate() of one source.
Purge(r) ==
    /\ pc[r] = "purge" /\ todo[r] # <<>>
    /\ cache' = [cache EXCEPT ![Head(todo[r])] = {}]
    /\ todo' = [todo EXCEPT ![r] = Tail(todo[r])]
    /\ pc' = [pc EXCEPT ![r] = IF Len(todo[r]) = 1 THEN "done" ELSE "purge"]
    /\ UNCHANGED <<bufferVars, call, step, listed, attempt, target, answer, rows, pinned,
                   window, reply, data, groupHistory>>

----------------------------------------------------------------------------
(* Reads: queryUngated() of a group and of a plain source, queryGroup().    *)

TopPinned(r) == call[r].depth \in pinned[r]

\* readTarget(): a replica whose circuit is closed, the primary if there is none.
ReadTargets(r) ==
    IF Shadowed(r) THEN {Shadow}
    ELSE IF TopPinned(r) \/ window THEN {Primary}
    ELSE Range(Replicas) \cup {Primary}

RouteRead(r) ==
    /\ pc[r] = "ready" /\ Kind(r) = "read"
    /\ \E s \in ReadTargets(r) : target' = [target EXCEPT ![r] = s]
    /\ attempt' = [attempt EXCEPT ![r] = 1]
    /\ pc' = [pc EXCEPT ![r] = "lookup"]
    /\ UNCHANGED <<bufferVars, call, step, listed, answer, rows, todo, pinned,
                   window, cache, reply, data, groupHistory>>

Caching(r) ==
    /\ CacheOn /\ ~Shadowed(r)
    /\ ReplicaOnly => target[r] \in Range(Replicas)

\* queryCache.get(): a hit is the answer, a miss is fetched.
Lookup(r) ==
    /\ pc[r] = "lookup"
    /\ IF Caching(r) /\ cache[target[r]] # {}
       THEN Return(r, "Ok") /\ \E hit \in cache[target[r]] : rows' = [rows EXCEPT ![r] = hit]
       ELSE pc' = [pc EXCEPT ![r] = "fetch"] /\ UNCHANGED <<answer, rows>>
    /\ UNCHANGED <<bufferVars, call, step, listed, attempt, target, todo, pinned,
                   window, cache, reply, data, groupHistory>>

FetchOk(r) ==
    /\ pc[r] = "fetch"
    /\ rows' = [rows EXCEPT ![r] = data[target[r]]]
    /\ answer' = [answer EXCEPT ![r] = "Ok"]
    /\ pc' = [pc EXCEPT ![r] = IF Caching(r) THEN "fill" ELSE "done"]
    /\ UNCHANGED <<bufferVars, call, step, listed, attempt, target, todo, pinned,
                   window, cache, reply, data, groupHistory>>

\* A retryable failure with attempts left.  queryOne() begins with the cache
\* again, the loop of queryUngated() does not.
FetchRetry(r) ==
    /\ pc[r] = "fetch" /\ attempt[r] < MaxAttempts
    /\ attempt' = [attempt EXCEPT ![r] = attempt[r] + 1]
    /\ pc' = [pc EXCEPT ![r] = IF call[r].async THEN "lookup" ELSE "fetch"]
    /\ UNCHANGED <<bufferVars, call, step, listed, target, answer, rows, todo, pinned,
                   window, cache, reply, data, groupHistory>>

\* The last attempt fails; another source than the primary is fallen back from,
\* unless the time of an asynchronous query is up.
FetchFails(r) ==
    /\ pc[r] = "fetch"
    /\ \E st \in Status \ {"Ok"} :
         /\ st = "ConnectionFailed" => attempt[r] = MaxAttempts
         /\ LET falls == /\ target[r] # Primary /\ Fallback
                         /\ st \in Retryable \cup {"CircuitOpen"}
            IN  \/ /\ falls
                   /\ target' = [target EXCEPT ![r] = Primary]
                   /\ attempt' = [attempt EXCEPT ![r] = 1]
                   /\ pc' = [pc EXCEPT ![r] = "lookup"]
                   /\ UNCHANGED answer
                \/ /\ ~falls \/ call[r].async
                   /\ Return(r, st)
                   /\ UNCHANGED <<target, attempt>>
    /\ UNCHANGED <<bufferVars, call, step, listed, rows, todo, pinned,
                   window, cache, reply, data, groupHistory>>

\* queryCache.put().
Fill(r) ==
    /\ pc[r] = "fill"
    /\ cache' = [cache EXCEPT ![target[r]] = {rows[r]}]
    /\ pc' = [pc EXCEPT ![r] = "done"]
    /\ UNCHANGED <<bufferVars, call, step, listed, attempt, target, answer, rows, todo, pinned,
                   window, reply, data, groupHistory>>

----------------------------------------------------------------------------
(* The flush thread: a buffered task is executeUngated() of the primary.    *)

\* The attempts of the task are over; an earlier one may have executed it.  The
\* thread has no context, so the idempotency of the caller is not known here.
ReplayRuns ==
    /\ flusher = "flush" /\ batch # <<>> /\ reply = none
    /\ \E st \in Status :
         /\ reply' = st
         /\ \/ /\ st \in {"Ok", "Lost", "Failed"} \/ ResolveWriteAttempts("Unspecified") > 1
               /\ data' = [data EXCEPT ![Primary] = data[Primary] \cup {Head(batch)}]
            \/ st # "Ok" /\ UNCHANGED data
    /\ UNCHANGED <<bufferVars, requestVars, window, cache, groupHistory>>

AnswerOf(st) ==
    IF st = "Ok" THEN "ok"
    ELSE IF st \in Retryable THEN "again"
    ELSE IF SafeToFailoverWrite(st) THEN "unsent" ELSE "failed"

\* markWrite() of the primary alone, and what run() does with the answer.
ReplayEnds ==
    /\ reply # none
    /\ Replay(AnswerOf(reply))
    /\ cache' = IF reply = "Ok" THEN [cache EXCEPT ![Primary] = {}] ELSE cache
    /\ reply' = none
    /\ UNCHANGED <<requestVars, window, data, runs, took>>

FlushThread ==
    \/ ReplayRuns
    \/ ReplayEnds
    \/ reply = none /\ Housekeeping /\ UNCHANGED groupVars

\* The manager starts and stops the buffer; a group without one (writeBuffer_
\* is null or not enabled) hands no task to any write.
Manager ==
    /\ \E r \in Request : call[r].bufferable
    /\ Life
    /\ UNCHANGED groupVars

----------------------------------------------------------------------------
(* The rest of the world.                                                   *)

\* A replica or stand-in catches up with a database it follows.
Replicate ==
    /\ \E s \in Source \ {Shadow, Primary},
          from \in ({Primary} \cup Range(Failover)) \ {Shadow} :
         data' = [data EXCEPT ![s] = data[s] \cup data[from]]
    /\ UNCHANGED <<bufferVars, requestVars, window, cache, reply, groupHistory>>

\* readAfterWrite_ has passed since the last write.
WindowEnds ==
    /\ window
    /\ window' = FALSE
    /\ UNCHANGED <<bufferVars, requestVars, cache, reply, data, groupHistory>>

\* A cache entry expires or is evicted.
Evict ==
    /\ \E s \in Source : cache[s] # {} /\ cache' = [cache EXCEPT ![s] = {}]
    /\ UNCHANGED <<bufferVars, requestVars, window, reply, data, groupHistory>>

Serve(r) ==
    \/ Continue(r) \/ Reject(r)
    \/ RouteWrite(r) \/ WriteOk(r) \/ WriteRetry(r) \/ WriteFails(r)
    \/ NotStarted(r) \/ Buffer(r)
    \/ SessionRefused(r) \/ SessionWrote(r) \/ SessionRead(r)
    \/ Mark(r) \/ OpenWindow(r) \/ Purge(r)
    \/ RouteRead(r) \/ Lookup(r) \/ FetchOk(r) \/ FetchRetry(r) \/ FetchFails(r) \/ Fill(r)

Next ==
    \/ \E r \in Request : Serve(r)
    \/ FlushThread \/ Manager
    \/ Replicate \/ WindowEnds \/ Evict

Spec == Init /\ [][Next]_vars

----------------------------------------------------------------------------
(* Properties.                                                              *)

\* The ranges of the group's state.
GroupTypeOK ==
    /\ BufferTypeOK
    /\ call \in [Request -> Call]
    /\ step \in [Request -> Nat \ {0}]
    /\ pc \in [Request -> {"ready", "attempt", "buffer", "mark", "window", "purge",
                           "lookup", "fetch", "fill", "done", "end"}]
    /\ listed \in [Request -> SUBSET (Nat \ {0})]
    /\ attempt \in [Request -> Nat \ {0}]
    /\ target \in [Request -> Source]
    /\ answer \in [Request -> Status \cup {none, "Rejected", "Buffered"}]
    /\ rows \in [Request -> SUBSET Request]
    /\ todo \in [Request -> Seq(Source)]
    /\ pinned \in [Request -> SUBSET Nat]
    /\ window \in BOOLEAN
    /\ cache \in [Source -> SUBSET SUBSET Request]
    /\ reply \in Status \cup {none}
    /\ data \in [Source -> SUBSET Request]
    /\ runs \in [Request -> Nat]
    /\ took \in [Request -> Source \cup {none}]

\* Failing over and buffering never repeat a write: unless its context or the
\* configuration asks for retries, a write is executed at most once over all
\* candidates, and not at all before it is put into the buffer.
WrittenOnce ==
    \A r \in Request : WriteAttempts(r) = 1 =>
        runs[r] <= 1 /\ (fate[r] # "none" => runs[r] = 0)

OnlyWrites(r) == \A i \in DOMAIN Script(r) : Script(r)[i] \in {"read", "write"}

\* Writes in a shadow context reach the shadow source only: not the primary, a
\* replica or a stand-in, and not the buffer, whose replay would write them to
\* the primary.  (Sessions and transactions always use the primary.)
ShadowWritesIsolated ==
    \A r \in Request : Shadowed(r) /\ OnlyWrites(r) =>
        /\ \A s \in Source \ {Shadow} : r \notin data[s]
        /\ fate[r] = "none"

\* No source that reads may be pinned to is cached.
PrimaryUncached == CacheOn => ReplicaOnly /\ Primary \notin Range(Replicas)

\* A request sees its own write: once the primary has acknowledged it, a
\* synchronous read in the same, only, context scope returns rows with it,
\* whether or not the replicas have caught up.  The scope is pinned to the
\* primary, whose rows must not come out of a cache.
ReadYourWrites ==
    PrimaryUncached =>
        \A r \in Request :
            /\ pc[r] = "done" /\ Kind(r) = "read" /\ answer[r] = "Ok"
            /\ took[r] = Primary /\ call[r].depth = 1
            /\ ~call[r].async /\ ~Shadowed(r)
            => r \in rows[r]

=============================================================================
