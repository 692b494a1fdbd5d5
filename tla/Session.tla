-------------------------------- MODULE Session --------------------------------
(***************************************************************************)
(* What a data source does with one pooled connection (database_manager.cpp,*)
(* with the four drivers): withSession(), transaction() with its deadline   *)
(* watcher, a cursor that owns its connection, and the asynchronous         *)
(* engine's native statement; between two of them the connection is idle in *)
(* the pool, or closed and replaced when it was invalidated.                *)
(***************************************************************************)
EXTENDS MySqlDriver, PostgresDriver, OdbcDriver, OracleDriver

CONSTANTS
    Drivers,        \* the drivers to consider
    Ops,            \* the Session functions a callback may use
    CacheLimit,     \* prepared_cache.max_per_connection (0: no limit)
    MaxOps,         \* bound: functions one callback calls
    MaxLeases       \* bound: how often the connection is borrowed

VARIABLES
    ses,            \* the borrower: its kind, where it is, and Session's fields
    used            \* [leases, writes]: what the bounds count

vars == <<connVars, ses, used>>

ASSUME BoundsAssumption ==
    /\ MaxWrites \in Nat /\ BatchRows \in Nat \ {0} /\ MaxOps \in Nat /\ MaxLeases \in Nat
    /\ CacheLimit \in Nat /\ Keys \subseteq Nat \ {0} /\ IsFiniteSet(Keys)
    /\ Drivers \subseteq {"mysql", "postgres", "odbc", "oracle"}

(* at: where the borrower is; tx: txOpen_; bad: the handle was invalidated; *)
(* late: timedOut; path: the bound call that the prepared path stands for   *)
(* (0 none, 1 query, 2 execute); held: the handles of prepare(); own: the   *)
(* callback itself ended a transaction or went back to a savepoint;         *)
(* tried and done: the writing calls made, and those that answered "ok";    *)
(* res: what transaction() returns; kill: cancel() was called.              *)
Pooled == [kind |-> "none", at |-> "pooled", tx |-> FALSE, bad |-> FALSE, late |-> FALSE,
           kill |-> FALSE, ops |-> 0, path |-> 0, held |-> {}, own |-> FALSE, tried |-> {},
           done |-> {}, res |-> "ok"]

Writing == {"execute", "executeKeys", "executeBound", "batch", "call"}
Either == {"run", "native"}

(* The owner makes a call: it is numbered when it may write. *)
Calls(op, arg) ==
    /\ call = NoCall
    /\ \E n \in {0, used.writes + 1} :
        /\ op \in Writing => n # 0
        /\ op \notin Writing \cup Either => n = 0
        /\ n <= MaxWrites
        /\ call' = [NoCall EXCEPT !.op = op, !.at = "start", !.arg = arg, !.n = n]
        /\ used' = IF n = 0 THEN used ELSE [used EXCEPT !.writes = n]
    /\ UNCHANGED <<drv, conn, killer, prep, cur, nat, sess, db>>

Returns(op) == call.op = op /\ call.at = "returned"
Hangup == call' = NoCall /\ UNCHANGED <<drv, conn, killer, prep, cur, nat, sess, db, used>>

Init ==
    /\ drv \in Drivers
    /\ conn = [NewConnection EXCEPT !.open = FALSE]
    /\ call = NoCall
    /\ killer = "idle"
    /\ prep = NoPrep
    /\ cur = NoCursor
    /\ nat = NoNative
    /\ sess = Drops(NewSession)
    /\ db = {}
    /\ ses = [Pooled EXCEPT !.at = "connect"]
    /\ used = [leases |-> 0, writes |-> 0]

(***************************************************************************)
(* The pool's side.                                                        *)
(***************************************************************************)
PoolCreates ==
    \/ ses.at = "connect" /\ Calls("connect", 0) /\ UNCHANGED ses
    \/ /\ ses.at = "connect" /\ Returns("connect") /\ Hangup
       /\ ses' = IF call.st = "ok" THEN Pooled ELSE [ses EXCEPT !.at = "gone"]

\* the validation of an idle connection: one that does not answer is replaced
PoolValidates ==
    \/ /\ ses.at = "pooled" /\ conn.open /\ used.leases < MaxLeases
       /\ Calls("ping", 0)
       /\ ses' = [ses EXCEPT !.at = "check"]
    \/ /\ ses.at = "check" /\ Returns("ping") /\ Hangup
       /\ ses' = [ses EXCEPT !.at = IF call.st = "ok" THEN "checked" ELSE "close"]

\* borrowSession() and the engine's borrow: every borrower sets the limit of the statement
\* cache before it uses the connection
Lease(kind) ==
    /\ ses.at \in {"pooled", "checked"}
    /\ conn.open
    /\ used.leases < MaxLeases
    /\ used' = [used EXCEPT !.leases = @ + 1]
    /\ ses' = [Pooled EXCEPT !.kind = kind, !.at = "limit"]
    /\ UNCHANGED connVars

LimitsCache ==
    \/ ses.at = "limit" /\ Calls("limit", CacheLimit) /\ UNCHANGED ses
    \/ /\ ses.at = "limit" /\ Returns("limit") /\ Hangup
       /\ ses' = [ses EXCEPT !.at = IF ses.kind = "transaction" THEN "begin" ELSE "body"]

\* the handle goes back: an invalidated connection is closed and another one opened
HandleReturns ==
    /\ ses.at = "leave"
    /\ killer = "idle"
    /\ ses' = IF ses.bad THEN [Pooled EXCEPT !.at = "close"] ELSE Pooled
    /\ UNCHANGED <<connVars, used>>

PoolCloses ==
    \/ ses.at = "close" /\ Calls("close", 0) /\ UNCHANGED ses
    \/ ses.at = "close" /\ Returns("close") /\ Hangup /\ ses' = [ses EXCEPT !.at = "connect"]

(***************************************************************************)
(* Session: one function of it called by the callback, and what it makes   *)
(* of the answer.                                                          *)
(***************************************************************************)
\* what the bound counts: a function called, but not the prepare() of a text not yet held,
\* which only a callback of withSession() makes before anything else
Prepares(k) ==
    /\ ses.kind = "session" /\ ses.ops = 0
    /\ k \notin {h[2] : h \in ses.held}
    /\ UNCHANGED ses
Open(k) == ses' = [ses EXCEPT !.ops = @ + 1, !.path = k]

InBody == ses.at = "body" /\ ses.kind \in {"session", "transaction"} /\ ses.ops < MaxOps

OneOf(ops) == InBody /\ \E op \in Ops \cap ops : Calls(op, 0) /\ Open(0)

SessionQuery == OneOf({"query", "queryBound", "queryAll"})
SessionExecute == OneOf({"execute", "executeBound"})
SessionExecuteKeys == OneOf({"executeKeys"})
SessionQueryEach == OneOf({"stream"})
SessionExecuteBatch == OneOf({"batch"})
SessionCallProcedure == drv = "oracle" /\ OneOf({"call"})
SessionTx == OneOf({"begin", "commit", "rollback"})
SessionSavepoint == OneOf({"savepoint", "release", "rollbackTo"})

\* the parameterised forms go through prepare() when the driver supports it
SessionBound ==
    /\ InBody
    /\ \E k \in Keys : \/ "queryBound" \in Ops /\ Calls("prepare", k) /\ Open(1)
                       \/ "executeBound" \in Ops /\ Calls("prepare", k) /\ Open(2)

SessionPrepare == InBody /\ "prepare" \in Ops /\ \E k \in Keys : Calls("prepare", k) /\ Prepares(k)

SessionRun == InBody /\ "run" \in Ops /\ \E h \in ses.held : Calls("run", h[1]) /\ Open(0)

SessionOpenCursor ==
    /\ InBody /\ "cursor" \in Ops /\ cur.at = "none"
    /\ \E own \in {0, 1} : Calls("cursor", own) /\ Open(0)

SessionCursor ==
    /\ ses.at = "body" /\ ses.kind \in {"session", "transaction"} /\ cur.at # "none"
    /\ \/ InBody /\ Calls("fetch", 0) /\ Open(0)
       \/ Calls("closeCursor", 0) /\ UNCHANGED ses

\* openCursor(), the cursor's own functions and prepare() do not look at connectionBroken
Unwatched == {"cursor", "fetch", "closeCursor", "prepare"}

\* the callback's call returned
SessionReturn ==
    /\ ses.at = "body"
    /\ ses.kind \in {"session", "transaction"}
    /\ call.at = "returned"
    /\ ses.path = 0 \/ call.op # "prepare"
    /\ LET ok == call.st = "ok"
           ends == call.op \in {"commit", "rollback"}
       IN  ses' = [ses EXCEPT
              !.bad  = @ \/ (call.st = "lost" /\ call.op \notin Unwatched),
              !.tx   = IF call.op = "begin" THEN @ \/ ok ELSE @ /\ ~ends,
              !.own  = @ \/ ends \/ call.op \in {"rollbackTo", "begin"},
              !.held = IF call.op = "prepare" /\ ok
                       THEN @ \cup {<<prep.id[call.arg], call.arg>>} ELSE @,
              !.tried = IF call.n # 0 THEN @ \cup {call.n} ELSE @,
              !.done = IF ok /\ call.n # 0
                       THEN @ \cup (IF call.op = "batch" THEN Rows(call.n, BatchRows) ELSE One(call.n))
                       ELSE @]
    /\ Hangup

\* runPreparedQuery() and runPreparedExec(): the prepared statement runs, or, if it could
\* not be prepared, the bound form does
RunPrepared ==
    /\ ses.at = "body"
    /\ ses.path # 0
    /\ Returns("prepare")
    /\ LET ok == call.st = "ok"
           n  == IF ses.path = 2 THEN used.writes + 1 ELSE 0
       IN  /\ n <= MaxWrites
           /\ call' = [NoCall EXCEPT !.at = "start", !.n = n, !.arg = IF ok THEN prep.id[call.arg] ELSE 0,
                                     !.op = IF ok THEN "run"
                                            ELSE IF ses.path = 1 THEN "queryBound" ELSE "executeBound"]
           /\ used' = IF n = 0 THEN used ELSE [used EXCEPT !.writes = n]
    /\ ses' = [ses EXCEPT !.path = 0]
    /\ UNCHANGED <<drv, conn, killer, prep, cur, nat, sess, db>>

\* Mutant: the destructor does not look at txOpen_.
SessionEndsAsIs ==
    /\ ses.at = "body" /\ ses.kind = "session" /\ call = NoCall /\ cur.at = "none"
    /\ ses' = [ses EXCEPT !.at = "leave"]
    /\ UNCHANGED <<connVars, used>>

\* withSession() and ~Session: a transaction the callback left open is rolled back, and a
\* failed rollback invalidates the handle
SessionEnds ==
    \/ /\ ses.at = "body" /\ ses.kind = "session" /\ call = NoCall /\ cur.at = "none"
       /\ ses' = [ses EXCEPT !.at = IF ses.tx THEN "cleanup" ELSE "leave"]
       /\ UNCHANGED <<connVars, used>>
    \/ ses.at = "cleanup" /\ Calls("rollback", 0) /\ UNCHANGED ses
    \/ /\ ses.at = "cleanup" /\ Returns("rollback") /\ Hangup
       /\ ses' = [ses EXCEPT !.at = "leave", !.tx = FALSE, !.bad = @ \/ call.st # "ok"]

(***************************************************************************)
(* transactionWithHandle().                                                *)
(***************************************************************************)
TxBegin ==
    \/ ses.at = "begin" /\ Calls("begin", 0) /\ UNCHANGED ses
    \/ /\ ses.at = "begin" /\ Returns("begin") /\ Hangup
       /\ ses' = [ses EXCEPT !.at = IF call.st = "ok" THEN "body" ELSE "leave", !.tx = call.st = "ok",
                             !.bad = call.st = "lost", !.res = call.st]

\* the deadline passes while the callback runs: the watcher cancels
TxDeadline ==
    /\ ses.kind = "transaction" /\ ses.at = "body"
    /\ ~ses.late /\ ~ses.kill
    /\ killer = "idle"
    /\ ses' = [ses EXCEPT !.late = TRUE, !.kill = TRUE]
    /\ killer' = "look"
    /\ UNCHANGED <<drv, conn, call, prep, cur, nat, sess, db, used>>

\* the callback returned (or threw); the watcher has been joined before the transaction is
\* ended, and a deadline that passed turns success into QueryTimeout
TxBodyEnds ==
    /\ ses.kind = "transaction" /\ ses.at = "body" /\ call = NoCall /\ cur.at = "none"
    /\ killer = "idle"
    /\ \E ok, passed \in BOOLEAN :
        ses' = [ses EXCEPT !.res = IF ok /\ ~ses.late /\ ~passed THEN "ok" ELSE "err",
                           !.at = IF ok /\ ~ses.late /\ ~passed
                                  THEN IF ses.tx THEN "save" ELSE "leave" ELSE "undo"]
    /\ UNCHANGED <<connVars, used>>

\* Mutant: the status of commit() is dropped.
TxEndsUnchecked ==
    \/ ses.at = "undo" /\ Calls("rollback", 0) /\ UNCHANGED ses
    \/ ses.at = "save" /\ Calls("commit", 0) /\ UNCHANGED ses
    \/ /\ ses.at \in {"undo", "save"} /\ call.at = "returned" /\ Hangup
       /\ ses' = [ses EXCEPT !.at = "leave", !.tx = FALSE, !.bad = @ \/ call.st = "lost"]

\* a rollback that fails is logged, the handle is given back as it is; so is a commit's
TxEnds ==
    \/ ses.at = "undo" /\ Calls("rollback", 0) /\ UNCHANGED ses
    \/ ses.at = "save" /\ Calls("commit", 0) /\ UNCHANGED ses
    \/ /\ ses.at \in {"undo", "save"} /\ call.at = "returned" /\ Hangup
       /\ ses' = [ses EXCEPT !.at = "leave", !.tx = FALSE, !.bad = @ \/ call.st = "lost",
                             !.res = IF ses.at = "save" THEN call.st ELSE @]

(***************************************************************************)
(* A cursor that owns its handle (openCursorUngated, Cursor): the handle   *)
(* goes back with the cursor, never invalidated.                           *)
(***************************************************************************)
CursorCall ==
    /\ ses.kind = "cursor" /\ ses.at = "body"
    /\ \/ \E own \in {0, 1} : ses.ops = 0 /\ Calls("cursor", own) /\ Open(0)
       \/ cur.at # "none" /\ ses.ops <= MaxOps /\ Calls("fetch", 0) /\ Open(0)
       \/ cur.at # "none" /\ Calls("closeCursor", 0) /\ UNCHANGED ses

CursorEnds ==
    /\ ses.kind = "cursor" /\ ses.at = "body" /\ call.at = "returned" /\ Hangup
    /\ ses' = [ses EXCEPT !.at = IF cur.at = "none" THEN "leave" ELSE "body"]

(***************************************************************************)
(* The asynchronous engine: the native form, or the blocking one on a      *)
(* worker when the driver declines; its deadline cancels under handleMutex.*)
(***************************************************************************)
NativeCall ==
    \/ ses.kind = "native" /\ ses.at = "body" /\ ses.ops = 0 /\ Calls("native", 0) /\ Open(0)
    \/ /\ ses.kind = "native" /\ ses.at = "body" /\ Returns("native") /\ call.st = "declined"
       /\ call' = [NoCall EXCEPT !.at = "start", !.n = call.n,
                                 !.op = IF call.n = 0 THEN "query" ELSE "execute"]
       /\ UNCHANGED <<drv, conn, killer, prep, cur, nat, sess, db, used, ses>>
    \/ /\ ses.kind = "native" /\ ses.at = "body" /\ Returns("native") /\ call.st = "accepted"
       /\ Hangup
       /\ ses' = [ses EXCEPT !.at = "waiting"]

NativeEnds ==
    \/ /\ ses.kind = "native" /\ ses.at = "body" /\ call.at = "returned" /\ call.op # "native"
       /\ Hangup
       /\ ses' = [ses EXCEPT !.at = "leave", !.bad = call.st = "lost"]
    \/ /\ ses.at = "waiting" /\ nat.at = "done"
       /\ ses' = [ses EXCEPT !.at = "leave", !.bad = nat.st = "lost"]
       /\ nat' = [NoNative EXCEPT !.stop = nat.stop]
       /\ UNCHANGED <<drv, conn, call, killer, prep, cur, sess, db, used>>

\* cancel() from another thread: Session::cancel(), or the engine's deadline
CancelCalled ==
    /\ \/ ses.at = "body" /\ ses.kind \in {"session", "native"}
       \/ ses.at = "waiting"
    /\ ~ses.kill
    /\ killer = "idle"
    /\ ses' = [ses EXCEPT !.kill = TRUE]
    /\ killer' = "look"
    /\ UNCHANGED <<drv, conn, call, prep, cur, nat, sess, db, used>>

Borrow ==
    \/ Lease("session") \/ Lease("transaction")
    \/ "cursor" \in Ops /\ Lease("cursor")
    \/ "native" \in Ops /\ Lease("native")

Driver == (MyNext \/ PgNext \/ OdbcNext \/ OraNext) /\ UNCHANGED <<ses, used>>

\* the process ends while the engine uses the connection
Stops == ses.kind = "native" /\ ReactorStops /\ UNCHANGED <<ses, used>>

Next ==
    \/ PoolCreates \/ PoolValidates \/ HandleReturns \/ PoolCloses \/ Borrow \/ LimitsCache
    \/ SessionQuery \/ SessionExecute \/ SessionExecuteKeys \/ SessionQueryEach
    \/ SessionExecuteBatch \/ SessionCallProcedure \/ SessionTx \/ SessionSavepoint
    \/ SessionBound \/ SessionPrepare \/ SessionRun \/ SessionOpenCursor \/ SessionCursor
    \/ SessionReturn \/ RunPrepared
    \/ SessionEnds \/ TxBegin \/ TxDeadline \/ TxBodyEnds \/ TxEnds
    \/ CursorCall \/ CursorEnds \/ NativeCall \/ NativeEnds \/ CancelCalled
    \/ Driver \/ Stops

Spec == Init /\ [][Next]_vars

(***************************************************************************)
(* Properties.                                                             *)
(***************************************************************************)
States == {"pooled", "check", "checked", "begin", "body", "undo", "save", "cleanup", "waiting",
           "leave", "close", "connect", "limit", "gone"}

(* A connection at rest in the pool carries nothing of its last borrower:   *)
(* no transaction at the server, none in the driver's flag, no uncommitted  *)
(* write, autocommit back on, no cursor, an empty slot and nobody inside    *)
(* cancel() - unless an end of transaction was answered with an error       *)
(* ("doubt"), or the driver is Oracle's, where a write outside begin()      *)
(* stays uncommitted and call() raises the flag.                            *)
CleanPool ==
    ses.at = "pooled" =>
        /\ ~conn.slot /\ killer = "idle" /\ cur = NoCursor /\ call = NoCall
        /\ nat.at \in {"none", "dropped"}
        /\ (sess.up /\ ~sess.doubt) =>
              /\ sess.tx = "none"
              /\ drv # "oracle" => sess.auto /\ sess.dirty = {} /\ ~conn.tx

(* A batch that opened its own transaction is all or nothing, whatever row  *)
(* fails and however often the thread that cancels gets in between: every   *)
(* row is committed when executeBatch() answers success, and when it        *)
(* answers an error no row is committed or waits in a transaction (unless   *)
(* COMMIT or ROLLBACK itself was answered with an error).                   *)
BatchAtomic ==
    (call.op = "batch" /\ call.at = "returned" /\ call.own) =>
        LET all == Rows(call.n, BatchRows)
        IN  IF call.st = "ok" THEN all \subseteq db
            ELSE sess.doubt \/ all \cap (db \cup sess.dirty) = {}

(* transaction() keeps its word: with success every statement the callback  *)
(* saw succeed is committed, with an error (the callback's own, a deadline, *)
(* a failed COMMIT) none of its statements is, as long as the callback did  *)
(* not end the transaction itself and no end of transaction was in doubt.   *)
TransactionOutcome ==
    (ses.kind = "transaction" /\ ses.at = "leave" /\ ~ses.own) =>
        IF ses.res = "ok" THEN ses.done \subseteq db
        ELSE sess.doubt \/ \A w \in db : w[1] \notin ses.tried

(* The three structures of the statement cache agree and hold no more than  *)
(* the configured number of statements.  Every statement that can still be  *)
(* run has its native statement; the others have been released, unless the  *)
(* release failed, which only MySQL rules out.  A handle the caller still   *)
(* holds means the statement it was prepared from, or is refused: the id of *)
(* an evicted statement never names another one.                            *)
PreparedConsistent ==
    /\ \A k \in Keys : prep.id[k] # 0 <=> \E i \in DOMAIN prep.lru : prep.lru[i] = k
    /\ \A i, j \in DOMAIN prep.lru : prep.lru[i] = prep.lru[j] => i = j
    /\ prep.byId = {<<prep.id[k], k>> : k \in {x \in Keys : prep.id[x] # 0}}
    /\ {b[1] : b \in prep.byId} \subseteq prep.live
    /\ drv = "mysql" => prep.live = {b[1] : b \in prep.byId}
    /\ prep.limit # 0 => Len(prep.lru) <= prep.limit
    /\ \A h \in ses.held : \A b \in prep.byId : b[1] = h[1] => b = h

(* README.md: "a returned error or exception is rolled back automatically": *)
(* when the rollback() that transaction() calls for a failed callback has   *)
(* been answered and the connection is still up, and about to go back to    *)
(* the pool, the transaction is over at the server.                         *)
FailureRolledBack ==
    (ses.at = "undo" /\ call.at = "returned" /\ call.st # "lost" /\ sess.up) => sess.tx # "open"
================================================================================
