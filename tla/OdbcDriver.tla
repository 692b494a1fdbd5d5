------------------------------ MODULE OdbcDriver ------------------------------
(***************************************************************************)
(* OdbcConnection (src/driver/odbc_driver.cpp).  A transaction is          *)
(* autocommit switched off; ending it switches autocommit back on, which   *)
(* by itself commits whatever is still open.                               *)
(***************************************************************************)
EXTENDS DriverConnection

OdbcSlot == {"query", "queryAll", "execute", "executeKeys", "queryBound", "executeBound",
             "stream", "run", "cursor", "ping"}

\* odbcError(): SQLSTATE class 08 in the diagnostics means a lost connection
OdbcBroken == "lost"

\* bindParameters(), prepareAndBind() and SQLExecute(): the statement is freed at the end
OdbcBoundRuns(w) == Statement(w, OdbcBroken)

\* fetchRowsInternal(): a column cannot be read, or the row limit is exceeded
OdbcFetchFails ==
    /\ Release(conn)
    /\ Runs({})
    /\ Answer("err")
    /\ UNCHANGED <<drv, killer, prep, cur, nat>>

OdbcConnect == Connects("odbc")
OdbcClose == Closes("odbc", conn) /\ UNCHANGED db
\* the failed statement is freed before its diagnostics are read: never "lost"
OdbcPrepare == Prepare("odbc", "err")
OdbcSetPreparedCacheLimit == SetLimit("odbc")

OdbcStart ==
    /\ Starts("odbc", OdbcSlot)
    /\ call.op = "run" => KnownHandle

\* ping() asks the driver manager first and runs a statement when it has no answer
OdbcPing ==
    \/ /\ Calling("odbc", {"ping"}, "start")
       /\ conn.open /\ sess.up
       /\ Answer("ok")
       /\ UNCHANGED <<drv, conn, killer, prep, cur, nat, sess, db>>
    \/ Calling("odbc", {"ping"}, "run") /\ Statement({}, OdbcBroken)

OdbcQuery ==
    /\ Calling("odbc", {"query", "queryAll"}, "run")
    /\ Statement({}, OdbcBroken) \/ OdbcFetchFails

\* the statement has run, but what follows it (SQLRowCount, the keys) fails
OdbcCountFails(w) ==
    /\ Release(conn)
    /\ Runs(w)
    /\ Answer("err")
    /\ UNCHANGED <<drv, killer, prep, cur, nat>>

OdbcExecute ==
    /\ Calling("odbc", {"execute"}, "run")
    /\ Statement(One(call.n), OdbcBroken) \/ OdbcCountFails(One(call.n))

OdbcQueryBound ==
    /\ Calling("odbc", {"queryBound"}, "run")
    /\ OdbcBoundRuns({}) \/ OdbcFetchFails

OdbcExecuteBound ==
    /\ Calling("odbc", {"executeBound"}, "run")
    /\ OdbcBoundRuns(One(call.n)) \/ OdbcCountFails(One(call.n))

OdbcExecuteKeys ==
    /\ Calling("odbc", {"executeKeys"}, "run")
    /\ Statement(One(call.n), OdbcBroken) \/ OdbcCountFails(One(call.n))

OdbcQueryEach ==
    /\ Calling("odbc", {"stream"}, "run")
    /\ OdbcBoundRuns({}) \/ OdbcFetchFails

OdbcExecutePrepared ==
    /\ Calling("odbc", {"run"}, "run")
    /\ Statement(One(call.n), OdbcBroken) \/ OdbcCountFails(One(call.n))

(***************************************************************************)
(* Transactions.                                                           *)
(***************************************************************************)
AutoOn(s) == [s EXCEPT !.auto = TRUE]

OdbcBegun == [Begun EXCEPT !.auto = FALSE]

\* SQLEndTran(COMMIT), then autocommit ON: a refused commit that left the transaction open
\* is completed by the second call, which may fail as well
OdbcEndCommit ==
    \/ CommitsTo(AutoOn(Ended)) /\ Answer("ok")
    \/ CommitsTo([Ended EXCEPT !.doubt = TRUE]) /\ Answer("err")
    \/ /\ sess.up
       /\ sess' = [AutoOn(Ended) EXCEPT !.doubt = TRUE]
       /\ db' \in {db, db \cup sess.dirty}
       /\ Answer("err")
    \/ CommitLost /\ Answer("lost")

OdbcEndRollback(ok) ==
    \/ InSync /\ sess' = AutoOn(Ended) /\ db' = db /\ Answer(ok)
    \/ /\ sess.up
       /\ \/ sess' = [AutoOn(Ended) EXCEPT !.doubt = TRUE] /\ db' = db \cup sess.dirty
          \/ sess' = [Ended EXCEPT !.doubt = TRUE] /\ db' = db
       /\ Answer(IF ok = "ok" THEN "err" ELSE ok)
    \/ Lost /\ Answer(IF ok = "ok" THEN "lost" ELSE ok)

OdbcBegin ==
    /\ Calling("odbc", {"begin"}, "start")
    /\ conn.open
    /\ \/ Answer("err") /\ UNCHANGED <<conn, sess, db>>
       \/ ~conn.tx /\ Lost /\ Answer("lost") /\ UNCHANGED conn
       \/ /\ ~conn.tx /\ InSync /\ Answer("ok")
          /\ sess' = OdbcBegun /\ db' = db
          /\ conn' = [conn EXCEPT !.tx = TRUE]
    /\ UNCHANGED <<drv, killer, prep, cur, nat>>

OdbcCommit ==
    /\ Calling("odbc", {"commit"}, "start")
    /\ conn.open
    /\ \/ ~conn.tx /\ Answer("err") /\ UNCHANGED <<conn, sess, db>>
       \/ conn.tx /\ OdbcEndCommit /\ conn' = [conn EXCEPT !.tx = FALSE]
    /\ UNCHANGED <<drv, killer, prep, cur, nat>>

OdbcRollback ==
    /\ Calling("odbc", {"rollback"}, "start")
    /\ conn.open
    /\ \/ ~conn.tx /\ Answer("err") /\ UNCHANGED <<conn, sess, db>>
       \/ conn.tx /\ OdbcEndRollback("ok") /\ conn' = [conn EXCEPT !.tx = FALSE]
    /\ UNCHANGED <<drv, killer, prep, cur, nat>>

\* savepoints are statements run through execute(), which claims the slot
OdbcSavepoint ==
    /\ Calling("odbc", {"savepoint", "release", "rollbackTo"}, "start")
    /\ MutexFree
    /\ \/ conn.tx /\ Savepoint(call.op) /\ Answer("ok")
       \/ Answer("err") /\ UNCHANGED <<sess, db>>
       \/ conn.tx /\ Lost /\ Answer("lost")
    /\ UNCHANGED <<drv, conn, killer, prep, cur, nat>>

(***************************************************************************)
(* executeBatch(): the statement is active from the first row on.          *)
(***************************************************************************)
OdbcBatchBegin ==
    /\ Calling("odbc", {"batch"}, "start")
    /\ conn.open
    /\ \/ sess.up /\ Answer("err") /\ UNCHANGED <<conn, sess, db>>
       \/ Lost /\ Answer("lost") /\ UNCHANGED conn
       \/ conn.tx /\ InSync /\ Go("claim") /\ UNCHANGED <<conn, sess, db>>
       \/ /\ ~conn.tx /\ InSync
          /\ sess' = OdbcBegun /\ db' = db
          /\ conn' = [conn EXCEPT !.tx = TRUE]
          /\ call' = [call EXCEPT !.at = "claim", !.own = TRUE]
    /\ UNCHANGED <<drv, killer, prep, cur, nat>>

OdbcBatchClaim ==
    /\ Calling("odbc", {"batch"}, "claim")
    /\ Claim
    /\ Go("rows")
    /\ UNCHANGED <<drv, killer, prep, cur, nat, sess, db>>

\* one array execution or row by row: an array may write any of its rows before it fails
OdbcBatchRows ==
    /\ Calling("odbc", {"batch"}, "rows")
    /\ \/ Runs(Rows(call.n, BatchRows)) /\ Go("save")
       \/ \E done \in SUBSET Rows(call.n, BatchRows) :
            Runs(done) /\ call' = [call EXCEPT !.at = "undo", !.st = "err"]
       \/ Lost /\ call' = [call EXCEPT !.at = "undo", !.st = "lost"]
    /\ UNCHANGED <<drv, conn, killer, prep, cur, nat>>

\* Mutant: the transaction the batch opened is left to the next statement.
OdbcBatchUndoNothing ==
    /\ Calling("odbc", {"batch"}, "undo")
    /\ Release(conn) /\ Answer(call.st) /\ UNCHANGED <<sess, db>>
    /\ UNCHANGED <<drv, killer, prep, cur, nat>>

OdbcBatchUndo ==
    /\ Calling("odbc", {"batch"}, "undo")
    /\ IF call.own /\ conn.tx
       THEN OdbcEndRollback(call.st) /\ Release([conn EXCEPT !.tx = FALSE])
       ELSE Release(conn) /\ Answer(call.st) /\ UNCHANGED <<sess, db>>
    /\ UNCHANGED <<drv, killer, prep, cur, nat>>

\* after a failed commit() the rollback finds no transaction
OdbcBatchCommit ==
    /\ Calling("odbc", {"batch"}, "save")
    /\ IF call.own
       THEN OdbcEndCommit /\ Release([conn EXCEPT !.tx = FALSE])
       ELSE Release(conn) /\ Answer("ok") /\ UNCHANGED <<sess, db>>
    /\ UNCHANGED <<drv, killer, prep, cur, nat>>

(***************************************************************************)
(* Cursors.  When the result cannot be described the cursor, and with it   *)
(* the statement handle, is destroyed before the slot is cleared.          *)
(***************************************************************************)
OdbcSetupResult == Runs({}) /\ cur' = [NoCursor EXCEPT !.at = "open"] /\ Answer("ok") /\ Release(conn)

OdbcOpenCursor ==
    \/ /\ Calling("odbc", {"cursor"}, "run")
       /\ \/ OdbcSetupResult
          \/ sess.up /\ Fails /\ Answer("err") /\ Release(conn) /\ UNCHANGED cur
          \/ Lost /\ Answer("lost") /\ Release(conn) /\ UNCHANGED cur
          \/ Runs({}) /\ Go("freed") /\ UNCHANGED <<conn, cur>>
       /\ UNCHANGED <<drv, killer, prep, nat>>
    \/ /\ Calling("odbc", {"cursor"}, "freed")
       /\ Release(conn)
       /\ Answer("err")
       /\ UNCHANGED <<drv, killer, prep, cur, nat, sess, db>>

\* fetch() does not claim the slot
OdbcCursorFetch ==
    /\ Calling("odbc", {"fetch"}, "start")
    /\ \/ cur.at # "open" /\ Answer("ok") /\ UNCHANGED <<cur, sess, db>>
       \/ /\ cur.at = "open" /\ sess.up /\ Answer("ok")
          /\ \E at \in {"open", "eof"} : cur' = [cur EXCEPT !.at = at]
          /\ UNCHANGED <<sess, db>>
       \/ cur.at = "open" /\ sess.up /\ Fails /\ Answer("err") /\ UNCHANGED cur
       \/ cur.at = "open" /\ Lost /\ Answer("lost") /\ UNCHANGED cur
    /\ UNCHANGED <<drv, conn, killer, prep, nat>>

OdbcCursorClose ==
    /\ Calling("odbc", {"closeCursor"}, "start")
    /\ cur' = NoCursor
    /\ Answer("ok")
    /\ UNCHANGED <<drv, conn, killer, prep, nat, sess, db>>

\* cancel() pins the statement by holding activeStmtMtx_ over SQLCancelHandle
OdbcCancelLook == Looks("odbc", "locked") \/ NothingToCancel("odbc")
OdbcCancelSend == Interrupts("odbc", "locked", conn)

(***************************************************************************)
(* queryAsync(), executeAsync() and the stages of an asynchronous          *)
(* operation, each polled by the reactor.                                  *)
(***************************************************************************)
OdbcAsync ==
    /\ Calling("odbc", {"native"}, "start")
    /\ \/ Answer("declined") /\ UNCHANGED <<conn, nat>>
       \/ /\ conn.open /\ ~conn.tx /\ ~conn.slot
          /\ IF nat.stop THEN Enqueue("abort") ELSE Enqueue("prepare")
          /\ Claim
          /\ Answer("accepted")
    /\ UNCHANGED <<drv, killer, prep, cur, sess, db>>

OdbcStepPrepare ==
    /\ drv = "odbc"
    /\ \/ nat.at = "abort" /\ PollComplete("err") /\ UNCHANGED <<sess, db>>
       \/ nat.at = "prepare" /\ PollAgain("execute") /\ UNCHANGED <<sess, db>>
       \/ nat.at = "prepare" /\ sess.up /\ Fails /\ PollComplete("err")
       \/ nat.at = "prepare" /\ Lost /\ PollComplete(OdbcBroken)
    /\ UNCHANGED <<drv, call, killer, prep, cur>>

\* the statement runs; its columns are described before the first fetch
OdbcStepExecute ==
    /\ drv = "odbc"
    /\ nat.at = "execute"
    /\ \/ nat.n # 0 /\ Runs(One(nat.n)) /\ \E st \in {"ok", "err"} : PollComplete(st)
       \/ nat.n = 0 /\ Runs({}) /\ PollAgain("fetch")
       \/ nat.stop /\ PollAgain("execute") /\ UNCHANGED <<sess, db>>
       \/ sess.up /\ Fails /\ PollComplete("err")
       \/ (Lost \/ LostAfter(One(nat.n))) /\ PollComplete(OdbcBroken)
    /\ UNCHANGED <<drv, call, killer, prep, cur>>

OdbcStepFetch ==
    /\ drv = "odbc"
    /\ nat.at = "fetch"
    /\ \/ nat.stop /\ PollAgain("fetch") /\ UNCHANGED <<sess, db>>
       \/ sess.up /\ PollComplete("ok") /\ UNCHANGED <<sess, db>>
       \/ sess.up /\ Fails /\ PollComplete("err")
       \/ Lost /\ PollComplete(OdbcBroken)
    /\ UNCHANGED <<drv, call, killer, prep, cur>>

OdbcNext ==
    \/ OdbcConnect \/ OdbcClose \/ OdbcPrepare \/ OdbcSetPreparedCacheLimit \/ OdbcStart
    \/ OdbcPing \/ OdbcQuery \/ OdbcExecute \/ OdbcQueryBound \/ OdbcExecuteBound \/ OdbcExecuteKeys \/ OdbcQueryEach
    \/ OdbcExecutePrepared \/ OdbcBegin \/ OdbcCommit \/ OdbcRollback \/ OdbcSavepoint
    \/ OdbcBatchBegin \/ OdbcBatchClaim \/ OdbcBatchRows \/ OdbcBatchUndo \/ OdbcBatchCommit
    \/ OdbcOpenCursor \/ OdbcCursorFetch \/ OdbcCursorClose
    \/ OdbcCancelLook \/ OdbcCancelSend \/ OdbcAsync
    \/ OdbcStepPrepare \/ OdbcStepExecute \/ OdbcStepFetch
    \/ BadHandle("odbc")
================================================================================
