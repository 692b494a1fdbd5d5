------------------------------ MODULE MySqlDriver ------------------------------
(***************************************************************************)
(* MySQLConnection (src/driver/mysql_driver.cpp): what each function does  *)
(* to the connection, in the order it does it.  Results that stay on the   *)
(* wire make every later command fail ("Commands out of sync").            *)
(***************************************************************************)
EXTENDS DriverConnection

MySlot == {"query", "queryAll", "execute", "executeKeys", "queryBound", "executeBound", "stream",
           "run", "cursor", "fetch"}

\* how a lost connection is reported: lastError() knows the client library's codes,
\* stmtError() does not
MyLastError == "lost"
MyStmtError == "err"

\* a result given up (row limit), or one that drainRemainingResults() found and could not
\* read: what the server still has to say stays on the wire, or not
MyGivesUp(w) ==
    /\ Release(conn)
    /\ \E u \in {0, Text} : RunsLeaving(w, u)
    /\ Answer("err")
    /\ UNCHANGED <<drv, killer, prep, cur, nat>>

\* prepareAndBind() and mysql_stmt_execute(): the bound path keeps its statement to
\* itself, and closing it discards what is unread
MyPrepareAndBind(w) == Statement(w, MyStmtError)

\* fetchPreparedInternal(): rows are read into bound buffers, or the read fails
MyFetchPrepared ==
    /\ Release(conn)
    /\ Runs({})
    /\ Answer("err")
    /\ UNCHANGED <<drv, killer, prep, cur, nat>>

MyConnect == Connects("mysql")
MyClose == Closes("mysql", [conn EXCEPT !.asked = FALSE]) /\ UNCHANGED db
MyPrepare == Prepare("mysql", MyStmtError)
MySetPreparedCacheLimit == SetLimit("mysql")

MyStart ==
    /\ Starts("mysql", MySlot)
    /\ call.op = "run" => KnownHandle
    /\ call.op = "fetch" => cur.at = "open"

\* ping() does not claim the slot
MyPing ==
    /\ Calling("mysql", {"ping"}, "start")
    /\ conn.open
    /\ \/ InSync /\ Answer("ok") /\ UNCHANGED <<sess, db>>
       \/ sess.up /\ Answer("err") /\ UNCHANGED <<sess, db>>
       \/ Lost /\ Answer("lost")
    /\ UNCHANGED <<drv, conn, killer, prep, cur, nat>>

\* the text query: a result above max_result_rows is given up before the remaining
\* result sets are drained
MyQuery ==
    /\ Calling("mysql", {"query"}, "run")
    /\ \/ Statement({}, MyLastError)
       \/ MyGivesUp({})

MyQueryAll ==
    /\ Calling("mysql", {"queryAll"}, "run")
    /\ \/ Statement({}, MyLastError)
       \/ MyGivesUp({})

\* the text execute: a later statement of the same text may fail after the first wrote
\* (drainRemainingResults), and so does the drain itself when the text returned rows
MyExecute ==
    /\ Calling("mysql", {"execute"}, "run")
    /\ \/ Statement(One(call.n), MyLastError)
       \/ MyGivesUp(One(call.n))

\* without parameters the text execute, with them the bound one; the key is read from the
\* client library
MyExecuteKeys ==
    /\ Calling("mysql", {"executeKeys"}, "run")
    /\ \/ Statement(One(call.n), MyLastError) \/ MyGivesUp(One(call.n))
       \/ MyPrepareAndBind(One(call.n))

MyQueryBound ==
    /\ Calling("mysql", {"queryBound"}, "run")
    /\ MyPrepareAndBind({}) \/ MyFetchPrepared

MyExecuteBound ==
    /\ Calling("mysql", {"executeBound"}, "run")
    /\ MyPrepareAndBind(One(call.n))

MyQueryEach ==
    /\ Calling("mysql", {"stream"}, "run")
    /\ MyPrepareAndBind({}) \/ MyFetchPrepared

\* a cached statement stays: its unread rows (row limit, or the affected-count overload
\* given a statement that returns rows) stay on the wire until it runs again
MyExecutePrepared ==
    /\ Calling("mysql", {"run"}, "run")
    /\ Release(conn)
    /\ LET w == One(call.n)
           flushed == IF sess.unread = OfStmt(call.arg) THEN 0 ELSE sess.unread
       IN  \/ /\ sess.up /\ flushed = 0
              /\ \E u \in {0, OfStmt(call.arg)} :
                   /\ sess' = [sess EXCEPT !.dirty = IF InTx THEN @ \cup w ELSE @, !.unread = u]
                   /\ db' = IF InTx THEN db ELSE db \cup w
                   /\ \E st \in IF u = 0 THEN {"ok"} ELSE {"ok", "err"} : Answer(st)
           \/ sess.up /\ sess' = [sess EXCEPT !.unread = flushed] /\ db' = db /\ Answer("err")
           \/ (Lost \/ LostAfter(w)) /\ Answer("err")
    /\ UNCHANGED <<drv, killer, prep, cur, nat>>

(***************************************************************************)
(* executeBatch(): prepare and check the rows, open a transaction unless   *)
(* the caller has one, run the rows (in chunks or one by one), commit.     *)
(***************************************************************************)
MyBatchBegin ==
    /\ Calling("mysql", {"batch"}, "start")
    /\ conn.open
    /\ \/ sess.up /\ Answer("err") /\ UNCHANGED <<conn, sess, db>>
       \/ Lost /\ Answer("err") /\ UNCHANGED conn
       \/ conn.tx /\ InSync /\ Go("claim") /\ UNCHANGED <<conn, sess, db>>
       \/ /\ ~conn.tx
          /\ \/ /\ InSync
                /\ sess' = Begun
                /\ conn' = [conn EXCEPT !.tx = TRUE]
                /\ call' = [call EXCEPT !.at = "claim", !.own = TRUE]
                /\ db' = db
             \/ Lost /\ Answer("lost") /\ UNCHANGED conn
    /\ UNCHANGED <<drv, killer, prep, cur, nat>>

MyBatchClaim ==
    /\ Calling("mysql", {"batch"}, "claim")
    /\ Claim
    /\ Go("rows")
    /\ UNCHANGED <<drv, killer, prep, cur, nat, sess, db>>

\* the first k rows run; a row that fails, or a result set nobody asked for, ends it
MyBatchRows ==
    /\ Calling("mysql", {"batch"}, "rows")
    /\ \/ Runs(Rows(call.n, BatchRows)) /\ Go("save")
       \/ \E k \in 0..BatchRows, u \in {0, Text} :
            RunsLeaving(Rows(call.n, k), u) /\ call' = [call EXCEPT !.at = "undo", !.st = "err"]
       \/ Lost /\ \E st \in {"err", "lost"} : call' = [call EXCEPT !.at = "undo", !.st = st]
    /\ UNCHANGED <<drv, conn, killer, prep, cur, nat>>

MyBatchUndo ==
    /\ Calling("mysql", {"batch"}, "undo")
    /\ IF call.own
       THEN \/ Undoes /\ Release([conn EXCEPT !.tx = FALSE])
            \/ UndoRefused /\ Release(conn)
            \/ Lost /\ Release(conn)
       ELSE Release(conn) /\ UNCHANGED <<sess, db>>
    /\ Answer(call.st)
    /\ UNCHANGED <<drv, killer, prep, cur, nat>>

MyBatchCommit ==
    /\ Calling("mysql", {"batch"}, "save")
    /\ IF call.own
       THEN \/ Commits /\ Release([conn EXCEPT !.tx = FALSE]) /\ Answer("ok")
            \/ Refuses /\ UNCHANGED conn /\ call' = [call EXCEPT !.at = "undo", !.st = "err"]
            \/ CommitLost /\ UNCHANGED conn /\ call' = [call EXCEPT !.at = "undo", !.st = "lost"]
       ELSE Release(conn) /\ Answer("ok") /\ UNCHANGED <<sess, db>>
    /\ UNCHANGED <<drv, killer, prep, cur, nat>>

(***************************************************************************)
(* Cursors: the rows are fetched from the wire as the caller asks.         *)
(***************************************************************************)
MySetupResult == RunsLeaving({}, OfCursor) /\ cur' = [NoCursor EXCEPT !.at = "open"] /\ Answer("ok")

MyOpenCursor ==
    /\ Calling("mysql", {"cursor"}, "run")
    /\ Release(conn)
    /\ \/ MySetupResult
       \/ sess.up /\ Fails /\ Answer("err") /\ UNCHANGED cur
       \/ Lost /\ Answer("err") /\ UNCHANGED cur
    /\ UNCHANGED <<drv, killer, prep, nat>>

MyCursorFetch ==
    \/ /\ Calling("mysql", {"fetch"}, "run")
       /\ Release(conn)
       /\ \/ sess.up /\ sess.unread = OfCursor /\ Answer("ok") /\ UNCHANGED <<cur, sess, db>>
          \/ /\ sess.up /\ sess.unread = OfCursor /\ Answer("ok")
             /\ cur' = [cur EXCEPT !.at = "eof"]
             /\ sess' = [sess EXCEPT !.unread = 0] /\ db' = db
          \/ sess.up /\ Fails /\ Answer("err") /\ UNCHANGED cur
          \/ Lost /\ Answer("lost") /\ UNCHANGED cur
       /\ UNCHANGED <<drv, killer, prep, nat>>
    \/ /\ Calling("mysql", {"fetch"}, "start")
       /\ cur.at # "open"
       /\ Answer("ok")
       /\ UNCHANGED <<drv, conn, killer, prep, cur, nat, sess, db>>

\* closing the statement discards its unread rows
MyCursorClose ==
    /\ Calling("mysql", {"closeCursor"}, "start")
    /\ cur' = NoCursor
    /\ sess' = [sess EXCEPT !.unread = IF @ = OfCursor THEN 0 ELSE @]
    /\ Answer("ok")
    /\ UNCHANGED <<drv, conn, killer, prep, nat, db>>

(***************************************************************************)
(* Transactions: txOpen_ changes only when the server answered OK.         *)
(***************************************************************************)
MyBegin ==
    /\ Calling("mysql", {"begin"}, "start")
    /\ conn.open
    /\ \/ conn.tx /\ Answer("err") /\ UNCHANGED <<conn, sess, db>>
       \/ ~conn.tx /\ sess.up /\ Answer("err") /\ UNCHANGED <<conn, sess, db>>
       \/ ~conn.tx /\ Lost /\ Answer("lost") /\ UNCHANGED conn
       \/ /\ ~conn.tx /\ InSync /\ Answer("ok")
          /\ sess' = Begun /\ db' = db
          /\ conn' = [conn EXCEPT !.tx = TRUE]
    /\ UNCHANGED <<drv, killer, prep, cur, nat>>

MyCommit ==
    /\ Calling("mysql", {"commit"}, "start")
    /\ conn.open
    /\ \/ Commits /\ conn' = [conn EXCEPT !.tx = FALSE] /\ Answer("ok")
       \/ Refuses /\ UNCHANGED conn /\ Answer("err")
       \/ CommitLost /\ UNCHANGED conn /\ Answer("lost")
    /\ UNCHANGED <<drv, killer, prep, cur, nat>>

MyRollback ==
    /\ Calling("mysql", {"rollback"}, "start")
    /\ conn.open
    /\ \/ Undoes /\ conn' = [conn EXCEPT !.tx = FALSE] /\ Answer("ok")
       \/ UndoRefused /\ UNCHANGED conn /\ Answer("err")
       \/ Lost /\ UNCHANGED conn /\ Answer("lost")
    /\ UNCHANGED <<drv, killer, prep, cur, nat>>

MySavepoint ==
    /\ Calling("mysql", {"savepoint", "release", "rollbackTo"}, "start")
    /\ \/ Savepoint(call.op) /\ conn.tx /\ Answer("ok")
       \/ Answer("err") /\ UNCHANGED <<sess, db>>
       \/ conn.tx /\ Lost /\ Answer("lost")
    /\ UNCHANGED <<drv, conn, killer, prep, cur, nat>>

(***************************************************************************)
(* cancel(): operationMtx_ is held over the control connection and KILL.   *)
(***************************************************************************)
MyCancelLook == Looks("mysql", "locked") \/ NothingToCancel("mysql")
MyCancelKill == \E sent \in BOOLEAN : Interrupts("mysql", "locked", [conn EXCEPT !.asked = @ \/ sent])

(***************************************************************************)
(* queryAsync(), executeAsync() and the reactor thread.                    *)
(***************************************************************************)
MyAsync ==
    /\ Calling("mysql", {"native"}, "start")
    /\ \/ Answer("declined") /\ UNCHANGED <<conn, nat>>
       \/ /\ conn.open /\ ~conn.tx /\ ~conn.slot
          /\ ClaimFresh
          /\ Enqueue("queued")
          /\ Answer("accepted")
    /\ UNCHANGED <<drv, killer, prep, cur, sess, db>>

\* the reactor's thread: the query phase, then the result; the completion clears the slot
MyAdvance ==
    /\ drv = "mysql"
    /\ nat.at = "queued"
    /\ \/ Runs(One(nat.n)) /\ nat' = [nat EXCEPT !.at = "finish"]
       \/ sess.up /\ Fails /\ nat' = [nat EXCEPT !.at = "finish", !.st = "err"]
       \/ (Lost \/ LostAfter(One(nat.n))) /\ nat' = [nat EXCEPT !.at = "finish", !.st = "lost"]
    /\ UNCHANGED <<drv, conn, call, killer, prep, cur>>

MyFinish ==
    /\ drv = "mysql"
    /\ nat.at = "finish"
    /\ Release([conn EXCEPT !.asked = FALSE])
    /\ \E st \in {nat.st, "err"} :
        nat' = [nat EXCEPT !.at = "done", !.st = IF conn.asked /\ st = "ok" THEN "err" ELSE st]
    /\ UNCHANGED <<drv, call, killer, prep, cur, sess, db>>

MyNext ==
    \/ MyConnect \/ MyClose \/ MyPrepare \/ MySetPreparedCacheLimit \/ MyStart \/ MyPing
    \/ MyQuery \/ MyQueryAll \/ MyExecute \/ MyExecuteKeys \/ MyQueryBound \/ MyExecuteBound
    \/ MyQueryEach \/ MyExecutePrepared \/ MyBatchBegin \/ MyBatchClaim \/ MyBatchRows
    \/ MyBatchUndo \/ MyBatchCommit \/ MyOpenCursor \/ MyCursorFetch \/ MyCursorClose
    \/ MyBegin \/ MyCommit \/ MyRollback \/ MySavepoint \/ MyCancelLook \/ MyCancelKill
    \/ MyAsync \/ MyAdvance \/ MyFinish
    \/ BadHandle("mysql")
================================================================================
