---------------------------- MODULE PostgresDriver ----------------------------
(***************************************************************************)
(* PostgresConnection (src/driver/postgres_driver.cpp).  Outside begin()   *)
(* every statement has a transaction of its own; libpqxx allows one at a   *)
(* time, so while a cursor owns it every other statement is refused.       *)
(***************************************************************************)
EXTENDS DriverConnection

PgSlot == {"query", "queryAll", "execute", "executeKeys", "queryBound", "executeBound", "stream",
           "batch", "cursor", "fetch"}

\* postgresError(): a broken_connection exception is reported as a lost connection
PgBroken == "lost"

PgConnect == Connects("postgres")
PgClose == Closes("postgres", conn) /\ UNCHANGED db
PgPrepare == Prepare("postgres", PgBroken)
PgSetPreparedCacheLimit == SetLimit("postgres")

PgStart ==
    /\ Starts("postgres", PgSlot)
    /\ call.op = "fetch" => cur.at = "open"

\* a PgTx opened, used for writing w, and committed by the function itself: an exception
\* leaves its destructor to abort it, a lost COMMIT leaves its outcome open
PgOwnTx(w) ==
    \/ ~cur.own /\ InSync /\ sess' = sess /\ db' = db \cup w /\ Answer("ok")
    \/ sess' = sess /\ db' = db /\ Answer("err")
    \/ ~cur.own /\ Lost /\ Answer(PgBroken)
    \/ ~cur.own /\ InSync /\ sess' = [Drops(sess) EXCEPT !.doubt = TRUE] /\ db' = db \cup w
       /\ Answer(PgBroken)

\* fillResultSet() refuses the rows (row limit, a value it cannot convert)
PgFillFails(w) == Runs(w) /\ Answer("err")

\* the same statement inside the transaction of begin(): it fails the transaction, or
\* succeeds and only its result is refused (row limit)
PgInTx(w) ==
    \/ Runs(w) /\ Answer("ok")
    \/ PgFillFails(w)
    \/ sess.up /\ Fails /\ Answer("err")
    \/ Lost /\ Answer(PgBroken)

PgStatement(w) == IF conn.tx THEN PgInTx(w) ELSE PgOwnTx(w)

PgPing ==
    /\ Calling("postgres", {"ping"}, "start")
    /\ conn.open
    /\ IF conn.tx THEN Answer("err") /\ UNCHANGED <<sess, db>> ELSE PgOwnTx({})
    /\ UNCHANGED <<drv, conn, killer, prep, cur, nat>>

PgQuery ==
    /\ Calling("postgres", {"query", "queryAll", "queryBound"}, "run")
    /\ Release(conn)
    /\ PgStatement({})
    /\ UNCHANGED <<drv, killer, prep, cur, nat>>

PgExecute ==
    /\ Calling("postgres", {"execute", "executeBound"}, "run")
    /\ Release(conn)
    /\ PgStatement(One(call.n))
    /\ UNCHANGED <<drv, killer, prep, cur, nat>>

PgExecuteKeys ==
    /\ Calling("postgres", {"executeKeys"}, "run")
    /\ Release(conn)
    /\ PgStatement(One(call.n))
    /\ UNCHANGED <<drv, killer, prep, cur, nat>>

\* streamRows() declares a cursor and fetches from it until the callback has enough
PgStreamRows == PgStatement({})

PgQueryEach ==
    /\ Calling("postgres", {"stream"}, "run")
    /\ Release(conn)
    /\ PgStreamRows
    /\ UNCHANGED <<drv, killer, prep, cur, nat>>

\* executePrepared() does not claim the slot: it cannot be cancelled
PgExecutePrepared ==
    /\ Calling("postgres", {"run"}, "start")
    /\ conn.open
    /\ KnownHandle
    /\ PgStatement(One(call.n))
    /\ UNCHANGED <<drv, conn, killer, prep, cur, nat>>

\* executeBatch(): all rows in the caller's transaction, or in one of the function's own
PgExecuteBatch ==
    /\ Calling("postgres", {"batch"}, "run")
    /\ Release(conn)
    /\ LET all == Rows(call.n, BatchRows)
           Back(st) == call' = [call EXCEPT !.at = "returned", !.st = st, !.own = ~conn.tx]
       IN  IF conn.tx
           THEN \/ Runs(all) /\ Back("ok")
                \/ sess.up /\ Fails /\ Back("err")
                \/ Lost /\ Back("lost")
           ELSE \/ ~cur.own /\ InSync /\ sess' = sess /\ db' = db \cup all /\ Back("ok")
                \/ sess' = sess /\ db' = db /\ Back("err")
                \/ ~cur.own /\ Lost /\ Back("lost")
                \/ /\ ~cur.own /\ InSync
                   /\ sess' = [Drops(sess) EXCEPT !.doubt = TRUE] /\ db' = db \cup all
                   /\ Back("lost")
    /\ UNCHANGED <<drv, killer, prep, cur, nat>>

(***************************************************************************)
(* Cursors live in a transaction, the caller's or one they own.            *)
(***************************************************************************)
PgDeclareCursor ==
    \/ conn.tx /\ Runs({}) /\ cur' = [at |-> "open", own |-> FALSE] /\ Answer("ok")
    \/ conn.tx /\ sess.up /\ Fails /\ UNCHANGED cur /\ Answer("err")
    \/ /\ ~conn.tx /\ call.arg = 1 /\ ~cur.own /\ InSync
       /\ sess' = Begun /\ db' = db
       /\ cur' = [at |-> "open", own |-> TRUE] /\ Answer("ok")

PgOpenCursor ==
    /\ Calling("postgres", {"cursor"}, "run")
    /\ Release(conn)
    /\ \/ PgDeclareCursor
       \/ ~conn.tx /\ UNCHANGED <<sess, db, cur>> /\ Answer("err")
       \/ Lost /\ UNCHANGED cur /\ Answer(PgBroken)
    /\ UNCHANGED <<drv, killer, prep, nat>>

PgCursorFetch ==
    \/ /\ Calling("postgres", {"fetch"}, "run")
       /\ Release(conn)
       /\ \/ Runs({}) /\ \E at \in {"open", "eof"} : cur' = [cur EXCEPT !.at = at] /\ Answer("ok")
          \/ sess.up /\ Fails /\ cur' = [cur EXCEPT !.at = "eof"] /\ Answer("err")
          \/ Lost /\ cur' = [cur EXCEPT !.at = "eof"] /\ Answer("lost")
       /\ UNCHANGED <<drv, killer, prep, nat>>
    \/ /\ Calling("postgres", {"fetch"}, "start")
       /\ cur.at # "open"
       /\ Answer("ok")
       /\ UNCHANGED <<drv, conn, killer, prep, cur, nat, sess, db>>

\* close() then the destructor: a cursor still open commits the transaction it owns, one
\* that reached its end or failed leaves it to be aborted
PgCursorClose ==
    /\ Calling("postgres", {"closeCursor"}, "start")
    /\ MutexFree
    /\ cur' = NoCursor
    /\ \/ cur.own /\ cur.at = "open" /\ Commits /\ Answer("ok")
       \/ cur.own /\ sess.up /\ sess' = Ended /\ db' = db
          /\ Answer(IF cur.at = "open" THEN "err" ELSE "ok")
       \/ cur.own /\ Lost /\ Answer(IF cur.at = "open" THEN "lost" ELSE "ok")
       \/ ~cur.own /\ UNCHANGED <<sess, db>> /\ Answer("ok")
       \/ ~cur.own /\ cur.at = "open" /\ sess.up /\ Fails /\ Answer("err")
    /\ UNCHANGED <<drv, conn, killer, prep, nat>>

(***************************************************************************)
(* Transactions: tx_ is gone after commit() and rollback(), whatever they  *)
(* answered; a COMMIT the server refuses has ended the transaction.        *)
(***************************************************************************)
PgBegin ==
    /\ Calling("postgres", {"begin"}, "start")
    /\ conn.open
    /\ \/ Answer("err") /\ UNCHANGED <<conn, sess, db>>
       \/ ~conn.tx /\ ~cur.own /\ Lost /\ Answer("lost") /\ UNCHANGED conn
       \/ /\ ~conn.tx /\ ~cur.own /\ InSync /\ Answer("ok")
          /\ sess' = Begun /\ db' = db
          /\ conn' = [conn EXCEPT !.tx = TRUE]
    /\ UNCHANGED <<drv, killer, prep, cur, nat>>

PgCommit ==
    /\ Calling("postgres", {"commit"}, "start")
    /\ conn.open
    /\ \/ ~conn.tx /\ Answer("err") /\ UNCHANGED <<conn, sess, db>>
       \/ /\ conn.tx
          /\ \/ Commits /\ Answer("ok")
             \/ sess.up /\ sess' = Ended /\ db' = db /\ Answer("err")
             \/ CommitLost /\ Answer("lost")
          /\ conn' = [conn EXCEPT !.tx = FALSE]
    /\ UNCHANGED <<drv, killer, prep, cur, nat>>

\* abort() does not throw: a connection lost meanwhile may go unnoticed
PgRollback ==
    /\ Calling("postgres", {"rollback"}, "start")
    /\ conn.open
    /\ \/ ~conn.tx /\ Answer("err") /\ UNCHANGED <<conn, sess, db>>
       \/ /\ conn.tx
          /\ \/ Undoes /\ Answer("ok")
             \/ Lost /\ \E st \in {"ok", "lost"} : Answer(st)
          /\ conn' = [conn EXCEPT !.tx = FALSE]
    /\ UNCHANGED <<drv, killer, prep, cur, nat>>

PgSavepoint ==
    /\ Calling("postgres", {"savepoint", "release", "rollbackTo"}, "start")
    /\ \/ conn.tx /\ Savepoint(call.op) /\ Answer("ok")
       \/ conn.tx /\ sess.up /\ Fails /\ Answer("err")
       \/ ~conn.tx /\ Answer("err") /\ UNCHANGED <<sess, db>>
       \/ conn.tx /\ Lost /\ Answer("lost")
    /\ UNCHANGED <<drv, conn, killer, prep, cur, nat>>

\* cancel() holds operationMtx_ over PQcancel
PgCancelLook == Looks("postgres", "locked") \/ NothingToCancel("postgres")
PgCancelSend == Interrupts("postgres", "locked", conn)

(***************************************************************************)
(* queryAsync(), executeAsync() and the reactor thread.                    *)
(***************************************************************************)
PgAsync ==
    /\ Calling("postgres", {"native"}, "start")
    /\ \/ Answer("declined") /\ UNCHANGED <<conn, nat>>
       \/ /\ conn.open /\ ~conn.tx /\ ~conn.slot
          /\ Claim
          /\ Enqueue("queued")
          /\ Answer("accepted")
    /\ UNCHANGED <<drv, killer, prep, cur, sess, db>>

PgAdvance ==
    /\ drv = "postgres"
    /\ nat.at = "queued"
    /\ \/ Runs(One(nat.n)) /\ \E st \in {"ok", "err"} : nat' = [nat EXCEPT !.at = "finish", !.st = st]
       \/ sess.up /\ Fails /\ nat' = [nat EXCEPT !.at = "finish", !.st = "err"]
       \/ Lost /\ nat' = [nat EXCEPT !.at = "finish", !.st = "lost"]
    /\ UNCHANGED <<drv, conn, call, killer, prep, cur>>

PgFinish ==
    /\ drv = "postgres"
    /\ nat.at = "finish"
    /\ Release(conn)
    /\ nat' = [nat EXCEPT !.at = "done"]
    /\ UNCHANGED <<drv, call, killer, prep, cur, sess, db>>

PgNext ==
    \/ PgConnect \/ PgClose \/ PgPrepare \/ PgSetPreparedCacheLimit \/ PgStart \/ PgPing
    \/ PgQuery \/ PgExecute \/ PgExecuteKeys \/ PgQueryEach \/ PgExecutePrepared
    \/ PgExecuteBatch \/ PgOpenCursor \/ PgCursorFetch \/ PgCursorClose
    \/ PgBegin \/ PgCommit \/ PgRollback \/ PgSavepoint \/ PgCancelLook \/ PgCancelSend
    \/ PgAsync \/ PgAdvance \/ PgFinish
    \/ BadHandle("postgres")
================================================================================
