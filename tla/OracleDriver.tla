----------------------------- MODULE OracleDriver -----------------------------
(***************************************************************************)
(* OracleConnection (src/driver/oracle_driver.cpp).  The server opens a    *)
(* transaction at the first write and only COMMIT or ROLLBACK ends it:     *)
(* begin() is a flag, and a statement outside it stays uncommitted.        *)
(***************************************************************************)
EXTENDS DriverConnection

OraSlot == {"query", "queryAll", "execute", "executeKeys", "queryBound", "executeBound", "stream",
            "run", "cursor", "fetch", "ping", "call", "commit", "rollback"}

\* oracleError(): the ORA codes of a dead session mean a lost connection
OraBroken == "lost"

OraConnect == Connects("oracle")

\* the rollback of close() depends on txOpen_; what OCILogoff does with other open work is
\* the server's business
OraClose ==
    /\ Closes("oracle", [conn EXCEPT !.slot = FALSE, !.asked = FALSE])
    /\ db' \in IF conn.tx THEN {db} ELSE {db, db \cup sess.dirty}

OraPrepare == Prepare("oracle", OraBroken)
OraSetPreparedCacheLimit == SetLimit("oracle")

OraStart ==
    /\ Starts("oracle", OraSlot)
    /\ call.op = "run" => KnownHandle
    /\ call.op = "fetch" => cur.at = "open"

OraPing ==
    /\ Calling("oracle", {"ping"}, "run")
    /\ Statement({}, OraBroken)

\* runStatement() in its three parts: prepare and bind; execute; describe, fetch and read
\* LOBs, which may fail after the statement took effect
OraBindFails ==
    \/ sess.up /\ Fails /\ Answer("err")
    \/ Lost /\ Answer(OraBroken)

OraExecutes(w) == Runs(w) /\ Answer("ok")

OraReadFails(w) == Runs(w) /\ Answer("err")

OraRunStatement(w) ==
    /\ Release(conn)
    /\ OraBindFails \/ OraExecutes(w) \/ OraReadFails(w)
    /\ UNCHANGED <<drv, killer, prep, cur, nat>>

OraQuery == Calling("oracle", {"query", "queryBound"}, "run") /\ OraRunStatement({})
OraExecute == Calling("oracle", {"execute", "executeBound"}, "run") /\ OraRunStatement(One(call.n))
OraExecuteKeys == Calling("oracle", {"executeKeys"}, "run") /\ OraRunStatement(One(call.n))
OraQueryEach == Calling("oracle", {"stream"}, "run") /\ OraRunStatement({})
OraQueryAll == Calling("oracle", {"queryAll"}, "run") /\ OraRunStatement({})
OraExecutePrepared == Calling("oracle", {"run"}, "run") /\ OraRunStatement(One(call.n))

\* call(): the parameters are expanded and bound, the block runs, the out parameters and
\* REF CURSORs are read; only a call that got to its end counts as an open transaction
OraCallBindFails == Release(conn) /\ OraBindFails

OraCallRuns ==
    \/ Release([conn EXCEPT !.tx = TRUE]) /\ OraExecutes(One(call.n))
    \/ Release(conn) /\ OraReadFails(One(call.n))

OraCall ==
    /\ Calling("oracle", {"call"}, "run")
    /\ OraCallBindFails \/ OraCallRuns
    /\ UNCHANGED <<drv, killer, prep, cur, nat>>

(***************************************************************************)
(* executeBatch() with array DML, and the base class's row by row form,    *)
(* which the driver falls back to (call.arg = 1).                          *)
(***************************************************************************)
OraBatchBegin ==
    /\ Calling("oracle", {"batch"}, "start")
    /\ conn.open
    /\ \/ Answer("err") /\ UNCHANGED conn
       \/ /\ conn' = [conn EXCEPT !.tx = TRUE]
          /\ \E place \in {"claim", "row"} :
               call' = [call EXCEPT !.at = place, !.own = ~conn.tx, !.arg = 0]
    /\ UNCHANGED <<drv, killer, prep, cur, nat, sess, db>>

OraBatchClaim ==
    /\ Calling("oracle", {"batch"}, "claim")
    /\ Claim
    /\ Go("rows")
    /\ UNCHANGED <<drv, killer, prep, cur, nat, sess, db>>

\* with batch errors collected (own transaction) the good rows run and the bad ones do not;
\* without, it stops at the first bad row
OraBatchRows ==
    /\ Calling("oracle", {"batch"}, "rows")
    /\ \/ Runs(Rows(call.n, BatchRows)) /\ Go("save")
       \/ \E done \in IF call.own THEN SUBSET Rows(call.n, BatchRows)
                                  ELSE {Rows(call.n, k) : k \in 0..BatchRows} :
            Runs(done) /\ call' = [call EXCEPT !.at = "undo", !.st = "err"]
       \/ Lost /\ call' = [call EXCEPT !.at = "undo", !.st = "lost"]
    /\ UNCHANGED <<drv, conn, killer, prep, cur, nat>>

\* rollback() clears the slot it claimed over the batch's own; the flag goes in any case
OraBatchUndo ==
    /\ Calling("oracle", {"batch"}, "undo")
    /\ IF call.own
       THEN /\ Undoes \/ UndoRefused \/ Lost
            /\ Release([conn EXCEPT !.tx = FALSE])
       ELSE Release(conn) /\ UNCHANGED <<sess, db>>
    /\ Answer(call.st)
    /\ UNCHANGED <<drv, killer, prep, cur, nat>>

\* a failed commit() is not followed by a rollback
OraBatchCommit ==
    /\ Calling("oracle", {"batch"}, "save")
    /\ IF call.own
       THEN /\ \/ Commits /\ Answer("ok")
               \/ Refuses /\ Answer("err")
               \/ CommitLost /\ Answer("lost")
            /\ Release([conn EXCEPT !.tx = FALSE])
       ELSE Release(conn) /\ Answer("ok") /\ UNCHANGED <<sess, db>>
    /\ UNCHANGED <<drv, killer, prep, cur, nat>>

\* IDatabaseConnection::executeBatch: one execute() per row, each claiming the slot
BaseBatchClaim ==
    /\ Calling("oracle", {"batch"}, "row")
    /\ Claim
    /\ Go("rowRun")
    /\ UNCHANGED <<drv, killer, prep, cur, nat, sess, db>>

BaseBatchRow ==
    /\ Calling("oracle", {"batch"}, "rowRun")
    /\ Release(conn)
    /\ LET w == {<<call.n, call.arg + 1>>}
       IN  \/ Runs(w) /\ call' = [call EXCEPT !.arg = @ + 1,
                                              !.at = IF call.arg + 1 = BatchRows THEN "baseSave" ELSE "row"]
           \/ Runs(w) /\ call' = [call EXCEPT !.at = "baseUndo", !.st = "err"]
           \/ sess.up /\ Fails /\ call' = [call EXCEPT !.at = "baseUndo", !.st = "err"]
           \/ Lost /\ call' = [call EXCEPT !.at = "baseUndo", !.st = "lost"]
    /\ UNCHANGED <<drv, killer, prep, cur, nat>>

BaseBatchEnd ==
    \/ /\ Calling("oracle", {"batch"}, "baseUndo")
       /\ IF call.own
          THEN (Undoes \/ UndoRefused \/ Lost) /\ conn' = [conn EXCEPT !.tx = FALSE]
          ELSE UNCHANGED <<conn, sess, db>>
       /\ Answer(call.st)
       /\ UNCHANGED <<drv, killer, prep, cur, nat>>
    \/ /\ Calling("oracle", {"batch"}, "baseSave")
       /\ IF call.own
          THEN /\ \/ Commits /\ Answer("ok")
                  \/ Refuses /\ call' = [call EXCEPT !.at = "baseUndo", !.st = "err"]
                  \/ CommitLost /\ call' = [call EXCEPT !.at = "baseUndo", !.st = "lost"]
               /\ conn' = [conn EXCEPT !.tx = FALSE]
          ELSE Answer("ok") /\ UNCHANGED <<conn, sess, db>>
       /\ UNCHANGED <<drv, killer, prep, cur, nat>>

(***************************************************************************)
(* Cursors.                                                                *)
(***************************************************************************)
\* OracleResultReader::setup(): the columns of a statement that ran are described and
\* defined, or cannot be
OraSetupResult ==
    \/ cur' = [NoCursor EXCEPT !.at = "open"] /\ Answer("ok")
    \/ UNCHANGED cur /\ Answer("err")

OraOpenCursor ==
    /\ Calling("oracle", {"cursor"}, "run")
    /\ Release(conn)
    /\ \/ Runs({}) /\ OraSetupResult
       \/ sess.up /\ Fails /\ UNCHANGED cur /\ Answer("err")
       \/ Lost /\ UNCHANGED cur /\ Answer("lost")
    /\ UNCHANGED <<drv, killer, prep, nat>>

OraFetchOne ==
    \/ /\ sess.up /\ Answer("ok") /\ UNCHANGED <<sess, db>>
       /\ \E at \in {"open", "eof"} : cur' = [cur EXCEPT !.at = at]
    \/ sess.up /\ Fails /\ Answer("err") /\ UNCHANGED cur
    \/ Lost /\ Answer(OraBroken) /\ UNCHANGED cur

OraCursorFetch ==
    \/ /\ Calling("oracle", {"fetch"}, "run")
       /\ Release(conn)
       /\ OraFetchOne
       /\ UNCHANGED <<drv, killer, prep, nat>>
    \/ /\ Calling("oracle", {"fetch"}, "start")
       /\ cur.at # "open"
       /\ Answer("ok")
       /\ UNCHANGED <<drv, conn, killer, prep, cur, nat, sess, db>>

OraCursorClose ==
    /\ Calling("oracle", {"closeCursor"}, "start")
    /\ cur' = NoCursor
    /\ \E st \in {"ok", "err"} : Answer(st)
    /\ UNCHANGED <<drv, conn, killer, prep, nat, sess, db>>

(***************************************************************************)
(* Transactions.                                                           *)
(***************************************************************************)
OraBegin ==
    /\ Calling("oracle", {"begin"}, "start")
    /\ conn.open
    /\ \/ Answer("err") /\ UNCHANGED <<conn, sess, db>>
       \/ Lost /\ Answer("lost") /\ UNCHANGED conn
       \/ Answer("ok") /\ conn' = [conn EXCEPT !.tx = TRUE] /\ UNCHANGED <<sess, db>>
    /\ UNCHANGED <<drv, killer, prep, cur, nat>>

OraCommit ==
    /\ Calling("oracle", {"commit"}, "run")
    /\ \/ Commits /\ Answer("ok")
       \/ Refuses /\ Answer("err")
       \/ CommitLost /\ Answer("lost")
    /\ Release([conn EXCEPT !.tx = FALSE])
    /\ UNCHANGED <<drv, killer, prep, cur, nat>>

OraRollback ==
    /\ Calling("oracle", {"rollback"}, "run")
    /\ \/ Undoes /\ Answer("ok")
       \/ UndoRefused /\ Answer("err")
       \/ Lost /\ Answer("lost")
    /\ Release([conn EXCEPT !.tx = FALSE])
    /\ UNCHANGED <<drv, killer, prep, cur, nat>>

\* savepoints run without the slot; RELEASE does nothing
OraSavepoint ==
    /\ Calling("oracle", {"savepoint", "release", "rollbackTo"}, "start")
    /\ \/ conn.tx /\ call.op # "release" /\ Savepoint(call.op) /\ Answer("ok")
       \/ conn.tx /\ call.op = "release" /\ Answer("ok") /\ UNCHANGED <<sess, db>>
       \/ Answer("err") /\ UNCHANGED <<sess, db>>
       \/ conn.tx /\ call.op # "release" /\ Lost /\ Answer("lost")
    /\ UNCHANGED <<drv, conn, killer, prep, cur, nat>>

\* cancel() gives the mutex back before it raises cancelRequested_ and breaks
OraCancelLook == Looks("oracle", "seen") \/ NothingToCancel("oracle")
OraCancelBreak == \E sent \in BOOLEAN : Interrupts("oracle", "seen", [conn EXCEPT !.asked = sent])

(***************************************************************************)
(* queryAsync(), executeAsync() and the stages of an operation.            *)
(***************************************************************************)
OraAsync ==
    /\ Calling("oracle", {"native"}, "start")
    /\ \/ Answer("declined") /\ UNCHANGED <<conn, nat>>
       \/ /\ conn.open /\ ~conn.slot
          /\ IF nat.stop THEN Enqueue("abort") ELSE Enqueue("prepare")
          /\ ClaimFresh
          /\ Answer("accepted")
    /\ UNCHANGED <<drv, killer, prep, cur, sess, db>>

\* a failure after cancel() resets the session; when that fails the connection is broken
OraFinishFailure ==
    /\ Release([conn EXCEPT !.asked = FALSE])
    /\ \/ /\ sess.up /\ Fails
          /\ \E st \in {"err"} \cup {x \in {OraBroken} : conn.asked} :
               nat' = [nat EXCEPT !.at = "done", !.st = st]
       \/ Lost /\ nat' = [nat EXCEPT !.at = "done", !.st = OraBroken]

OraStepPrepare ==
    /\ drv = "oracle"
    /\ \/ nat.at = "abort" /\ PollComplete("err") /\ UNCHANGED <<sess, db>>
       \/ nat.at = "prepare" /\ PollAgain("execute") /\ UNCHANGED <<sess, db>>
       \/ nat.at = "prepare" /\ OraFinishFailure
    /\ UNCHANGED <<drv, call, killer, prep, cur>>

OraStepExecute ==
    /\ drv = "oracle"
    /\ nat.at = "execute"
    /\ \/ nat.n # 0 /\ Runs(One(nat.n)) /\ \E st \in {"ok", "err"} : PollComplete(st)
       \/ nat.n = 0 /\ Runs({}) /\ PollAgain("fetch")
       \/ nat.stop /\ PollAgain("execute") /\ UNCHANGED <<sess, db>>
       \/ OraFinishFailure
    /\ UNCHANGED <<drv, call, killer, prep, cur>>

OraStepFetch ==
    /\ drv = "oracle"
    /\ nat.at = "fetch"
    /\ \/ nat.stop /\ PollAgain("fetch") /\ UNCHANGED <<sess, db>>
       \/ sess.up /\ PollComplete("ok") /\ UNCHANGED <<sess, db>>
       \/ OraFinishFailure
    /\ UNCHANGED <<drv, call, killer, prep, cur>>

OraNext ==
    \/ OraConnect \/ OraClose \/ OraPrepare \/ OraSetPreparedCacheLimit \/ OraStart \/ OraPing
    \/ OraQuery \/ OraExecute \/ OraExecuteKeys \/ OraQueryEach \/ OraQueryAll
    \/ OraExecutePrepared \/ OraCall \/ OraBatchBegin \/ OraBatchClaim \/ OraBatchRows
    \/ OraBatchUndo \/ OraBatchCommit \/ BaseBatchClaim \/ BaseBatchRow \/ BaseBatchEnd
    \/ OraOpenCursor \/ OraCursorFetch \/ OraCursorClose \/ OraBegin \/ OraCommit \/ OraRollback
    \/ OraSavepoint \/ OraCancelLook \/ OraCancelBreak \/ OraAsync
    \/ OraStepPrepare \/ OraStepExecute \/ OraStepFetch
    \/ BadHandle("oracle")
================================================================================
