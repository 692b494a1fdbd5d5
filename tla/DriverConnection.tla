--------------------------- MODULE DriverConnection ---------------------------
(***************************************************************************)
(* One physical database connection, as the four drivers keep it: the      *)
(* state IDatabaseConnection hides behind its virtual functions, the call  *)
(* its owner is making, the thread that may cancel that call, the driver's *)
(* asynchronous reactor, and the server at the other end (external).       *)
(*                                                                         *)
(* A call is made by setting "call" to [op, at |-> "start"]; the driver    *)
(* modules answer it in one or several steps and leave it at "returned"    *)
(* with a status, "ok", "err" or "lost" (connectionBroken).                *)
(***************************************************************************)
EXTENDS Naturals, Sequences, FiniteSets

CONSTANTS
    MaxWrites,      \* bound: calls that write, in one behaviour
    BatchRows,      \* rows of a batch
    Keys            \* statement texts (with their type signature) to prepare, numbered

VARIABLES
    drv,            \* the driver: "mysql", "postgres", "odbc" or "oracle"
    conn,           \* the connection object
    call,           \* the call of the owning thread
    killer,         \* the thread inside cancel()
    prep,           \* the prepared-statement cache
    cur,            \* the driver's cursor object
    nat,            \* the native asynchronous operation in the reactor
    sess,           \* external: the session at the server
    db              \* external: the writes the database has committed

connVars == <<drv, conn, call, killer, prep, cur, nat, sess, db>>

(* Writes are named by the call that asked for them: <<n, 0>> is the one of *)
(* the nth writing call when it is a single statement, <<n, r>> the one of  *)
(* row r of its batch; a call that only reads has n = 0.                    *)
Work == (1..MaxWrites) \X (0..BatchRows)
One(n) == {<<n, 0>>} \cap Work
Rows(n, k) == {<<n, r>> : r \in 1..k}

NoCall == [op |-> "none", at |-> "idle", n |-> 0, arg |-> 0, own |-> FALSE, st |-> "ok"]
NoPrep == [lru |-> <<>>, id |-> [k \in Keys |-> 0], byId |-> {}, live |-> {}, seq |-> 0, limit |-> 0]
NoCursor == [at |-> "none", own |-> FALSE]
NoNative == [at |-> "none", n |-> 0, st |-> "ok", stop |-> FALSE]

NewConnection == [open |-> TRUE, tx |-> FALSE, slot |-> FALSE, asked |-> FALSE]

(* external: a session just logged on; Oracle has no autocommit mode, the  *)
(* other servers start in it                                               *)
NewSession == [up |-> TRUE, auto |-> drv # "oracle", tx |-> "none", dirty |-> {},
               unread |-> 0, sp |-> FALSE, saved |-> {}, doubt |-> FALSE]

(***************************************************************************)
(* The server (external).                                                  *)
(***************************************************************************)
InSync == sess.up /\ sess.unread = 0
InTx == sess.tx # "none" \/ ~sess.auto

\* who has results on the wire that nobody read (MySQL): the text protocol, the cursor,
\* or a cached statement
Text == 1
OfCursor == 2
OfStmt(id) == 2 + id

\* a statement that writes w is executed, and leaves results unread
RunsLeaving(w, unread) ==
    /\ InSync
    /\ sess.tx # "failed"
    /\ sess' = [sess EXCEPT !.dirty = IF InTx THEN @ \cup w ELSE @, !.unread = unread]
    /\ db' = IF InTx THEN db ELSE db \cup w

Runs(w) == RunsLeaving(w, 0)

\* a statement is refused; PostgreSQL then fails the transaction it was part of
Fails ==
    /\ sess' = IF drv = "postgres" /\ sess.tx = "open" THEN [sess EXCEPT !.tx = "failed"] ELSE sess
    /\ db' = db

\* the session is gone and what it had not committed with it
Drops(s) == [s EXCEPT !.up = FALSE, !.tx = "none", !.dirty = {}, !.unread = 0]

Lost == sess' = Drops(sess) /\ db' = db

\* the connection breaks after the statement ran: what it wrote outside a transaction stays
LostAfter(w) ==
    /\ InSync
    /\ sess.tx # "failed"
    /\ sess' = Drops(sess)
    /\ db' = IF InTx THEN db ELSE db \cup w

Ended == [sess EXCEPT !.tx = "none", !.dirty = {}]

(* COMMIT is answered with success, or refused: with the transaction       *)
(* undone by the server, or still open; or the connection breaks before or *)
(* after it took effect.  A MySQL server leaves no transaction open, but   *)
(* its client library refuses every command while it is out of sync.       *)
(* "doubt" remembers that an end of transaction was not answered with      *)
(* success.                                                                *)
CommitsTo(s) == InSync /\ sess.tx # "failed" /\ db' = db \cup sess.dirty /\ sess' = s
Commits == CommitsTo(Ended)
Refuses ==
    /\ sess.up
    /\ db' = db
    /\ \/ InSync /\ sess' = [Ended EXCEPT !.doubt = TRUE]
       \/ /\ sess.tx # "failed" /\ (drv = "mysql" => ~InSync)
          /\ sess' = [sess EXCEPT !.doubt = TRUE]
CommitLost ==
    /\ sess' = [Drops(sess) EXCEPT !.doubt = TRUE]
    /\ \/ db' = db
       \/ InSync /\ sess.tx # "failed" /\ db' = db \cup sess.dirty

Begun == [sess EXCEPT !.tx = "open", !.sp = FALSE, !.saved = {}]

Undoes == InSync /\ db' = db /\ sess' = Ended
UndoRefused ==
    /\ sess.up
    /\ drv = "mysql" => ~InSync
    /\ sess' = [sess EXCEPT !.doubt = TRUE]
    /\ db' = db

\* SAVEPOINT, RELEASE SAVEPOINT and ROLLBACK TO SAVEPOINT, of one savepoint
Savepoint(op) ==
    /\ InSync
    /\ op # "savepoint" => sess.sp
    /\ op # "rollbackTo" => sess.tx # "failed"
    /\ sess' = CASE op = "savepoint"  -> [sess EXCEPT !.sp = TRUE, !.saved = sess.dirty]
                 [] op = "release"    -> [sess EXCEPT !.sp = FALSE]
                 [] op = "rollbackTo" -> [sess EXCEPT !.dirty = sess.saved,
                                                      !.tx = IF @ = "failed" THEN "open" ELSE @]
    /\ db' = db

(***************************************************************************)
(* The call in progress.                                                   *)
(***************************************************************************)
Calling(d, ops, place) == drv = d /\ call.op \in ops /\ call.at = place

\* the slot the cancelling thread reads is guarded by operationMtx_ (activeStmtMtx_)
MutexFree == killer # "locked"

Go(place) == call' = [call EXCEPT !.at = place]
Answer(st) == call' = [call EXCEPT !.at = "returned", !.st = st]

\* the constructor of the driver's Active... guard, and its destructor at the return
Claim == MutexFree /\ conn' = [conn EXCEPT !.slot = TRUE]

\* a native operation also forgets an earlier cancelRequested_
ClaimFresh == MutexFree /\ conn' = [conn EXCEPT !.slot = TRUE, !.asked = FALSE]

Release(c) == MutexFree /\ conn' = [c EXCEPT !.slot = FALSE]

\* a function that claims the slot before it does anything else
Starts(d, ops) ==
    /\ Calling(d, ops, "start")
    /\ conn.open
    /\ Claim
    /\ Go("run")
    /\ UNCHANGED <<drv, killer, prep, cur, nat, sess, db>>

\* one statement inside such a function, after which the function returns; a broken
\* connection is reported as broken
Statement(w, broken) ==
    /\ Release(conn)
    /\ \/ Runs(w) /\ Answer("ok")
       \/ sess.up /\ Fails /\ Answer("err")
       \/ (Lost \/ LostAfter(w)) /\ Answer(broken)
    /\ UNCHANGED <<drv, killer, prep, cur, nat>>

(***************************************************************************)
(* The prepared-statement cache: preparedLru_, preparedCache_ and the map  *)
(* from handle ids, with the native statements the driver holds.           *)
(***************************************************************************)
\* the least recently used entries above the limit (0: none)
Over(p) == IF p.limit = 0 \/ Len(p.lru) <= p.limit THEN 0 ELSE Len(p.lru) - p.limit
Oldest(p) == {p.lru[i] : i \in 1..Over(p)}

\* Mutant: the ids of the dropped statements are still known.
EvictKeepsHandles(p, kept) ==
    [p EXCEPT !.lru = SubSeq(@, Over(p) + 1, Len(@)),
              !.id = [k \in Keys |-> IF k \in Oldest(p) THEN 0 ELSE @[k]],
              !.live = @ \ ({p.id[k] : k \in Oldest(p)} \ kept)]

\* They are forgotten and their native statements released, all but those of "kept".
Evict(p, kept) ==
    LET ids == {p.id[k] : k \in Oldest(p)}
    IN  [p EXCEPT !.lru = SubSeq(@, Over(p) + 1, Len(@)),
                  !.id = [k \in Keys |-> IF k \in Oldest(p) THEN 0 ELSE @[k]],
                  !.byId = {b \in @ : b[1] \notin ids},
                  !.live = @ \ (ids \ kept)]

\* MySQL's mysql_stmt_close() frees the statement whatever it answers; the other three
\* ignore a release that failed, and the statement stays
Unreleased(p) == IF drv = "mysql" THEN {{}} ELSE SUBSET {p.id[k] : k \in Oldest(p)}

\* PostgreSQL releases with a statement, and one that is refused fails the transaction
EvictionLeaves(kept) ==
    IF kept # {} /\ drv = "postgres"
    THEN {IF sess.tx = "open" THEN [sess EXCEPT !.tx = "failed"] ELSE sess, Drops(sess)}
    ELSE {sess}

Insert(p, k) ==
    LET i == p.seq + 1
    IN  [p EXCEPT !.seq = i, !.lru = Append(@, k), !.id[k] = i,
                  !.byId = @ \cup {<<i, k>>}, !.live = @ \cup {i}]

Touch(p, k) == [p EXCEPT !.lru = Append(SelectSeq(@, LAMBDA x : x # k), k)]

\* closeAllPrepared(): nothing is left, the next id is still a new one
Cleared == [NoPrep EXCEPT !.seq = prep.seq, !.limit = prep.limit]

\* setPreparedCacheLimit(), which every borrower calls first
SetLimit(d) ==
    /\ Calling(d, {"limit"}, "start")
    /\ LET p == [prep EXCEPT !.limit = call.arg]
       IN  \E kept \in Unreleased(p) :
            prep' = Evict(p, kept) /\ sess' \in EvictionLeaves(kept)
    /\ Answer("ok")
    /\ UNCHANGED <<drv, conn, killer, cur, nat, db>>

\* prepare(): a cached statement is reused, a new one enters at the back and pushes out
\* the least recently used
Prepare(d, broken) ==
    /\ Calling(d, {"prepare"}, "start")
    /\ conn.open
    /\ LET k == call.arg IN
        \/ prep.id[k] # 0 /\ prep' = Touch(prep, k) /\ Answer("ok") /\ UNCHANGED <<sess, db>>
        \/ /\ prep.id[k] = 0 /\ InSync /\ sess.tx # "failed" /\ db' = db
           /\ \E kept \in Unreleased(Insert(prep, k)) :
                prep' = Evict(Insert(prep, k), kept) /\ sess' \in EvictionLeaves(kept)
           /\ Answer("ok")
        \/ prep.id[k] = 0 /\ sess.up /\ Fails /\ prep' = prep /\ Answer("err")
        \/ prep.id[k] = 0 /\ Lost /\ prep' = prep /\ Answer(broken)
    /\ UNCHANGED <<drv, conn, killer, cur, nat>>

\* executePrepared() with a handle that is no longer known
BadHandle(d) ==
    /\ Calling(d, {"run"}, "start")
    /\ conn.open
    /\ \A b \in prep.byId : b[1] # call.arg
    /\ Answer("err")
    /\ UNCHANGED <<drv, conn, killer, prep, cur, nat, sess, db>>

KnownHandle == \E b \in prep.byId : b[1] = call.arg

(***************************************************************************)
(* What every driver's connect() and close() do.                           *)
(***************************************************************************)
\* connect() closes what was there and opens a new session, or fails with nothing open
Connects(d) ==
    /\ Calling(d, {"connect"}, "start")
    /\ prep' = NoPrep
    /\ cur' = NoCursor
    /\ \/ conn' = NewConnection /\ sess' = NewSession /\ Answer("ok")
       \/ conn' = [NewConnection EXCEPT !.open = FALSE] /\ sess' = Drops(NewSession) /\ Answer("err")
    /\ UNCHANGED <<drv, killer, nat, db>>

Closes(d, c) ==
    /\ Calling(d, {"close"}, "start")
    /\ conn' = [c EXCEPT !.open = FALSE, !.tx = FALSE]
    /\ prep' = Cleared
    /\ cur' = NoCursor
    /\ sess' = Drops(sess)
    /\ Answer("ok")
    /\ UNCHANGED <<drv, killer, nat>>

(***************************************************************************)
(* cancel() in its two halves: look at the slot, then interrupt.           *)
(***************************************************************************)
\* nothing is active: the function returns without doing anything
NothingToCancel(d) ==
    /\ drv = d
    /\ killer = "look"
    /\ ~conn.open \/ ~conn.slot
    /\ killer' = "idle"
    /\ UNCHANGED <<drv, conn, call, prep, cur, nat, sess, db>>

Looks(d, place) ==
    /\ drv = d
    /\ killer = "look"
    /\ conn.open
    /\ conn.slot
    /\ killer' = place
    /\ UNCHANGED <<drv, conn, call, prep, cur, nat, sess, db>>

Interrupts(d, place, c) ==
    /\ drv = d
    /\ killer = place
    /\ killer' = "idle"
    /\ conn' = c
    /\ UNCHANGED <<drv, call, prep, cur, nat, sess, db>>

(***************************************************************************)
(* PollingAsyncReactor, which ODBC and Oracle share: a step that is not    *)
(* complete goes to the back of the queue, unless the reactor is stopping. *)
(***************************************************************************)
Enqueue(stage) ==
    nat' = [nat EXCEPT !.at = stage, !.n = call.n, !.st = "ok"]

PollAgain(stage) ==
    IF nat.stop
    THEN nat' = [nat EXCEPT !.at = "dropped"] /\ Release(conn)
    ELSE nat' = [nat EXCEPT !.at = stage] /\ UNCHANGED conn

\* finish() of the operation: the slot is cleared, then the completion runs
PollComplete(st) == nat' = [nat EXCEPT !.at = "done", !.st = st] /\ Release(conn)

\* the destructor of the reactor (a static object) sets stopping_
ReactorStops ==
    /\ drv \in {"odbc", "oracle"}
    /\ ~nat.stop
    /\ nat' = [nat EXCEPT !.stop = TRUE]
    /\ UNCHANGED <<drv, conn, call, killer, prep, cur, sess, db>>
===============================================================================
