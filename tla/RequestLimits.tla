----------------------------- MODULE RequestLimits -----------------------------
(***************************************************************************)
(* Three small objects that concurrent requests share: the token buckets   *)
(* of RateLimiter, the cursor budget of a data source, and the page put    *)
(* together from the answers of a data and a count query.  None reads the  *)
(* state of another, so each has its own next-state relation.              *)
(***************************************************************************)
EXTENDS Integers, FiniteSets, Sequences

CONSTANTS
    Thread,       \* threads that ask for tokens or for cursors
    Fingerprint,  \* statement fingerprints, positive numbers
    Part,         \* parts a token is counted in
    Burst,        \* tokens a bucket holds
    Rate,         \* parts a bucket gains per unit of time
    FpCap,        \* kFpCap, the number of fingerprints that have a bucket
    MaxTime,      \* bound on time
    Limits,       \* values of max_open_cursors
    MaxInt,       \* the largest 64-bit integer
    Tables        \* numbers of rows the paged statement may have

ASSUME LimitsAssumption ==
    /\ IsFiniteSet(Thread)
    /\ 0 \notin Fingerprint
    /\ Part \in Nat \ {0} /\ Burst \in Nat /\ Rate \in Nat
    /\ FpCap \in Nat /\ MaxTime \in Nat
    /\ Limits \subseteq Int
    /\ MaxInt \in Nat \ {0}
    /\ Tables \subseteq Nat

VARIABLES
    now,     \* steady_clock
    bucket,  \* per bucket: tokens_ (in parts), last_, and when it granted
    asking,  \* per thread: its place in RateLimiter::acquire
    limit,   \* CursorBudgetState::limit
    open,    \* CursorBudgetState::open
    cursor,  \* per thread: its place in cursorBudgetAcquire
    table,   \* rows the paged statement has
    page     \* PendingPage with what the caller and the queries know

rateVars == <<now, bucket, asking>>
cursorVars == <<limit, open, cursor>>
pageVars == <<table, page>>

--------------------------------------------------------------------------------
\* RateLimiter.  Bucket 0 is global_, the others are fpBuckets_.

NewBucket == [tokens |-> Burst * Part, last |-> now, granted |-> <<>>]

Silent == [at |-> "idle", fp |-> 0]

\* Mutant: tokens pile up beyond the burst.
RefillUncapped(b) == b.tokens + (now - b.last) * Rate

Refill(b) ==
    LET tokens == b.tokens + (now - b.last) * Rate
    IN  IF tokens > Burst * Part THEN Burst * Part ELSE tokens

\* tryAcquire(): the bucket afterwards; it has granted when `granted` grew
TryAcquire(b) ==
    IF Refill(b) >= Part
    THEN [tokens |-> Refill(b) - Part, last |-> now, granted |-> Append(b.granted, now)]
    ELSE [b EXCEPT !.tokens = Refill(b), !.last = now]

Grants(b) == Refill(b) >= Part

\* acquire(fp): the global bucket first, if there is one; fp is 0 when
\* statements have no fingerprint
AcquireGlobal(t, fp) ==
    LET passes == 0 \in DOMAIN bucket => Grants(bucket[0])
    IN  /\ asking[t].at = "idle"
        /\ bucket' = [b \in DOMAIN bucket |->
                         IF b = 0 THEN TryAcquire(bucket[b]) ELSE bucket[b]]
        /\ asking' = IF passes /\ fp # 0
                     THEN [asking EXCEPT ![t] = [at |-> "map", fp |-> fp]]
                     ELSE asking
        /\ UNCHANGED now

\* under mapMtx_: find or make the bucket; beyond the cap there is none and
\* the call is let through
FindBucket(t) ==
    LET fp == asking[t].fp
        full == Cardinality(DOMAIN bucket \ {0}) >= FpCap
    IN  /\ asking[t].at = "map"
        /\ bucket' = IF fp \in DOMAIN bucket \/ full THEN bucket
                     ELSE [f \in DOMAIN bucket \cup {fp} |->
                              IF f = fp THEN NewBucket ELSE bucket[f]]
        /\ asking' = [asking EXCEPT ![t] = IF fp \notin DOMAIN bucket /\ full
                                           THEN Silent
                                           ELSE [@ EXCEPT !.at = "take"]]
        /\ UNCHANGED now

AcquireFingerprint(t) ==
    /\ asking[t].at = "take"
    /\ bucket' = [bucket EXCEPT ![asking[t].fp] = TryAcquire(@)]
    /\ asking' = [asking EXCEPT ![t] = Silent]
    /\ UNCHANGED now

Tick ==
    /\ now < MaxTime
    /\ now' = now + 1
    /\ UNCHANGED <<bucket, asking>>

RateInit ==
    /\ now = 0
    /\ \E global \in SUBSET {0} : bucket = [b \in global |-> NewBucket]
    /\ asking = [t \in Thread |-> Silent]

RateNext ==
    \/ Tick
    \/ \E t \in Thread :
         \/ \E fp \in Fingerprint \cup {0} : AcquireGlobal(t, fp)
         \/ FindBucket(t)
         \/ AcquireFingerprint(t)

RateSpec == RateInit /\ [][RateNext]_rateVars

--------------------------------------------------------------------------------
\* The cursor budget

NoCursor == [at |-> "idle", seen |-> 0, lease |-> FALSE]
Trying(seen) ==
    IF seen < limit THEN [at |-> "cas", seen |-> seen, lease |-> FALSE] ELSE NoCursor

\* loads limit and open; without a limit the cursor opens and has no lease
LoadBudget(t) ==
    /\ cursor[t].at = "idle"
    /\ cursor' = [cursor EXCEPT ![t] = IF limit <= 0 THEN [@ EXCEPT !.at = "open"]
                                       ELSE Trying(open)]
    /\ UNCHANGED <<limit, open>>

\* Mutant: the new value is stored, not compared and exchanged.
ExchangeStored(t) ==
    /\ cursor[t].at = "cas"
    /\ open' = cursor[t].seen + 1
    /\ cursor' = [cursor EXCEPT ![t] = [@ EXCEPT !.at = "open", !.lease = TRUE]]
    /\ UNCHANGED limit

\* compare_exchange_weak: takes a place, or sees another value, or fails
\* without a reason; after a failure the loop looks at the value it saw
Exchange(t) ==
    /\ cursor[t].at = "cas"
    /\ \/ /\ open = cursor[t].seen
          /\ open' = open + 1
          /\ cursor' = [cursor EXCEPT ![t] = [@ EXCEPT !.at = "open", !.lease = TRUE]]
       \/ /\ cursor' = [cursor EXCEPT ![t] = Trying(open)]
          /\ UNCHANGED open
    /\ UNCHANGED limit

\* the cursor is destroyed, or was never made: the lease gives its place back
DropLease(t) ==
    /\ cursor[t].at = "open"
    /\ open' = IF cursor[t].lease THEN open - 1 ELSE open
    /\ cursor' = [cursor EXCEPT ![t] = NoCursor]
    /\ UNCHANGED limit

CursorInit ==
    /\ limit \in Limits
    /\ open = 0
    /\ cursor = [t \in Thread |-> NoCursor]

CursorNext == \E t \in Thread : LoadBudget(t) \/ Exchange(t) \/ DropLease(t)

CursorSpec == CursorInit /\ [][CursorNext]_cursorVars

--------------------------------------------------------------------------------
\* A page.  Rows are their positions 1..table in the ordered result; the data
\* query is given an offset and a number of rows to fetch.

\* the integer division of C++, which rounds towards zero
Quotient(a, b) == IF a >= 0 THEN a \div b ELSE -((-a) \div b)
\* 64-bit addition: what overflows comes out negative
Wrapped(x) == IF x > MaxInt THEN x - 2 * (MaxInt + 1) ELSE x

InvalidPage(n, size) ==
    \/ n < 1 \/ size < 1 \/ size = MaxInt
    \/ n - 1 > Quotient(MaxInt - size - 1, size)

\* what the added clause binds
Offset(n, size) == (n - 1) * size
Fetched(size) == Wrapped(size + 1)

\* the positions of the page itself
Window(n, size) == {r \in 1 .. table : Offset(n, size) < r /\ r <= Offset(n, size) + size}

\* a database's answer to the data query; a negative number is an error
Fetch(n, size) ==
    IF Fetched(size) < 0 THEN {}
    ELSE {r \in 1 .. table : Offset(n, size) < r /\ r <= Offset(n, size) + Fetched(size)}

NoPage == [at |-> "idle", n |-> 0, size |-> 0, counting |-> FALSE, pending |-> 0,
           done |-> FALSE, ok |-> TRUE, mode |-> "native", rows |-> {}, more |-> FALSE,
           total |-> FALSE, asked |-> {}, answers |-> {}, delivered |-> 0]

\* finishPageRows(): an error has no content; a row too many means a next page
FinishPageRows(p) ==
    IF p.ok
    THEN [p EXCEPT !.more = Cardinality(p.rows) > p.size,
                   !.rows = {r \in p.rows : r <= Offset(p.n, p.size) + p.size}]
    ELSE [p EXCEPT !.rows = {}, !.more = FALSE, !.total = FALSE]

Deliver(p) == [FinishPageRows(p) EXCEPT !.delivered = @ + 1]

\* readPageTotal() takes one nonnegative integer; anything else is an error
CountAnswer == {"ok", "failed", "malformed"}
DataAnswer == {"ok", "failed"}

\* the answer of one query goes into the page; a database refuses to fetch a
\* negative number of rows
Take(p, query, answer) ==
    LET ok == answer = "ok" /\ (query = "data" => Fetched(p.size) >= 0)
    IN  CASE ~ok -> [p EXCEPT !.ok = FALSE]
          [] ok /\ query = "data" -> [p EXCEPT !.ok = TRUE, !.rows = Fetch(p.n, p.size)]
          [] ok /\ query = "count" -> [p EXCEPT !.ok = TRUE, !.total = TRUE]

Requests == {[NoPage EXCEPT !.n = n, !.size = size, !.counting = counting] :
                n \in -1 .. MaxInt, size \in -1 .. MaxInt, counting \in BOOLEAN}
Refused == {p \in Requests : InvalidPage(p.n, p.size)}

\* preparePage() refuses; nothing is asked
RefusePage ==
    /\ page.at = "idle"
    /\ \E p \in Refused : page' = Deliver([p EXCEPT !.at = "refused", !.ok = FALSE])
    /\ UNCHANGED table

\* runPage(): the queries one after the other, on the caller's thread
RunPage ==
    /\ page.at = "idle"
    /\ \E p \in Requests \ Refused, data \in DataAnswer, count \in CountAnswer :
         LET first == Take([p EXCEPT !.at = "asked"], "data", data)
         IN  page' = Deliver(IF first.ok /\ p.counting THEN Take(first, "count", count)
                             ELSE first)
    /\ UNCHANGED table

\* queryPageRawAsync(): the data query is issued, and its answer may come
\* before the count query is
AskData ==
    /\ page.at = "idle"
    /\ \E p \in Requests \ Refused :
         page' = [p EXCEPT !.at = "asking", !.asked = {"data"},
                           !.pending = IF p.counting THEN 2 ELSE 1]
    /\ UNCHANGED table

AskCount ==
    /\ page.at = "asking"
    /\ page' = [page EXCEPT !.at = "asked",
                            !.asked = @ \cup (IF page.counting /\ ~page.done THEN {"count"} ELSE {})]
    /\ UNCHANGED table

Record(p, query, mode) == [p EXCEPT !.answers = @ \cup {[query |-> query, mode |-> mode]}]

\* Mutant: an answer after an early error is taken like any other.
AcceptTwice(p, query, answer, mode) ==
    LET taken == [Take(p, query, answer) EXCEPT
                    !.mode = IF mode = "fallback" THEN mode ELSE @, !.pending = @ - 1]
    IN  IF taken.ok /\ taken.pending > 0 THEN taken
        ELSE Deliver([taken EXCEPT !.done = TRUE,
                                   !.mode = IF taken.pending > 0 THEN "fallback" ELSE @])

\* PendingPage::accept()
Accept(p, query, answer, mode) ==
    LET taken == [Take(p, query, answer) EXCEPT
                    !.mode = IF mode = "fallback" THEN mode ELSE @, !.pending = @ - 1]
    IN  CASE p.done -> p
          [] ~p.done /\ taken.ok /\ taken.pending > 0 -> taken
          [] OTHER -> Deliver([taken EXCEPT
                         !.done = TRUE,
                         !.mode = IF taken.pending > 0 THEN "fallback" ELSE @])

Answer ==
    /\ \E query \in page.asked \ {a.query : a \in page.answers}, mode \in {"native", "fallback"} :
         \E answer \in IF query = "data" THEN DataAnswer ELSE CountAnswer :
            page' = Record(Accept(page, query, answer, mode), query, mode)
    /\ UNCHANGED table

PageInit == table \in Tables /\ page = NoPage
PageNext == RefusePage \/ RunPage \/ AskData \/ AskCount \/ Answer
PageSpec == PageInit /\ [][PageNext]_pageVars

--------------------------------------------------------------------------------
(***************************************************************************)
(* Properties                                                              *)
(***************************************************************************)

\* Whatever the arrival of calls, no bucket of RateLimiter grants more in any
\* stretch of time than its burst and what flows in during that stretch: the
\* time a bucket stays idle is not saved up beyond the burst, and threads that
\* meet in acquire() do not count the same stretch twice.
RateBound ==
    \A b \in DOMAIN bucket :
        \A j \in DOMAIN bucket[b].granted : \A i \in 1 .. j :
            LET g == bucket[b].granted
            IN  (j - i + 1) * Part <= Burst * Part + Rate * (g[j] - g[i])

\* The counter behind max_open_cursors is the number of leases that are out,
\* and never passes the limit, although cursorBudgetAcquire() looks at it and
\* increments it in two steps while other threads open and close cursors.
CursorBudget ==
    /\ open = Cardinality({t \in Thread : cursor[t].lease})
    /\ limit > 0 => open <= limit

\* A page is delivered once: not twice when both queries fail, not before the
\* answers it needs, and not never when the data query answers before the count
\* query is asked.  It is called native only if every query it asked was answered
\* natively.  Delivered without an error it holds the rows of its window, tells
\* whether rows follow, and has a total exactly if one was asked for; and
\* preparePage() refuses exactly the requests whose last row, or the row after
\* it, has a position beyond 64 bits.
PageDelivered ==
    LET last == Offset(page.n, page.size) + page.size
    IN  /\ page.delivered <= 1
        /\ page.at = "asked" /\ page.asked = {a.query : a \in page.answers}
             => page.delivered = 1
        /\ page.delivered > 0 =>
             /\ page.mode = "native" => \A a \in page.answers : a.mode = "native"
             /\ page.ok => /\ page.rows = Window(page.n, page.size)
                           /\ page.more = (table > last)
                           /\ page.total = page.counting
             /\ page.at = "refused" <=> page.n < 1 \/ page.size < 1 \/ last + 1 > MaxInt
================================================================================
