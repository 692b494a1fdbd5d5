--------------------------- MODULE ConnectionPool ---------------------------
(***************************************************************************)
(* core::ConnectionPool (src/core/connection_pool.cpp): synchronous and    *)
(* asynchronous borrowing, return, the heartbeat's health check, and       *)
(* shutdown.                                                               *)
(*                                                                         *)
(* One action is one critical section of State::mtx (or one piece of code  *)
(* between two of them), so a connection that is pinged, opened or closed  *)
(* outside the lock is a state of its own.  Time is abstracted: a deadline *)
(* may pass at any moment (Tick), a connection may be too old, stale or    *)
(* dead whenever the code looks at it, an attempt to connect may fail and  *)
(* the executor may reject a posted task.  Idle connections are therefore  *)
(* interchangeable and the idle queue is its length.  The deque of         *)
(* asynchronous waiters keeps its order: ahead[r] is the set of waiters in *)
(* front of r.                                                             *)
(***************************************************************************)
EXTENDS Integers, FiniteSets

CONSTANTS
    Thread,       \* callers of borrow()
    Request,      \* calls of borrowAsync()
    Cancellable,  \* borrowers that run under an OperationState
    Closer,       \* the thread that calls shutdown()
    MinConn,      \* minConn_
    MaxConn       \* maxConn_

Borrower == Thread \cup Request

ASSUME PoolAssumption ==
    /\ IsFiniteSet(Thread) /\ IsFiniteSet(Request)
    /\ Thread \cap Request = {}
    /\ Closer \notin Borrower
    /\ Cancellable \subseteq Borrower
    /\ MinConn \in Nat /\ MaxConn \in Nat /\ 1 <= MaxConn /\ MinConn <= MaxConn

VARIABLES
    pc,        \* where each borrower is
    total, borrowed, idle,  \* State::total, State::borrowed, State::idle.size()
    live,      \* physical connections open at the server (not a variable of the code)
    pooled, closed,  \* State::pooled, State::closed
    ahead,     \* State::asyncWaiters, as the order of its members
    asleep,    \* threads blocked on State::cv
    due,       \* borrowers whose deadline passed while they waited
    stopped,   \* borrowers whose operation was cancelled or timed out
    arming,    \* requests parked by a borrowAsync() that has not returned
    timers,    \* requests with a pending io.postAfter(expireWaiters)
    sweep,     \* an expireWaiters() task posted by a cancellation
    hb, hbLeft, hbNeed,     \* healthCheck(): its place, snapshot left, slots reserved
    shut,      \* shutdown(): its place
    halted     \* the executor behind the requests' AsyncIo is shut down

book == <<total, borrowed, idle, live>>
queue == <<ahead, arming, timers, sweep>>
clock == <<due, stopped>>
heart == <<hb, hbLeft, hbNeed>>
mode == <<pooled, closed, shut, halted>>
vars == <<pc, book, queue, clock, heart, mode, asleep>>

-----------------------------------------------------------------------------
(* Places of a borrower, by what it owns there.                            *)

Holding  == {"held", "granted"}                    \* a Handle
Reserved == {"create", "postCreate", "createTask"}  \* a slot, no connection yet
Checking == {"ping", "postPing", "validate", "dead"}  \* a slot and a connection
Closing  == {"closing", "discard"}                 \* a connection out of the books
Waiting  == {"wait", "parked"}
Free     == {"out", "loop", "enter", "lock", "unpooled", "postUnpooled",
             "unpooledTask", "failing", "refused", "dropped"}
Place    == Holding \cup Reserved \cup Checking \cup Closing \cup Waiting \cup Free

Slotted   == Holding \cup Reserved \cup Checking    \* counted in State::total
Connected == Holding \cup Checking \cup Closing     \* owns an open connection

At(places) == {b \in Borrower : pc[b] \in places}
\* How many borrowers are at places according to p.
Count(p, places) == Cardinality({b \in Borrower : p[b] \in places})

Parked == {r \in Request : pc[r] = "parked"}
\* Waiters that expireWaiters() takes out of the deque.
Expirable == Parked \cap (due \cup stopped)

\* "--n; if (n < 0) n = 0;" and "if (n > 0) --n;"
DecClamp(n) == IF n - 1 < 0 THEN 0 ELSE n - 1
DecPositive(n) == IF n > 0 THEN n - 1 ELSE n

Smaller(m, n) == IF m <= n THEN m ELSE n
Larger(m, n) == IF m >= n THEN m ELSE n

Goto(b, place) == pc' = [pc EXCEPT ![b] = place]

\* The deque without the members of gone.
Without(gone) ==
    ahead' = [r \in Request |-> IF r \in gone THEN {} ELSE ahead[r] \ gone]

\* cv.notify_one() and cv.notify_all().
NotifyOne == IF asleep = {} THEN asleep' = {} ELSE \E p \in asleep : asleep' = asleep \ {p}
NotifyAll == asleep' = {}

\* The constructor: warm-up stops at the first connection that cannot be opened.
Init ==
    /\ pc = [b \in Borrower |-> "out"]
    /\ pooled \in BOOLEAN
    /\ idle \in 0 .. (IF pooled THEN MinConn ELSE 0)
    /\ total = idle /\ live = idle /\ borrowed = 0
    /\ closed = FALSE /\ shut = "open" /\ halted = FALSE
    /\ ahead = [r \in Request |-> {}]
    /\ arming = {} /\ timers = {} /\ sweep = FALSE
    /\ asleep = {} /\ due = {} /\ stopped = {}
    /\ hb = "off" /\ hbLeft = 0 /\ hbNeed = 0

-----------------------------------------------------------------------------
(* borrow(), called by a thread.                                           *)

\* A new call of borrow() or borrowAsync(), under an operation of its own.
Borrow(b) ==
    /\ pc[b] = "out" /\ b \notin arming
    /\ Goto(b, IF b \in Thread THEN "loop" ELSE "enter")
    /\ stopped' = stopped \ {b}
    /\ UNCHANGED <<book, queue, due, heart, mode, asleep>>

\* The operation is stopped, or the pool is closed: borrow() returns no handle.
LoopRefused(t) ==
    /\ pc[t] = "loop" /\ (t \in stopped \/ closed)
    /\ Goto(t, "out")
    /\ UNCHANGED <<book, queue, clock, heart, mode, asleep>>

Looping(t) == pc[t] = "loop" /\ t \notin stopped /\ ~closed

LoopUnpooled(t) ==
    /\ Looping(t) /\ ~pooled
    /\ Goto(t, "unpooled")
    /\ UNCHANGED <<book, queue, clock, heart, mode, asleep>>

\* Pop an idle connection and look at it outside the lock.
LoopTakeIdle(t) ==
    /\ Looping(t) /\ pooled /\ idle > 0
    /\ idle' = idle - 1
    /\ Goto(t, "ping")
    /\ UNCHANGED <<total, borrowed, live, queue, clock, heart, mode, asleep>>

\* Mutant: the limit is not checked.
LoopReserveUnbounded(t) ==
    /\ Looping(t) /\ pooled /\ idle = 0
    /\ total' = total + 1
    /\ Goto(t, "create")
    /\ UNCHANGED <<borrowed, idle, live, queue, clock, heart, mode, asleep>>

\* Reserve a slot and connect outside the lock.
LoopReserve(t) ==
    /\ Looping(t) /\ pooled /\ idle = 0 /\ total < MaxConn
    /\ total' = total + 1
    /\ Goto(t, "create")
    /\ UNCHANGED <<borrowed, idle, live, queue, clock, heart, mode, asleep>>

\* The pool is full: a borrow with a zero timeout fails, any other one sleeps.
LoopFull(t) ==
    /\ Looping(t) /\ pooled /\ idle = 0 /\ total >= MaxConn
    /\ \/ Goto(t, "out") /\ UNCHANGED asleep
       \/ Goto(t, "wait") /\ asleep' = asleep \cup {t}
    /\ UNCHANGED <<book, queue, clock, heart, mode>>

\* wait_until() returns: notified, at the deadline, or (under an operation) after a
\* 10 ms poll.  Past the deadline the result is a timeout even for a notified thread.
Resume(t) ==
    /\ pc[t] = "wait"
    /\ t \notin asleep \/ t \in due \/ t \in Cancellable
    /\ asleep' = asleep \ {t}
    /\ Goto(t, IF t \in due THEN "out" ELSE "loop")
    /\ due' = due \ {t}
    /\ UNCHANGED <<book, queue, stopped, heart, mode>>

\* Mutant: the connection is not closed when the pool is.
PingAliveLeaks(t) ==
    /\ pc[t] = "ping"
    /\ \/ closed /\ UNCHANGED <<live, borrowed>> /\ Goto(t, "out")
       \/ ~closed /\ borrowed' = borrowed + 1 /\ UNCHANGED live /\ Goto(t, "held")
    /\ UNCHANGED <<total, idle, queue, clock, heart, mode, asleep>>

\* The idle connection is usable; it is closed if the pool was closed meanwhile.
PingAlive(t) ==
    /\ pc[t] = "ping"
    /\ \/ closed /\ live' = live - 1 /\ UNCHANGED borrowed /\ Goto(t, "out")
       \/ ~closed /\ borrowed' = borrowed + 1 /\ UNCHANGED live /\ Goto(t, "held")
    /\ UNCHANGED <<total, idle, queue, clock, heart, mode, asleep>>

\* The idle connection is dead or too old: it is closed before its slot is given up.
PingDead(t) ==
    /\ pc[t] = "ping"
    /\ live' = live - 1
    /\ total' = DecClamp(total)
    /\ NotifyOne
    /\ Goto(t, "loop")
    /\ UNCHANGED <<borrowed, idle, queue, clock, heart, mode>>

\* Connected; the new connection is closed if the pool was closed meanwhile.
ConnectOk(t) ==
    /\ pc[t] = "create"
    /\ \/ /\ closed
          /\ total' = total - 1
          /\ Goto(t, "out")
          /\ UNCHANGED <<borrowed, live>>
       \/ /\ ~closed
          /\ borrowed' = borrowed + 1
          /\ live' = live + 1
          /\ Goto(t, "held")
          /\ UNCHANGED total
    /\ UNCHANGED <<idle, queue, clock, heart, mode, asleep>>

\* Mutant: the reserved slot is not given up.
ConnectFailKeepsSlot(t) ==
    /\ pc[t] = "create"
    /\ NotifyOne
    /\ Goto(t, "out")
    /\ UNCHANGED <<total, borrowed, idle, live, queue, clock, heart, mode>>

ConnectFail(t) ==
    /\ pc[t] = "create"
    /\ total' = DecClamp(total)
    /\ NotifyOne
    /\ Goto(t, "out")
    /\ UNCHANGED <<borrowed, idle, live, queue, clock, heart, mode>>

\* Mutant: a connection opened while the pool was closed is not closed.
UnpooledLeaks(b, from, ok, ko) ==
    /\ pc[b] = from
    /\ \/ Goto(b, ko) /\ live' = live + (IF closed THEN 1 ELSE 0) /\ UNCHANGED <<total, borrowed, idle>>
       \/ /\ ~closed
          /\ total' = total + 1 /\ borrowed' = borrowed + 1 /\ live' = live + 1
          /\ Goto(b, ok)
          /\ UNCHANGED idle
    /\ UNCHANGED <<queue, clock, heart, mode, asleep>>

\* An unpooled connection, opened without a slot: counted only once it is handed out.
UnpooledConnect(b, from, ok, ko) ==
    /\ pc[b] = from
    /\ \/ Goto(b, ko) /\ UNCHANGED book
       \/ /\ ~closed
          /\ total' = total + 1 /\ borrowed' = borrowed + 1 /\ live' = live + 1
          /\ Goto(b, ok)
          /\ UNCHANGED idle
    /\ UNCHANGED <<queue, clock, heart, mode, asleep>>

-----------------------------------------------------------------------------
(* Handle::~Handle() and State::returnConn().                              *)

\* The connection is not kept: the pool is closed or unpooled, or the connection is
\* invalidated or too old.  Its slot is given up before it is closed.
ReturnRetire(b) ==
    /\ pc[b] = "held"
    /\ borrowed' = DecPositive(borrowed)
    /\ total' = DecPositive(total)
    /\ Goto(b, "closing")
    /\ UNCHANGED <<idle, live, queue, clock, heart, mode, asleep>>

\* Mutant: nobody is notified.
ReturnCloseSilent(b) ==
    /\ pc[b] = "closing"
    /\ live' = live - 1
    /\ Goto(b, "out")
    /\ UNCHANGED <<total, borrowed, idle, queue, clock, heart, mode, asleep>>

ReturnClose(b) ==
    /\ pc[b] = "closing"
    /\ live' = live - 1
    /\ NotifyOne
    /\ Goto(b, "out")
    /\ UNCHANGED <<total, borrowed, idle, queue, clock, heart, mode>>

Overdue == Parked \cap due

\* Mutant: the connection goes to any waiter, not to the front of the deque.
ReturnHandoffAny(b) ==
    /\ pc[b] = "held" /\ ~closed /\ pooled
    /\ \E w \in Parked \ Overdue :
          /\ borrowed' = DecPositive(borrowed) + 1
          /\ pc' = [x \in Borrower |-> CASE x = b -> "out"
                                         [] x = w -> "granted"
                                         [] x \in Overdue -> "dropped"
                                         [] OTHER -> pc[x]]
          /\ Without(Overdue \cup {w})
    /\ UNCHANGED <<total, idle, live, arming, timers, sweep, clock, heart, mode, asleep>>

\* The connection goes to the first waiter whose deadline has not passed.  The overdue
\* waiters have left the deque, and the early return skips the loop that completes them.
ReturnHandoff(b) ==
    /\ pc[b] = "held" /\ ~closed /\ pooled
    /\ \E w \in Parked \ Overdue :
          /\ ahead[w] \subseteq Overdue
          /\ borrowed' = DecPositive(borrowed) + 1
          /\ pc' = [x \in Borrower |-> CASE x = b -> "out"
                                         [] x = w -> "granted"
                                         [] x \in Overdue -> "dropped"
                                         [] OTHER -> pc[x]]
          /\ Without(Overdue \cup {w})
    /\ UNCHANGED <<total, idle, live, arming, timers, sweep, clock, heart, mode, asleep>>

\* No waiter is left: the connection becomes idle and a sleeping thread is notified.
ReturnIdle(b) ==
    /\ pc[b] = "held" /\ ~closed /\ pooled /\ Parked \subseteq due
    /\ borrowed' = DecPositive(borrowed)
    /\ idle' = idle + 1
    /\ pc' = [x \in Borrower |-> CASE x = b -> "out"
                                   [] x \in Overdue -> "refused"
                                   [] OTHER -> pc[x]]
    /\ Without(Overdue)
    /\ NotifyOne
    /\ UNCHANGED <<total, live, arming, timers, sweep, clock, heart, mode>>

-----------------------------------------------------------------------------
(* borrowAsync() and the tasks it posts.                                   *)

\* expireWaiters(): overdue and stopped waiters leave the deque and are completed with
\* an error; places is where every borrower is otherwise.
Expire(places) ==
    /\ pc' = [x \in Borrower |-> IF x \in Expirable THEN "refused" ELSE places[x]]
    /\ Without(Expirable)

\* Entry: expireWaiters(), then subscribe to the operation and look at it.
Enter(r) ==
    /\ pc[r] = "enter"
    /\ Expire([pc EXCEPT ![r] = IF r \in stopped THEN "refused" ELSE "lock"])
    /\ UNCHANGED <<book, arming, timers, sweep, clock, heart, mode, asleep>>

LockClosed(r) ==
    /\ pc[r] = "lock" /\ closed
    /\ Goto(r, "refused")
    /\ UNCHANGED <<book, queue, clock, heart, mode, asleep>>

LockUnpooled(r) ==
    /\ pc[r] = "lock" /\ ~closed /\ ~pooled
    /\ Goto(r, "postUnpooled")
    /\ UNCHANGED <<book, queue, clock, heart, mode, asleep>>

Locked(r) == pc[r] = "lock" /\ ~closed /\ pooled

\* The idle connection is too old: give its slot up, close it, start again.
LockOld(r) ==
    /\ Locked(r) /\ idle > 0
    /\ idle' = idle - 1
    /\ total' = DecClamp(total)
    /\ Goto(r, "discard")
    /\ UNCHANGED <<borrowed, live, queue, clock, heart, mode, asleep>>

\* The idle connection was validated recently: it is granted.
LockReady(r) ==
    /\ Locked(r) /\ idle > 0
    /\ idle' = idle - 1
    /\ borrowed' = borrowed + 1
    /\ Goto(r, "granted")
    /\ UNCHANGED <<total, live, queue, clock, heart, mode, asleep>>

\* The idle connection needs a ping, which a task on the executor does.
LockStale(r) ==
    /\ Locked(r) /\ idle > 0
    /\ idle' = idle - 1
    /\ Goto(r, "postPing")
    /\ UNCHANGED <<total, borrowed, live, queue, clock, heart, mode, asleep>>

LockReserve(r) ==
    /\ Locked(r) /\ idle = 0 /\ total < MaxConn
    /\ total' = total + 1
    /\ Goto(r, "postCreate")
    /\ UNCHANGED <<borrowed, idle, live, queue, clock, heart, mode, asleep>>

\* The pool is full: a zero timeout fails, any other request is parked at the back.
LockFull(r) ==
    /\ Locked(r) /\ idle = 0 /\ total >= MaxConn
    /\ \/ Goto(r, "refused") /\ UNCHANGED <<ahead, arming>>
       \/ /\ Goto(r, "parked")
          /\ ahead' = [ahead EXCEPT ![r] = Parked]
          /\ arming' = arming \cup {r}
    /\ UNCHANGED <<book, timers, sweep, clock, heart, mode, asleep>>

\* The end of borrowAsync() after parking: look at the operation again (it may have
\* been stopped before the request was in the deque), then arm the deadline.  An executor
\* that is shut down runs the delayed expireWaiters() at once.
Arm(r) ==
    /\ r \in arming
    /\ arming' = arming \ {r}
    /\ timers' = IF halted THEN timers ELSE timers \cup {r}
    /\ IF r \in stopped \/ halted THEN Expire(pc) ELSE UNCHANGED <<pc, ahead>>
    /\ UNCHANGED <<book, sweep, clock, heart, mode, asleep>>

\* Close the discarded connection and call borrowAsync() again.
Discard(r) ==
    /\ pc[r] = "discard"
    /\ live' = live - 1
    /\ Goto(r, "enter")
    /\ UNCHANGED <<total, borrowed, idle, queue, clock, heart, mode, asleep>>

\* io.post(validateTask): accepted, or rejected and the connection is put back.
PostPing(r) ==
    /\ pc[r] = "postPing"
    /\ \/ ~halted /\ Goto(r, "validate") /\ UNCHANGED <<total, idle, live>>
       \/ /\ Goto(r, "refused")
          /\ IF closed
                THEN total' = DecPositive(total) /\ live' = live - 1 /\ UNCHANGED idle
                ELSE idle' = idle + 1 /\ UNCHANGED <<total, live>>
    /\ UNCHANGED <<borrowed, queue, clock, heart, mode, asleep>>

\* validateTask after the ping: closed, alive or dead.
Validate(r) ==
    /\ pc[r] = "validate"
    /\ \/ closed /\ Goto(r, "refused") /\ live' = live - 1 /\ UNCHANGED borrowed
       \/ ~closed /\ Goto(r, "granted") /\ borrowed' = borrowed + 1 /\ UNCHANGED live
       \/ ~closed /\ Goto(r, "dead") /\ UNCHANGED <<borrowed, live>>
    /\ UNCHANGED <<total, idle, queue, clock, heart, mode, asleep>>

\* validateTask takes the lock a second time to give up a dead connection's slot.
DropDead(r) ==
    /\ pc[r] = "dead"
    /\ total' = DecClamp(total)
    /\ Goto(r, "discard")
    /\ UNCHANGED <<borrowed, idle, live, queue, clock, heart, mode, asleep>>

\* io.post(createTask): accepted, or rejected and the reserved slot is given up.
PostCreate(r) ==
    /\ pc[r] = "postCreate"
    /\ \/ ~halted /\ Goto(r, "createTask") /\ UNCHANGED total
       \/ Goto(r, "refused") /\ total' = DecPositive(total)
    /\ UNCHANGED <<borrowed, idle, live, queue, clock, heart, mode, asleep>>

\* createTask with a reserved slot: connected or not, the pool closed or not.
CreateTask(r) ==
    /\ pc[r] = "createTask"
    /\ \/ /\ Goto(r, "refused")
          /\ total' = IF closed THEN DecPositive(total) ELSE DecClamp(total)
          /\ UNCHANGED <<borrowed, live>>
       \/ /\ ~closed
          /\ Goto(r, "granted")
          /\ borrowed' = borrowed + 1
          /\ live' = live + 1
          /\ UNCHANGED total
    /\ UNCHANGED <<idle, queue, clock, heart, mode, asleep>>

PostUnpooled(r) ==
    /\ pc[r] = "postUnpooled"
    /\ \/ ~halted /\ Goto(r, "unpooledTask")
       \/ Goto(r, "refused")
    /\ UNCHANGED <<book, queue, clock, heart, mode, asleep>>

\* The completion runs: deliverBorrowResult() posts it as a continuation, or runs it
\* inline when the executor rejects it.
Complete(r) ==
    /\ pc[r] \in {"granted", "refused"}
    /\ Goto(r, IF pc[r] = "granted" THEN "held" ELSE "out")
    /\ due' = due \ {r} /\ stopped' = stopped \ {r}
    /\ UNCHANGED <<book, queue, heart, mode, asleep>>

-----------------------------------------------------------------------------
(* Time and cancellation.                                                  *)

\* The deadline of a waiting borrower passes.
Tick(b) ==
    /\ pc[b] \in Waiting /\ b \notin due
    /\ due' = due \cup {b}
    /\ UNCHANGED <<pc, book, queue, stopped, heart, mode, asleep>>

\* OperationState::stop(): a thread's subscription notifies the condition variable, a
\* request's one posts expireWaiters() as a continuation (lost if that is rejected).
Stop(b) ==
    /\ b \in Cancellable /\ b \notin stopped
    /\ stopped' = stopped \cup {b}
    /\ \/ /\ b \in Thread /\ pc[b] \in {"loop", "ping", "create", "unpooled", "wait"}
          /\ NotifyAll
          /\ UNCHANGED sweep
       \/ /\ b \in Request
          /\ pc[b] \in {"enter", "lock", "parked", "postPing", "validate", "dead", "discard"}
          /\ sweep' \in {sweep, sweep \/ (~halted /\ pc[b] \in {"lock", "parked", "postPing", "discard"})}
          /\ UNCHANGED asleep
    /\ UNCHANGED <<pc, book, ahead, arming, timers, due, heart, mode>>

\* Mutant: the timer does not call expireWaiters().
FireTimerIdle(r) ==
    /\ r \in timers /\ (pc[r] = "parked" => r \in due \/ halted)
    /\ timers' = timers \ {r}
    /\ UNCHANGED <<pc, book, ahead, arming, sweep, clock, heart, mode, asleep>>

\* A deadline timer fires: at the deadline, or at once when the executor shuts down and
\* runs its delayed tasks.  (It then finds r not due, like a timer left over from an
\* earlier wait of r.)
FireTimer(r) ==
    /\ r \in timers /\ (pc[r] = "parked" => r \in due \/ halted)
    /\ timers' = timers \ {r}
    /\ Expire(pc)
    /\ UNCHANGED <<book, arming, sweep, clock, heart, mode, asleep>>

Sweep ==
    /\ sweep
    /\ sweep' = FALSE
    /\ Expire(pc)
    /\ UNCHANGED <<book, arming, timers, clock, heart, mode, asleep>>

\* IExecutor::shutdown(), called by Client::shutdown() before it closes the pools.
Halt ==
    /\ ~halted
    /\ halted' = TRUE
    /\ UNCHANGED <<pc, book, queue, clock, heart, pooled, closed, shut, asleep>>

-----------------------------------------------------------------------------
(* healthCheck(), called by the heartbeat thread.                          *)

HbStart ==
    /\ hb = "off" /\ pooled
    /\ hb' = "count"
    /\ Expire(pc)
    /\ UNCHANGED <<book, arming, timers, sweep, clock, hbLeft, hbNeed, mode, asleep>>

HbCount ==
    /\ hb = "count"
    /\ hb' = "sweep" /\ hbLeft' = idle
    /\ UNCHANGED <<pc, book, queue, clock, hbNeed, mode, asleep>>

\* Pop one idle connection; it is retired only while there are more than minConn_.
HbTake ==
    /\ hb = "sweep" /\ hbLeft > 0 /\ ~closed /\ idle > 0
    /\ idle' = idle - 1
    /\ hb' \in {"check"} \cup (IF total > MinConn THEN {"retire"} ELSE {})
    /\ UNCHANGED <<pc, total, borrowed, live, queue, clock, hbLeft, hbNeed, mode, asleep>>

HbKeep ==
    /\ hb = "check" /\ ~closed
    /\ idle' = idle + 1
    /\ hb' = "sweep" /\ hbLeft' = hbLeft - 1
    /\ UNCHANGED <<pc, total, borrowed, live, queue, clock, hbNeed, mode, asleep>>

\* Retired, too old or dead, or the pool was closed meanwhile.
HbEvict ==
    /\ hb \in {"check", "retire"}
    /\ live' = live - 1
    /\ total' = DecClamp(total)
    /\ hb' = "sweep" /\ hbLeft' = hbLeft - 1
    /\ UNCHANGED <<pc, borrowed, idle, queue, clock, hbNeed, mode, asleep>>

\* Reserve the slots that are missing to minConn_.
HbRefill ==
    /\ hb = "sweep" /\ (hbLeft = 0 \/ closed \/ idle = 0)
    /\ hbLeft' = 0
    /\ IF closed
         THEN hb' = "off" /\ UNCHANGED <<total, hbNeed>>
         ELSE /\ hb' = "refill"
              /\ hbNeed' = Smaller(Larger(MinConn - total, 0), Larger(MaxConn - total, 0))
              /\ total' = total + hbNeed'
    /\ UNCHANGED <<pc, borrowed, idle, live, queue, clock, mode, asleep>>

\* fresh connections were opened; the slots of the others are given up.
HbRestore ==
    /\ hb = "refill"
    /\ \E fresh \in 0 .. hbNeed :
          /\ total' = Larger(total - (hbNeed - fresh), 0)
          /\ IF closed
               THEN UNCHANGED <<idle, live>>
               ELSE idle' = idle + fresh /\ live' = live + fresh
    /\ hb' = "expire" /\ hbNeed' = 0
    /\ NotifyAll
    /\ UNCHANGED <<pc, borrowed, queue, clock, hbLeft, mode>>

\* wakeAsyncWaiters(): expireWaiters(), then the waiters from the front of the deque
\* take the idle connections first and the free slots next.
HbExpire ==
    /\ hb = "expire"
    /\ hb' = "wake"
    /\ Expire(pc)
    /\ UNCHANGED <<book, arming, timers, sweep, clock, hbLeft, hbNeed, mode, asleep>>

HbWakeClosed ==
    /\ hb = "wake" /\ closed
    /\ hb' = "off"
    /\ UNCHANGED <<pc, book, queue, clock, hbLeft, hbNeed, mode, asleep>>

HbWake ==
    /\ hb = "wake" /\ ~closed
    /\ hb' = "off"
    /\ \E served \in SUBSET Parked : \E creates \in SUBSET (Parked \ served) :
          /\ Cardinality(served) = Smaller(Cardinality(Parked), idle)
          /\ Cardinality(creates) =
                Smaller(Cardinality(Parked \ served), Larger(MaxConn - total, 0))
          /\ \A r \in served : ahead[r] \subseteq served
          /\ \A r \in creates : ahead[r] \subseteq served \cup creates
          /\ pc' = [x \in Borrower |-> CASE x \in served -> "granted"
                                         [] x \in creates -> "postCreate"
                                         [] OTHER -> pc[x]]
          /\ Without(served \cup creates)
          /\ idle' = idle - Cardinality(served)
          /\ borrowed' = borrowed + Cardinality(served)
          /\ total' = total + Cardinality(creates)
    /\ UNCHANGED <<live, arming, timers, sweep, clock, hbLeft, hbNeed, mode, asleep>>

-----------------------------------------------------------------------------
(* shutdown().                                                             *)

\* The waiters move to a local list and are completed at the very end.
Shutdown ==
    /\ shut = "open"
    /\ shut' = "drain" /\ closed' = TRUE
    /\ pc' = [x \in Borrower |-> IF x \in Parked THEN "failing" ELSE pc[x]]
    /\ Without(Parked)
    /\ NotifyAll
    /\ UNCHANGED <<book, arming, timers, sweep, clock, heart, pooled, halted>>

ShutDrain ==
    /\ shut = "drain" /\ idle > 0
    /\ idle' = idle - 1 /\ live' = live - 1
    /\ UNCHANGED <<pc, total, borrowed, queue, clock, heart, mode, asleep>>

\* With a grace period, sleep until the borrowed connections are back.
ShutWait ==
    /\ \/ shut = "drain" /\ idle = 0
       \/ shut = "grace" /\ Closer \notin asleep
    /\ borrowed > 0
    /\ shut' = "grace" /\ asleep' = asleep \cup {Closer}
    /\ UNCHANGED <<pc, book, queue, clock, heart, pooled, closed, halted>>

\* All are back, there is no grace, or it is over: forget what is still out.
ShutFinish ==
    /\ (shut = "drain" /\ idle = 0) \/ shut = "grace"
    /\ shut' = "done"
    /\ asleep' = asleep \ {Closer}
    /\ total' = borrowed
    /\ pc' = [x \in Borrower |-> IF pc[x] = "failing" THEN "refused" ELSE pc[x]]
    /\ UNCHANGED <<borrowed, idle, live, queue, clock, heart, pooled, closed, halted>>

-----------------------------------------------------------------------------
\* What borrower b's own code, the tasks posted for it and its timers do.
BorrowStep(t) ==
    \/ LoopRefused(t) \/ LoopUnpooled(t) \/ LoopTakeIdle(t) \/ LoopReserve(t) \/ LoopFull(t)
    \/ Resume(t)
    \/ PingAlive(t) \/ PingDead(t)
    \/ ConnectOk(t) \/ ConnectFail(t)
    \/ UnpooledConnect(t, "unpooled", "held", "out")

AsyncStep(r) ==
    \/ Enter(r)
    \/ LockClosed(r) \/ LockUnpooled(r) \/ LockOld(r) \/ LockReady(r) \/ LockStale(r)
    \/ LockReserve(r) \/ LockFull(r)
    \/ Discard(r)
    \/ PostPing(r) \/ Validate(r) \/ DropDead(r)
    \/ PostCreate(r) \/ CreateTask(r)
    \/ PostUnpooled(r) \/ UnpooledConnect(r, "unpooledTask", "granted", "refused")
    \/ Complete(r)

ReturnStep(b) == ReturnRetire(b) \/ ReturnHandoff(b) \/ ReturnIdle(b)

Heartbeat ==
    \/ HbCount \/ HbTake \/ HbKeep \/ HbEvict \/ HbRefill \/ HbRestore
    \/ HbExpire \/ HbWakeClosed \/ HbWake

Closedown == ShutDrain \/ ShutWait \/ ShutFinish

Next ==
    \/ \E t \in Thread : BorrowStep(t)
    \/ \E r \in Request : AsyncStep(r) \/ Arm(r) \/ FireTimer(r)
    \/ \E b \in Borrower : Borrow(b) \/ ReturnStep(b) \/ ReturnClose(b) \/ Tick(b) \/ Stop(b)
    \/ Sweep \/ Halt
    \/ HbStart \/ Heartbeat
    \/ Shutdown \/ Closedown

Spec == Init /\ [][Next]_vars

\* Threads, executor, timers and the clock make progress; nobody has to borrow, to
\* return a connection, to cancel, to run a health check or to shut the pool down, except
\* that Client::shutdown() goes on from the executor to the pools.
Fairness ==
    /\ \A t \in Thread : WF_vars(BorrowStep(t) \/ ReturnClose(t))
    /\ \A r \in Request :
          WF_vars(AsyncStep(r) \/ Arm(r) \/ ReturnClose(r)) /\ WF_vars(FireTimer(r))
    /\ \A b \in Borrower : WF_vars(Tick(b))
    /\ WF_vars(Sweep) /\ WF_vars(Heartbeat)
    /\ WF_vars(halted /\ Shutdown) /\ WF_vars(Closedown) /\ WF_vars(ShutFinish)

FairSpec == Spec /\ Fairness

-----------------------------------------------------------------------------
(* Properties.                                                             *)

\* The connection, if any, that healthCheck() has taken out of the idle queue.
InHeartbeat == IF hb \in {"check", "retire"} THEN 1 ELSE 0

\* ahead is a deque: a strict linear order of exactly the parked requests.
DequeOrder ==
    /\ \A r \in Request : ahead[r] \subseteq Parked
    /\ \A r \in Request \ Parked : ahead[r] = {}
    /\ \A r, s \in Parked : r # s => (r \in ahead[s] <=> s \notin ahead[r])
    /\ \A r, s \in Parked : r \in ahead[s] => r \notin ahead[r] /\ ahead[r] \subseteq ahead[s]

\* Every variable has its type, and the deque of waiters holds exactly the parked
\* requests: a waiter is never completed while it is still in State::asyncWaiters.
TypeOK ==
    /\ pc \in [Borrower -> Place]
    /\ total \in Int /\ borrowed \in Nat /\ idle \in Nat /\ live \in Nat
    /\ pooled \in BOOLEAN /\ closed \in BOOLEAN /\ halted \in BOOLEAN
    /\ shut \in {"open", "drain", "grace", "done"}
    /\ ahead \in [Request -> SUBSET Request] /\ DequeOrder
    /\ arming \subseteq Request /\ timers \subseteq Request /\ sweep \in BOOLEAN
    /\ asleep \subseteq Thread \cup {Closer}
    /\ due \subseteq Borrower /\ stopped \subseteq Cancellable
    /\ hb \in {"off", "count", "sweep", "check", "retire", "refill", "expire", "wake"}
    /\ hbLeft \in Nat /\ hbNeed \in Nat

\* While the pool is open, State::total counts exactly the idle connections, the ones
\* handed out, the ones being checked, and the slots reserved by borrowers and by the
\* heartbeat's refill; a pooled data source never has more than maxConn_ of them.
SlotAccounting ==
    ~closed =>
      /\ total = idle + Count(pc, Slotted) + InHeartbeat + hbNeed
      /\ pooled => total <= MaxConn

\* State::borrowed counts the live handles, whatever handoffs, failed checks and
\* shutdowns happened in between; shutdown()'s grace period relies on it.
BorrowedExact == borrowed = Count(pc, Holding)

\* Every physical connection that is open is idle, in a handle, or owned by exactly one
\* piece of code that will close it or hand it out: none leaks, not even when the pool
\* is closed while the connection is being opened, pinged or refilled.
NoConnectionLeak == live = idle + Count(pc, Connected) + InHeartbeat

\* No step hands out a connection once the pool is closed.
NoGrantAfterClose ==
    [][closed => {b \in Borrower : pc'[b] \in Holding} \subseteq At(Holding)]_vars

\* A parked request is served only together with or after every request parked before
\* it: connections are handed to asynchronous waiters in arrival order.
FirstComeFirstServed ==
    [][\A r \in Parked :
          pc'[r] \in {"granted", "postCreate"} => \A s \in ahead[r] : pc'[s] # "parked"]_vars

\* Nobody waits for ever: a thread asleep in borrow() comes back from wait_until(), and a
\* parked request gets a handle or an error although its notification may have gone to
\* another borrower, its timer may race its hand-off or fire early, and nobody has to
\* return a connection.  The one exception is an overdue waiter that returnConn() has
\* collected beside a hand-off: WaiterAnswered says what is promised of it.
WaitsEnd ==
    /\ \A t \in Thread : pc[t] = "wait" ~> pc[t] # "wait"
    /\ \A r \in Request : pc[r] = "parked" ~> pc[r] \in {"held", "out", "dropped"}

\* Stated by CHANGELOG.md:251-252 ("A waiter now completes with `PoolExhausted` even when no
\* connection is returned and no heartbeat runs after it is queued"): every parked request
\* is completed.
WaiterAnswered == \A r \in Request : pc[r] = "parked" ~> pc[r] \in {"held", "out"}

\* shutdown() does not sleep through its grace period: when the last connection is back
\* and shutdown() still waits on the condition variable, the thread that brought it is
\* about to notify, and no sleeping borrower can take that notification away.
CloserWoken ==
    shut = "grace" /\ Closer \in asleep /\ borrowed = 0
      => asleep = {Closer} /\ At({"closing"}) # {}

\* The lease view of the pool: who holds a connection, and whether new ones are granted.
Lease == INSTANCE PoolLease WITH
    Client <- Borrower, Limit <- MaxConn, limited <- pooled,
    holders <- At(Holding), open <- ~closed

\* The pool implements the lease specification: at most maxConn_ handles at a time,
\* each granted, passed on or given back whole, none granted after shutdown().
ImplementsLease == Lease!Spec

=============================================================================
