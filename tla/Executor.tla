------------------------------- MODULE Executor -------------------------------
(***************************************************************************)
(* async::ThreadPoolExecutor (src/async/executor.cpp): the bounded queue,  *)
(* the worker threads, the timer thread and shutdown().  One action is one *)
(* critical section of mtx_, or the running of a task between two of them. *)
(* A task stands for one call of tryPost(), tryPostContinuation() or       *)
(* postAfter(); any thread may make it, a worker inside a task included.   *)
(* A thread that runs a task is at that task.                              *)
(***************************************************************************)
EXTENDS Integers, Sequences, FiniteSets, Functions

CONSTANTS
    Plain, Follow, Timed,   \* tasks for tryPost(), tryPostContinuation(), postAfter()
    Worker,                 \* workers_
    Limit,                  \* queueLimit_
    Horizon                 \* bound of the clock; every deadline lies within it

Task   == Plain \cup Follow \cup Timed
Place  == {"none", "check", "asleep", "report", "exit"}

ASSUME ExecutorAssumption ==
    /\ IsFiniteSet(Worker) /\ Worker # {}
    /\ Plain \cap Follow = {} /\ Plain \cap Timed = {} /\ Follow \cap Timed = {}
    /\ Task \cap Place = {}
    /\ Limit \in Nat \ {0} /\ Horizon \in Nat

VARIABLES
    fresh,             \* tasks nobody has brought yet
    queue,             \* queue_
    delayed,           \* delayed_
    deadline, now,     \* DelayedTask::deadline, and the steady clock
    stopping,          \* stopping_
    pc,                \* where each worker is; "none" before ensureStartedLocked()
    timer, watch,      \* where the timer thread is, and the deadline it sleeps for
    closer, left,      \* where shutdown() is, and the delayed tasks it has taken
    submitted, completed, active,   \* the counters of stats()
    runs               \* history: how often each task has run

time     == <<deadline, now>>
ending   == <<stopping, closer, left>>
counters == <<submitted, completed, active>>
vars     == <<fresh, queue, delayed, time, ending, pc, timer, watch, counters, runs>>

Never == Horizon + 1

Init ==
    /\ fresh = Task /\ queue = <<>> /\ delayed = {} /\ left = {}
    /\ deadline = [t \in Task |-> 0] /\ now = 0
    /\ stopping = FALSE /\ closer = "idle"
    /\ pc = [w \in Worker |-> "none"] /\ timer = "none" /\ watch = Never
    /\ submitted = 0 /\ completed = 0 /\ active = 0
    /\ runs = [t \in Task |-> 0]

-----------------------------------------------------------------------------
(* Bringing tasks.                                                         *)

\* ensureStartedLocked().
Started == [w \in Worker |-> IF pc[w] = "none" THEN "check" ELSE pc[w]]
StartTimer == timer' = (IF timer = "none" THEN "check" ELSE timer)

\* cvWork_.notify_one().
WakeOne ==
    LET asleep == {w \in Worker : pc[w] = "asleep"}
    IN  IF asleep = {} THEN pc' = Started
                       ELSE \E w \in asleep : pc' = [Started EXCEPT ![w] = "check"]

Bring(t) == t \in fresh /\ fresh' = fresh \ {t}

\* Mutant: no worker is woken.
EnqueueSilent(t) ==
    queue' = Append(queue, t) /\ submitted' = submitted + 1 /\ pc' = Started

Enqueue(t) ==
    queue' = Append(queue, t) /\ submitted' = submitted + 1 /\ WakeOne

TryPost(t) ==
    /\ t \in Plain /\ Bring(t) /\ ~stopping /\ StartTimer
    /\ IF Len(queue) >= Limit THEN pc' = Started /\ UNCHANGED <<queue, submitted>>
                              ELSE Enqueue(t)
    /\ UNCHANGED <<delayed, time, ending, watch, completed, active, runs>>

TryPostContinuation(t) ==
    /\ t \in Follow /\ Bring(t) /\ ~stopping /\ StartTimer
    /\ Enqueue(t)
    /\ UNCHANGED <<delayed, time, ending, watch, completed, active, runs>>

\* Both return false once the executor is stopping.
Refuse(t) ==
    /\ t \in Plain \cup Follow /\ Bring(t) /\ stopping
    /\ UNCHANGED <<queue, delayed, time, ending, pc, timer, watch, counters, runs>>

PostAfter(t) ==
    /\ t \in Timed /\ Bring(t) /\ ~stopping
    /\ delayed' = delayed \cup {t}
    /\ \E d \in now .. Horizon : deadline' = [deadline EXCEPT ![t] = d]
    /\ pc' = Started /\ timer' = (IF timer \in {"none", "asleep"} THEN "check" ELSE timer)
    /\ UNCHANGED <<queue, now, ending, watch, counters, runs>>

Run(t) == runs' = [runs EXCEPT ![t] = @ + 1]

\* A stopping executor runs a delayed task at once, in the calling thread.
RunInline(t) ==
    /\ t \in Timed /\ Bring(t) /\ stopping /\ Run(t)
    /\ UNCHANGED <<queue, delayed, time, ending, pc, timer, watch, counters>>

-----------------------------------------------------------------------------
(* workerLoop().                                                           *)

At(w, place) == pc' = [pc EXCEPT ![w] = place]

\* Nothing to do: the worker ends or sleeps.
Rest(w) ==
    /\ pc[w] = "check" /\ queue = <<>>
    /\ At(w, IF stopping THEN "exit" ELSE "asleep")
    /\ UNCHANGED <<fresh, queue, delayed, time, ending, timer, watch, counters, runs>>

Take(w) ==
    /\ pc[w] = "check" /\ queue # <<>>
    /\ At(w, Head(queue)) /\ queue' = Tail(queue) /\ active' = active + 1
    /\ UNCHANGED <<fresh, delayed, time, ending, timer, watch, submitted, completed, runs>>

Perform(w) ==
    /\ pc[w] \in Task /\ Run(pc[w]) /\ At(w, "report")
    /\ UNCHANGED <<fresh, queue, delayed, time, ending, timer, watch, counters>>

Report(w) ==
    /\ pc[w] = "report" /\ At(w, "check")
    /\ active' = active - 1 /\ completed' = completed + 1
    /\ UNCHANGED <<fresh, queue, delayed, time, ending, timer, watch, submitted, runs>>

-----------------------------------------------------------------------------
(* timerLoop().                                                            *)

\* The top of the priority queue; seq_, which orders equal deadlines, is left open.
Top == {t \in delayed : \A u \in delayed : deadline[t] <= deadline[u]}

\* No delayed task: the timer thread ends or sleeps.
TimerEmpty ==
    /\ timer = "check" /\ delayed = {}
    /\ timer' = (IF stopping THEN "exit" ELSE "asleep") /\ watch' = Never
    /\ UNCHANGED <<fresh, queue, delayed, time, ending, pc, counters, runs>>

\* The first deadline lies ahead: it sleeps until then.
TimerSleep ==
    /\ timer = "check" /\ timer' = "asleep"
    /\ \E t \in Top : deadline[t] > now /\ watch' = deadline[t]
    /\ UNCHANGED <<fresh, queue, delayed, time, ending, pc, counters, runs>>

TimerWake ==
    /\ timer = "asleep" /\ watch <= now /\ timer' = "check"
    /\ UNCHANGED <<fresh, queue, delayed, time, ending, pc, watch, counters, runs>>

\* Mutant: the task stays in the priority queue.
TimerTakeKept ==
    /\ timer = "check"
    /\ \E t \in Top : deadline[t] <= now /\ timer' = t
    /\ UNCHANGED <<fresh, queue, delayed, time, ending, pc, watch, counters, runs>>

TimerTake ==
    /\ timer = "check"
    /\ \E t \in Top : deadline[t] <= now /\ timer' = t /\ delayed' = delayed \ {t}
    /\ UNCHANGED <<fresh, queue, time, ending, pc, watch, counters, runs>>

TimerPerform ==
    /\ timer \in Task /\ Run(timer) /\ timer' = "check"
    /\ UNCHANGED <<fresh, queue, delayed, time, ending, pc, watch, counters>>

Tick ==
    /\ now < Horizon /\ now' = now + 1
    /\ UNCHANGED <<fresh, queue, delayed, deadline, ending, pc, timer, watch, counters, runs>>

-----------------------------------------------------------------------------
(* shutdown().  A second call returns at once and changes nothing.         *)

\* cvWork_.notify_all().
WakeWorkers == pc' = [w \in Worker |-> IF pc[w] = "asleep" THEN "check" ELSE pc[w]]

\* Mutant: the timer thread is not woken.
ShutdownHalf ==
    /\ ~stopping /\ stopping' = TRUE /\ closer' = "inline"
    /\ left' = delayed /\ delayed' = {}
    /\ WakeWorkers
    /\ UNCHANGED <<fresh, queue, time, timer, watch, counters, runs>>

Shutdown ==
    /\ ~stopping /\ stopping' = TRUE /\ closer' = "inline"
    /\ left' = delayed /\ delayed' = {}
    /\ WakeWorkers /\ timer' = (IF timer = "asleep" THEN "check" ELSE timer)
    /\ UNCHANGED <<fresh, queue, time, watch, counters, runs>>

\* The delayed tasks it has taken run in the closing thread.
ShutdownInline ==
    /\ closer = "inline"
    /\ \E t \in left : Run(t) /\ left' = left \ {t}
    /\ UNCHANGED <<fresh, queue, delayed, time, stopping, closer, pc, timer, watch, counters>>

\* It joins the timer thread and the workers, if they were ever started.
ShutdownJoin ==
    /\ closer = "inline" /\ left = {}
    /\ timer \in {"none", "exit"} /\ \A w \in Worker : pc[w] \in {"none", "exit"}
    /\ closer' = "done"
    /\ UNCHANGED <<fresh, queue, delayed, time, stopping, left, pc, timer, watch, counters, runs>>

-----------------------------------------------------------------------------
Call(t) == TryPost(t) \/ TryPostContinuation(t) \/ Refuse(t) \/ PostAfter(t) \/ RunInline(t)
WorkerStep(w) == Rest(w) \/ Take(w) \/ Perform(w) \/ Report(w)
TimerStep == TimerEmpty \/ TimerSleep \/ TimerWake \/ TimerTake \/ TimerPerform
CloserStep == ShutdownInline \/ ShutdownJoin

Next ==
    \/ \E t \in Task : Call(t)
    \/ \E w \in Worker : WorkerStep(w)
    \/ TimerStep \/ Tick
    \/ Shutdown \/ CloserStep

Spec == Init /\ [][Next]_vars

\* Threads run, tasks end and the clock advances; nobody has to post or to shut down.
Fairness ==
    /\ \A w \in Worker : WF_vars(WorkerStep(w))
    /\ WF_vars(TimerStep) /\ WF_vars(CloserStep) /\ WF_vars(Tick)

FairSpec == Spec /\ Fairness

-----------------------------------------------------------------------------
(* Properties.                                                             *)

Queued == Range(queue)
\* The tasks the executor has taken on and not yet run.
Waiting == Task \cap (Queued \cup delayed \cup left \cup Range(pc) \cup {timer})
\* The workers that hold a task they have not yet counted as completed.
Busy == {w \in Worker : pc[w] \in Task \cup {"report"}}

\* Every variable has its type; the queue holds submissions and continuations, the
\* priority queue delayed tasks, and no counter is negative.
TypeOK ==
    /\ fresh \subseteq Task /\ delayed \subseteq Timed /\ left \subseteq Timed
    /\ queue \in Seq(Plain \cup Follow)
    /\ deadline \in [Task -> 0 .. Horizon] /\ now \in 0 .. Horizon /\ watch \in 0 .. Never
    /\ stopping \in BOOLEAN /\ closer \in {"idle", "inline", "done"}
    /\ pc \in [Worker -> Place \cup Plain \cup Follow]
    /\ timer \in (Place \ {"report"}) \cup Timed
    /\ submitted \in Nat /\ completed \in Nat /\ active \in Nat
    /\ runs \in [Task -> Nat]

\* stats() adds up in every state in which its lock is free: what was submitted is
\* queued, active or completed.
StatsAddUp ==
    /\ submitted = Len(queue) + active + completed
    /\ active = Cardinality(Busy)

\* Submissions fill the queue up to queueLimit_ at most, however many continuations
\* have been let in above the limit.
QueueBound == Cardinality(Queued \cap Plain) <= Limit

\* Stated by docs/guide_en.md:982 ("`shutdown()` rejects new operations, drains submitted
\* work"): shutdown() returns only when nothing it had taken on is left.
Drained == closer = "done" => Waiting = {}

\* A task that was taken on is run, also when the executor is shut down meanwhile.
TaskRuns == \A t \in Task : t \in Waiting ~> runs[t] = 1

\* shutdown() returns.
ShutdownReturns == closer = "inline" ~> closer = "done"

Service == INSTANCE TaskService WITH
    Item <- Task, waiting <- Waiting, ran <- {t \in Task : runs[t] > 0}, open <- ~stopping

\* The executor implements the task service: what it takes on runs exactly once, and
\* after shutdown() has begun nothing more is taken on.
ImplementsService == Service!Spec /\ [](\A t \in Task : runs[t] <= 1)
===============================================================================
