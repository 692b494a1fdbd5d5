---------------------------- MODULE ExecutorProofs ----------------------------
(***************************************************************************)
(* Proofs about Executor, for any tasks, any finite set of workers and any *)
(* queue limit.                                                            *)
(***************************************************************************)
EXTENDS Executor, FiniteSetTheorems, TLAPS

Distinct(q) == \A i, j \in 1 .. Len(q) : q[i] = q[j] => i = j

\* A task has run at most once, and one that is still fresh or waiting has not run.
Once ==
    /\ \A t \in Task : runs[t] \in {0, 1}
    /\ \A t \in fresh \cup Waiting : runs[t] = 0
    /\ fresh \cap Waiting = {}

\* A waiting task is at one place only.
Apart ==
    /\ Distinct(queue)
    /\ \A w \in Worker : pc[w] \notin Queued
    /\ \A v, w \in Worker : pc[v] = pc[w] /\ pc[v] \in Task => v = w
    /\ delayed \cap left = {} /\ timer \notin delayed \cup left

\* How far the threads and shutdown() are tells what is left to do.
Ending ==
    /\ ~stopping => closer = "idle"
    /\ stopping => closer # "idle" /\ delayed = {}
    /\ closer # "inline" => left = {}
    /\ closer = "done" => timer \in {"none", "exit"} /\ \A w \in Worker : pc[w] \in {"none", "exit"}
    /\ timer = "exit" => stopping
    /\ timer = "none" => queue = <<>> /\ delayed = {}
    /\ \A w \in Worker : pc[w] = "exit" => stopping /\ queue = <<>>
    /\ \A w \in Worker : pc[w] = "none" <=> timer = "none"

EInv == TypeOK /\ Once /\ Apart /\ Ending /\ StatsAddUp

-----------------------------------------------------------------------------
(* Facts about the queue and the workers.                                  *)

\* Appending a new task to queue_ adds it to the tasks queued.
LEMMA AppendQueued ==
    ASSUME NEW S, NEW q \in Seq(S), NEW t \in S
    PROVE  /\ Append(q, t) \in Seq(S) /\ Len(Append(q, t)) = Len(q) + 1
           /\ Range(Append(q, t)) = Range(q) \cup {t}
           /\ t \notin Range(q) /\ Distinct(q) => Distinct(Append(q, t))
<1>1. /\ Append(q, t) \in Seq(S) /\ Len(Append(q, t)) = Len(q) + 1
      /\ \A i \in 1 .. Len(q) : Append(q, t)[i] = q[i]
      /\ Append(q, t)[Len(q) + 1] = t
  OBVIOUS
<1>2. /\ DOMAIN q = 1 .. Len(q) /\ Len(q) \in Nat
      /\ DOMAIN Append(q, t) = 1 .. Len(q) + 1
  OBVIOUS
<1> DEFINE a == Append(q, t)
<1> HIDE DEF a
<1>3. 1 .. Len(q) + 1 = (1 .. Len(q)) \cup {Len(q) + 1}
  BY <1>2
<1>4. Range(a) = Range(q) \cup {t}
  BY <1>1, <1>2, <1>3 DEF Range, a
<1>5. ASSUME t \notin Range(q), Distinct(q) PROVE Distinct(a)
  BY <1>1, <1>2, <1>3, <1>5 DEF Range, Distinct, a
<1> QED
  BY <1>1, <1>4, <1>5, Zenon DEF a

\* Taking the front of queue_ removes exactly that task from the tasks queued.
LEMMA TailQueued ==
    ASSUME NEW S, NEW q \in Seq(S), q # <<>>, Distinct(q)
    PROVE  /\ Tail(q) \in Seq(S) /\ Len(Tail(q)) = Len(q) - 1
           /\ Head(q) \in Range(q) /\ Head(q) \in S
           /\ Range(Tail(q)) = Range(q) \ {Head(q)}
           /\ Distinct(Tail(q))
<1>1. /\ Tail(q) \in Seq(S) /\ Len(Tail(q)) = Len(q) - 1
      /\ \A i \in 1 .. Len(q) - 1 : Tail(q)[i] = q[i + 1]
      /\ Head(q) = q[1] /\ Len(q) \in Nat \ {0}
  OBVIOUS
<1>2. DOMAIN q = 1 .. Len(q) /\ DOMAIN Tail(q) = 1 .. Len(q) - 1
  BY <1>1
<1> DEFINE b == Tail(q) n == Len(q)
<1> HIDE DEF b, n
<1>3. \A i \in 2 .. n : i - 1 \in 1 .. n - 1 /\ b[i - 1] = q[i]
  BY <1>1 DEF b, n
<1>4. 1 .. n = {1} \cup 2 .. n
  BY <1>1 DEF n
<1>5. \A i \in 1 .. n - 1 : i + 1 \in 2 .. n /\ b[i] = q[i + 1]
  BY <1>1 DEF b, n
<1>6. Range(b) = Range(q) \ {q[1]}
  <2>1. ASSUME NEW x \in Range(b) PROVE x \in Range(q) \ {q[1]}
    <3>1. PICK i \in 1 .. n - 1 : x = q[i + 1] /\ i + 1 \in 2 .. n
      BY <1>2, <1>5, <2>1, Zenon DEF Range, b, n
    <3>2. i + 1 \in 1 .. n /\ i + 1 # 1 /\ 1 \in 1 .. n
      BY <1>1, <3>1 DEF n
    <3> QED
      BY <1>2, <3>1, <3>2, Zenon DEF Range, Distinct, n
  <2>2. ASSUME NEW x \in Range(q) \ {q[1]} PROVE x \in Range(b)
    <3>1. PICK i \in 2 .. n : x = q[i]
      BY <1>2, <1>4, <2>2, Zenon DEF Range, n
    <3> QED
      BY <1>2, <1>3, <3>1, Zenon DEF Range, b, n
  <2> QED
    BY <2>1, <2>2, Zenon
<1>7. Distinct(b)
  <2> SUFFICES ASSUME NEW i \in 1 .. n - 1, NEW j \in 1 .. n - 1, b[i] = b[j] PROVE i = j
    BY <1>1, Zenon DEF Distinct, b, n
  <2>1. i + 1 \in 1 .. n /\ j + 1 \in 1 .. n /\ q[i + 1] = q[j + 1]
    BY <1>1, <1>5 DEF n
  <2>2. i + 1 = j + 1
    BY <2>1, Zenon DEF Distinct, n
  <2> QED
    BY <2>2
<1>8. Head(q) \in Range(q) /\ Head(q) \in S
  BY <1>1, <1>2 DEF Range
<1> QED
  BY <1>1, <1>6, <1>7, <1>8, Zenon DEF b

\* What waits, place by place.
LEMMA WaitingPlaces ==
    ASSUME TypeOK, NEW t \in Task
    PROVE  t \in Waiting <=> \/ t \in Queued \/ t \in delayed \/ t \in left
                             \/ \E w \in Worker : pc[w] = t
                             \/ timer = t
BY Zenon DEF Waiting, TypeOK, Range

\* The same after a step.
LEMMA WaitingPlacesNext ==
    ASSUME TypeOK', NEW t \in Task
    PROVE  t \in Waiting' <=> \/ t \in Queued' \/ t \in delayed' \/ t \in left'
                              \/ \E w \in Worker : pc'[w] = t
                              \/ timer' = t
BY Zenon DEF Waiting, TypeOK, Range

\* The queue holds tasks, which are no places of a thread.
LEMMA QueuedTasks ==
    ASSUME TypeOK
    PROVE  Queued \subseteq Task \ Place /\ Queued \cap Timed = {}
<1>1. Queued \subseteq Plain \cup Follow
  BY DEF TypeOK, Queued, Range
<1> QED
  BY <1>1, ExecutorAssumption, Zenon DEF Task

\* Workers may be started and woken, and are otherwise left where they are.
Roused ==
    /\ pc' \in [Worker -> Place \cup Plain \cup Follow]
    /\ \A w \in Worker : \/ pc'[w] = pc[w]
                         \/ pc[w] \in {"none", "asleep"} /\ pc'[w] = "check"

\* Starting the threads and notifying one worker rouses.
LEMMA StartRouses ==
    ASSUME TypeOK, pc' = Started \/ WakeOne
    PROVE  Roused /\ \A w \in Worker : pc'[w] # "none"
<1>1. CASE pc' = Started
  BY <1>1, Zenon DEF Started, Roused, TypeOK, Place
<1>2. CASE WakeOne
  <2>1. \/ pc' = Started
        \/ \E w \in Worker : pc[w] = "asleep" /\ pc' = [Started EXCEPT ![w] = "check"]
    BY <1>2, Zenon DEF WakeOne
  <2> QED
    BY <1>1, <2>1, Zenon DEF Started, Roused, TypeOK, Place
<1> QED
  BY <1>1, <1>2, Zenon

\* Rousing moves no task: a worker holds the same task, or none, before and after.
LEMMA RousedHolds ==
    ASSUME TypeOK, Roused
    PROVE  /\ \A w \in Worker, t \in Task : pc'[w] = t <=> pc[w] = t
           /\ \A w \in Worker : pc'[w] \in Task <=> pc[w] \in Task
           /\ \A w \in Worker : pc'[w] = "exit" <=> pc[w] = "exit"
           /\ Busy' = Busy
BY ExecutorAssumption, Zenon DEF Roused, Busy, Place

\* The executor starts with nothing taken on.
LEMMA InitExecutor == Init => EInv
<1> SUFFICES ASSUME Init PROVE EInv
  BY Zenon
<1>1. TypeOK
  <2>1. queue \in Seq(Plain \cup Follow)
    BY DEF Init
  <2>2. stopping \in BOOLEAN
    BY Zenon DEF Init
  <2> QED
    BY <2>1, <2>2, ExecutorAssumption DEF Init, TypeOK, Place, Never
<1>2. \A t \in Task : t \notin Waiting
  <2>1. Queued = {}
    BY DEF Init, Queued, Range
  <2> QED
    BY <1>1, <2>1, WaitingPlaces, ExecutorAssumption, Zenon DEF Init, Place
<1>3. Once /\ Apart
  BY <1>2, ExecutorAssumption DEF Init, Once, Apart, Distinct, Queued, Range, Waiting, Place
<1>4. Ending
  BY Zenon DEF Init, Ending
<1>5. StatsAddUp
  <2>1. Busy = {}
    BY ExecutorAssumption, Zenon DEF Init, Busy, Place
  <2> QED
    BY <2>1, FS_EmptySet DEF Init, StatsAddUp
<1> QED
  BY <1>1, <1>3, <1>4, <1>5, Zenon DEF EInv

-----------------------------------------------------------------------------
(* What a step does to the tasks.                                          *)

Same == Waiting' = Waiting /\ runs' = runs /\ stopping' = stopping
Accepts(t) ==
    /\ ~stopping /\ t \in fresh \ fresh' /\ Waiting' = Waiting \cup {t}
    /\ runs' = runs /\ stopping' = stopping
RunsOut(t) ==
    t \in Waiting /\ Waiting' = Waiting \ {t} /\ Run(t) /\ stopping' = stopping
RunsNow(t) ==
    /\ stopping /\ t \in fresh \ fresh' /\ Waiting' = Waiting /\ Run(t)
    /\ stopping' = stopping
Closes == ~stopping /\ Waiting' = Waiting /\ runs' = runs /\ stopping' = TRUE

Effect ==
    \/ Same \/ Closes
    \/ \E t \in Task : Accepts(t) \/ RunsOut(t) \/ RunsNow(t)

\* A step with one of these effects runs no task a second time.
LEMMA EffectOnce ==
    ASSUME TypeOK, Once, fresh' \subseteq fresh, Effect
    PROVE  Once'
<1>1. CASE Same \/ Closes
  BY <1>1, Zenon DEF Once, Same, Closes
<1>2. CASE \E t \in Task : Accepts(t)
  BY <1>2, Zenon DEF Once, Accepts
<1>3. ASSUME NEW t \in Task, Run(t), runs[t] = 0
      PROVE  /\ \A u \in Task : runs'[u] \in {0, 1}
             /\ \A u \in Task \ {t} : runs'[u] = runs[u]
  BY <1>3 DEF Run, Once, TypeOK
<1>4. CASE \E t \in Task : RunsOut(t)
  BY <1>3, <1>4 DEF Once, RunsOut, TypeOK, Waiting
<1>5. CASE \E t \in Task : RunsNow(t)
  BY <1>3, <1>5 DEF Once, RunsNow, TypeOK, Waiting
<1> QED
  BY <1>1, <1>2, <1>4, <1>5, Zenon DEF Effect

\* What a lemma about one action establishes.
Kept == TypeOK' /\ Apart' /\ Ending' /\ Effect /\ fresh' \subseteq fresh

\* Joining queue_, as tryPost() and tryPostContinuation() let a new task do.
LEMMA EnqueueKept ==
    ASSUME EInv, NEW t \in Plain \cup Follow, Bring(t), ~stopping, StartTimer, Enqueue(t),
           UNCHANGED <<delayed, time, ending, watch, completed, active, runs>>
    PROVE  Kept
<1> USE DEF EInv
<1>1. /\ queue' \in Seq(Plain \cup Follow) /\ Queued' = Queued \cup {t}
      /\ t \notin Queued => Distinct(queue')
  BY AppendQueued DEF Enqueue, TypeOK, Queued, Apart
<1>2. t \in Task /\ t \notin Waiting /\ t \notin Place
  BY ExecutorAssumption, Zenon DEF Bring, Once, Task
<1>3. Roused /\ \A w \in Worker : pc'[w] # "none"
  BY StartRouses, Zenon DEF Enqueue
<1>4. /\ timer' \in (Place \ {"report"}) \cup Timed
      /\ timer' # "none" /\ (timer' = timer \/ (timer' = "check" /\ timer = "none"))
      /\ \A u \in Task : timer' = u <=> timer = u
  BY ExecutorAssumption, Zenon DEF StartTimer, TypeOK, Place
<1>5. TypeOK'
  BY <1>1, <1>3, <1>4 DEF TypeOK, time, ending, Enqueue, Roused, Bring
<1>6. \A u \in Task : u \in Waiting' <=> u \in Waiting \cup {t}
  <2> SUFFICES ASSUME NEW u \in Task PROVE u \in Waiting' <=> u \in Waiting \cup {t}
    BY Zenon
  <2>1. u \in Waiting' <=> \/ u \in Queued' \/ u \in delayed' \/ u \in left'
                           \/ \E w \in Worker : pc'[w] = u
                           \/ timer' = u
    BY <1>5, WaitingPlacesNext, Zenon
  <2>2. (\E w \in Worker : pc'[w] = u) <=> (\E w \in Worker : pc[w] = u)
    BY <1>3, RousedHolds, Zenon
  <2> QED
    BY <1>1, <1>4, <2>1, <2>2, WaitingPlaces, Zenon DEF ending
<1>7. Effect
  <2>1. Waiting' = Waiting \cup {t}
    BY <1>2, <1>6, Zenon DEF Waiting
  <2> QED
    BY <1>2, <2>1, Zenon DEF Effect, Accepts, Bring, ending
<1>8. t \notin Queued /\ \A w \in Worker : pc[w] # t
  BY <1>2, WaitingPlaces, Zenon
<1>9. Apart'
  <2>1. \A w \in Worker : pc'[w] \notin Queued'
    BY <1>1, <1>2, <1>3, <1>8, QueuedTasks, Zenon DEF Roused, Apart, Place
  <2>2. \A v, w \in Worker : pc'[v] = pc'[w] /\ pc'[v] \in Task => v = w
    BY <1>3, RousedHolds, Zenon DEF Apart
  <2> QED
    BY <1>1, <1>4, <1>8, <2>1, <2>2, ExecutorAssumption, Zenon DEF Apart, ending, TypeOK,
         Task, Place
<1>10. Ending'
  BY <1>3, <1>4, RousedHolds, Zenon DEF Ending, ending
<1> QED
  BY <1>5, <1>7, <1>9, <1>10, Zenon DEF Kept, Bring

\* A step that moves threads between places, and no task, keeps the tasks apart.
LEMMA QuietKept ==
    ASSUME EInv, TypeOK', Ending', fresh' \subseteq fresh,
           UNCHANGED <<queue, delayed, left, runs, stopping>>,
           \A w \in Worker : pc'[w] = pc[w] \/ (pc[w] \in Place /\ pc'[w] \in Place),
           timer' = timer \/ (timer \in Place /\ timer' \in Place)
    PROVE  Kept
<1> USE DEF EInv
<1>1. Queued' = Queued
  BY Zenon DEF Queued
<1>2. \A u \in Task : timer' = u <=> timer = u
  BY ExecutorAssumption, Zenon
<1>3. \A w \in Worker, u \in Task : pc'[w] = u <=> pc[w] = u
  BY ExecutorAssumption, Zenon
<1>4. \A u \in Task : u \in Waiting' <=> u \in Waiting
  BY <1>1, <1>2, <1>3, WaitingPlaces, WaitingPlacesNext, Zenon
<1>5. Effect
  BY <1>4, Zenon DEF Effect, Same, Waiting
<1>6. \A w \in Worker : pc'[w] \notin Queued'
  BY <1>1, QueuedTasks, Zenon DEF Apart
<1>7. \A v, w \in Worker : pc'[v] = pc'[w] /\ pc'[v] \in Task => v = w
  BY <1>3, Zenon DEF Apart
<1>8. timer' \notin delayed' \cup left'
  BY <1>2, Zenon DEF Apart, TypeOK, Task
<1> QED
  BY <1>5, <1>6, <1>7, <1>8, Zenon DEF Kept, Apart

\* tryPost(), whether it accepts the task or not.
LEMMA TryPostKept == ASSUME EInv, NEW t \in Task, TryPost(t) PROVE Kept
<1> USE DEF EInv
<1>1. CASE Len(queue) >= Limit
  <2>1. Roused /\ \A w \in Worker : pc'[w] # "none"
    BY <1>1, StartRouses, Zenon DEF TryPost
  <2>2. /\ timer' \in (Place \ {"report"}) \cup Timed /\ timer' # "none"
        /\ timer' = timer \/ (timer' = "check" /\ timer = "none")
    BY Zenon DEF TryPost, StartTimer, TypeOK, Place
  <2>3. TypeOK'
    BY <1>1, <2>1, <2>2, Zenon DEF TryPost, Bring, TypeOK, time, ending, Roused
  <2>4. Ending'
    <3>1. queue # <<>>
      BY <1>1, ExecutorAssumption
    <3> QED
      BY <1>1, <2>1, <2>2, <3>1, RousedHolds, Zenon DEF TryPost, Ending, ending
  <2> QED
    BY <1>1, <2>1, <2>2, <2>3, <2>4, QuietKept, Zenon DEF TryPost, Bring, ending, Roused, Place
<1>2. CASE ~(Len(queue) >= Limit)
  BY <1>2, EnqueueKept, Zenon DEF TryPost
<1> QED
  BY <1>1, <1>2, Zenon

\* tryPostContinuation().
LEMMA TryPostContinuationKept == ASSUME EInv, NEW t \in Task, TryPostContinuation(t) PROVE Kept
BY EnqueueKept, Zenon DEF TryPostContinuation

\* A stopping executor refuses.
LEMMA RefuseKept == ASSUME EInv, NEW t \in Task, Refuse(t) PROVE Kept
<1>1. TypeOK' /\ Ending'
  BY Zenon DEF EInv, Refuse, Bring, TypeOK, Ending, time, ending, counters
<1> QED
  BY <1>1, QuietKept, Zenon DEF Refuse, Bring, ending

\* postAfter() of a running executor.
LEMMA PostAfterKept == ASSUME EInv, NEW t \in Task, PostAfter(t) PROVE Kept
<1> USE DEF EInv
<1>1. Roused /\ \A w \in Worker : pc'[w] # "none"
  BY StartRouses, Zenon DEF PostAfter
<1>2. /\ timer' \in (Place \ {"report"}) \cup Timed /\ timer' # "none"
      /\ timer' = timer \/ (timer' = "check" /\ timer \in Place)
      /\ timer' = "exit" => timer = "exit"
      /\ \A u \in Task : timer' = u <=> timer = u
  BY ExecutorAssumption, Zenon DEF PostAfter, TypeOK, Place
<1>3. TypeOK'
  <2>1. deadline' \in [Task -> 0 .. Horizon]
    BY ExecutorAssumption DEF PostAfter, TypeOK
  <2> QED
    BY <1>1, <1>2, <2>1, Zenon DEF PostAfter, Bring, TypeOK, ending, counters, Roused
<1>4. Queued' = Queued
  BY Zenon DEF PostAfter, Queued
<1>5. \A u \in Task : u \in Waiting' <=> u \in Waiting \cup {t}
  <2>1. \A u \in Task : (\E w \in Worker : pc'[w] = u) <=> (\E w \in Worker : pc[w] = u)
    BY <1>1, RousedHolds, Zenon
  <2> QED
    BY <1>2, <1>3, <1>4, <2>1, WaitingPlaces, WaitingPlacesNext, Zenon DEF PostAfter, ending
<1>6. Effect
  <2>1. Waiting' = Waiting \cup {t}
    BY <1>5, Zenon DEF Waiting
  <2> QED
    BY <2>1, Zenon DEF Effect, Accepts, PostAfter, Bring, ending
<1>7. t \notin left /\ timer # t
  BY WaitingPlaces, Zenon DEF PostAfter, Bring, Once
<1>8. Apart'
  <2>1. \A w \in Worker : pc'[w] \notin Queued'
    BY <1>1, <1>4, QueuedTasks, Zenon DEF Roused, Apart, Place
  <2>2. \A v, w \in Worker : pc'[v] = pc'[w] /\ pc'[v] \in Task => v = w
    BY <1>1, RousedHolds, Zenon DEF Apart
  <2>3. delayed' \cap left' = {} /\ timer' \notin delayed' \cup left'
    BY <1>2, <1>7 DEF Apart, PostAfter, ending, TypeOK, Task
  <2> QED
    BY <2>1, <2>2, <2>3, Zenon DEF Apart, PostAfter
<1>9. Ending'
  BY <1>1, <1>2, RousedHolds, Zenon DEF PostAfter, Ending, ending
<1> QED
  BY <1>3, <1>6, <1>8, <1>9, Zenon DEF Kept, PostAfter, Bring

\* postAfter() of a stopping executor.
LEMMA RunInlineKept == ASSUME EInv, NEW t \in Task, RunInline(t) PROVE Kept
<1> USE DEF EInv
<1>1. runs' \in [Task -> Nat]
  BY DEF RunInline, Run, TypeOK
<1>2. TypeOK' /\ Ending' /\ Apart'
  BY <1>1, Zenon DEF RunInline, Bring, TypeOK, Ending, Apart, Queued, time, ending, counters
<1>3. Waiting' = Waiting
  BY Zenon DEF RunInline, Waiting, Queued, ending
<1> QED
  BY <1>2, <1>3, Zenon DEF Kept, Effect, RunsNow, RunInline, Bring, ending

\* workerLoop() between two tasks.
LEMMA IdleWorkerKept == ASSUME EInv, NEW w \in Worker, Rest(w) \/ Report(w) PROVE Kept
<1> USE DEF EInv
<1>1. PICK p \in {"exit", "asleep", "check"} :
           /\ At(w, p) /\ pc[w] \in {"check", "report"}
           /\ p = "exit" => stopping /\ queue = <<>>
  BY Zenon DEF Rest, Report
<1>2. CASE Rest(w)
  <2>1. TypeOK'
    BY <1>1, <1>2, Zenon DEF Rest, At, TypeOK, Place, time, ending, counters
  <2>2. Ending'
    BY <1>1, <1>2, Zenon DEF Rest, At, TypeOK, Ending, ending
  <2> QED
    BY <1>1, <1>2, <2>1, <2>2, QuietKept, Zenon DEF Rest, At, TypeOK, Place, ending
<1>3. CASE Report(w)
  <2>0. active' \in Nat
    <3>1. IsFiniteSet(Busy) /\ w \in Busy
      BY <1>3, ExecutorAssumption, FS_Subset, Zenon DEF Busy, Report
    <3>2. Cardinality(Busy) \in Nat /\ Cardinality(Busy) # 0
      BY <3>1, FS_CardinalityType, FS_EmptySet, Zenon
    <3> QED
      BY <1>3, <3>2 DEF Report, StatsAddUp
  <2>1. TypeOK'
    BY <1>1, <1>3, <2>0 DEF Report, At, TypeOK, Place, time, ending
  <2>2. Ending'
    BY <1>1, <1>3, Zenon DEF Report, At, TypeOK, Ending, ending
  <2> QED
    BY <1>1, <1>3, <2>1, <2>2, QuietKept, Zenon DEF Report, At, TypeOK, Place, ending
<1> QED
  BY <1>2, <1>3, Zenon

\* workerLoop() takes the front of the queue.
LEMMA TakeKept == ASSUME EInv, NEW w \in Worker, Take(w) PROVE Kept
<1> USE DEF EInv
<1> DEFINE h == Head(queue)
<1>1. /\ queue' \in Seq(Plain \cup Follow) /\ h \in Queued /\ h \in Plain \cup Follow
      /\ Queued' = Queued \ {h} /\ Distinct(queue')
  BY TailQueued, Zenon DEF Take, TypeOK, Queued, Apart
<1> HIDE DEF h
<1>2. pc' = [pc EXCEPT ![w] = h] /\ pc[w] = "check"
  BY Zenon DEF Take, At, h
<1>3. h \in Task /\ h \notin Place
  BY <1>1, ExecutorAssumption, Zenon DEF Task
<1>4. TypeOK'
  BY <1>1, <1>2 DEF Take, TypeOK, time, ending
<1>5. \A u \in Task : u \in Waiting' <=> u \in Waiting
  <2> SUFFICES ASSUME NEW u \in Task PROVE u \in Waiting' <=> u \in Waiting
    BY Zenon
  <2>1. u # pc[w]
    BY <1>2, ExecutorAssumption, Zenon DEF Place
  <2>2. (\E v \in Worker : pc'[v] = u) <=> (u = h \/ \E v \in Worker : pc[v] = u)
    BY <1>2, <2>1, Zenon DEF TypeOK
  <2> QED
    BY <1>1, <1>4, <2>2, WaitingPlaces, WaitingPlacesNext, Zenon DEF Take, ending
<1>6. Effect
  <2>1. Waiting' = Waiting
    BY <1>5, Zenon DEF Waiting
  <2> QED
    BY <2>1, Zenon DEF Effect, Same, Take, ending
<1>7. Apart'
  <2>1. \A v \in Worker : pc'[v] \notin Queued'
    BY <1>1, <1>2, Zenon DEF Apart, TypeOK
  <2>2. \A v \in Worker : pc[v] # h
    BY <1>1, Zenon DEF Apart
  <2>3. \A u, v \in Worker : pc'[u] = pc'[v] /\ pc'[u] \in Task => u = v
    BY <1>2, <2>2, Zenon DEF Apart, TypeOK
  <2> QED
    BY <1>1, <2>1, <2>3, Zenon DEF Apart, Take, ending
<1>8. Ending'
  BY <1>2, <1>3, Zenon DEF Ending, Take, ending, TypeOK, Place
<1> QED
  BY <1>4, <1>6, <1>7, <1>8, Zenon DEF Kept, Take

\* workerLoop() runs the task it has taken.
LEMMA PerformKept == ASSUME EInv, NEW w \in Worker, Perform(w) PROVE Kept
<1> USE DEF EInv
<1> DEFINE t == pc[w]
<1>1. t \in Task /\ pc' = [pc EXCEPT ![w] = "report"] /\ "report" \notin Task
  BY ExecutorAssumption, Zenon DEF Perform, At, Place
<1>2. runs' \in [Task -> Nat]
  BY DEF Perform, Run, TypeOK
<1>3. TypeOK'
  BY <1>1, <1>2, Zenon DEF Perform, TypeOK, time, ending, counters, Place
<1>4. Queued' = Queued
  BY Zenon DEF Perform, Queued
<1>5. \A v \in Worker \ {w} : pc[v] # t
  BY <1>1, Zenon DEF Apart
<1>6. t \in Waiting /\ t \notin Queued /\ t \notin Timed
  BY <1>1, WaitingPlaces, ExecutorAssumption, Zenon DEF Apart, TypeOK, Task
<1>7. \A u \in Task : u \in Waiting' <=> u \in Waiting \ {t}
  <2> SUFFICES ASSUME NEW u \in Task PROVE u \in Waiting' <=> u \in Waiting \ {t}
    BY Zenon
  <2>1. (\E v \in Worker : pc'[v] = u) <=> (u # t /\ \E v \in Worker : pc[v] = u)
    BY <1>1, <1>5, Zenon DEF TypeOK
  <2>2. t \notin delayed \cup left /\ timer # t
    BY <1>1, <1>6, ExecutorAssumption, Zenon DEF TypeOK
  <2> QED
    BY <1>3, <1>4, <1>6, <2>1, <2>2, WaitingPlaces, WaitingPlacesNext, Zenon DEF Perform, ending
<1>8. Effect
  <2>1. Waiting' = Waiting \ {t}
    BY <1>7, Zenon DEF Waiting
  <2> QED
    BY <1>1, <1>6, <2>1, Zenon DEF Effect, RunsOut, Perform, ending
<1>9. Apart'
  <2>1. \A v \in Worker : pc'[v] \notin Queued'
    BY <1>1, <1>4, QueuedTasks, Zenon DEF Apart, TypeOK, Place
  <2>2. \A u, v \in Worker : pc'[u] = pc'[v] /\ pc'[u] \in Task => u = v
    BY <1>1, Zenon DEF Apart, TypeOK
  <2> QED
    BY <2>1, <2>2, Zenon DEF Apart, Perform, ending
<1>10. Ending'
  BY <1>1, ExecutorAssumption, Zenon DEF Ending, Perform, ending, TypeOK, Place
<1> QED
  BY <1>3, <1>8, <1>9, <1>10, Zenon DEF Kept, Perform

\* timerLoop() between two tasks, and the clock.
LEMMA IdleTimerKept ==
    ASSUME EInv, TimerEmpty \/ TimerSleep \/ TimerWake \/ Tick
    PROVE  Kept
<1> USE DEF EInv
<1>1. timer' = timer \/ (timer \in {"check", "asleep"} /\ timer' \in {"check", "asleep", "exit"})
  BY Zenon DEF TimerEmpty, TimerSleep, TimerWake, Tick
<1>2. timer' = "exit" => stopping
  BY Zenon DEF TimerEmpty, TimerSleep, TimerWake, Tick, Ending
<1>3. watch' \in 0 .. Never /\ now' \in 0 .. Horizon
  BY ExecutorAssumption DEF TimerEmpty, TimerSleep, TimerWake, Tick, Top, TypeOK, Never, time, Task
<1>4. /\ UNCHANGED <<fresh, queue, delayed, deadline, ending, pc, counters, runs>>
      /\ timer' # timer => ~Tick
  BY Zenon DEF TimerEmpty, TimerSleep, TimerWake, Tick, time
<1>5. TypeOK'
  BY <1>1, <1>3, <1>4, Zenon DEF TypeOK, ending, counters, Place
<1>6. Ending'
  BY <1>1, <1>2, <1>4, Zenon DEF Ending, ending, TypeOK
<1> QED
  BY <1>1, <1>4, <1>5, <1>6, QuietKept, Zenon DEF ending, Place

\* timerLoop() takes the delayed task with the earliest deadline.
LEMMA TimerTakeKeeps == ASSUME EInv, TimerTake PROVE Kept
<1> USE DEF EInv
<1>1. PICK t \in delayed : timer' = t /\ delayed' = delayed \ {t}
  BY Zenon DEF TimerTake, Top
<1>2. t \in Timed /\ t \in Task /\ timer = "check" /\ t \notin Place
  BY <1>1, ExecutorAssumption, Zenon DEF TimerTake, TypeOK, Task
<1>3. TypeOK'
  BY <1>1, <1>2, Zenon DEF TimerTake, TypeOK, time, ending, counters
<1>4. Queued' = Queued
  BY Zenon DEF TimerTake, Queued
<1>5. \A u \in Task : u \in Waiting' <=> u \in Waiting
  <2>1. \A u \in Task : u # timer
    BY <1>2, ExecutorAssumption, Zenon DEF Place
  <2> QED
    BY <1>1, <1>3, <1>4, <2>1, WaitingPlaces, WaitingPlacesNext, Zenon DEF TimerTake, ending
<1>6. Effect
  <2>1. Waiting' = Waiting
    BY <1>5, Zenon DEF Waiting
  <2> QED
    BY <2>1, Zenon DEF Effect, Same, TimerTake, ending
<1>7. Apart' /\ Ending'
  BY <1>1, <1>2, <1>4, Zenon DEF Apart, Ending, TimerTake, ending, Place
<1> QED
  BY <1>3, <1>6, <1>7, Zenon DEF Kept, TimerTake

\* timerLoop() runs the task it has taken.
LEMMA TimerPerformKept == ASSUME EInv, TimerPerform PROVE Kept
<1> USE DEF EInv
<1>1. timer \in Task /\ timer \in Timed /\ timer' = "check" /\ \A u \in Task : u # "check"
  BY ExecutorAssumption, Zenon DEF TimerPerform, TypeOK, Place
<1>2. runs' \in [Task -> Nat]
  BY DEF TimerPerform, Run, TypeOK
<1>3. TypeOK'
  BY <1>1, <1>2, Zenon DEF TimerPerform, TypeOK, time, ending, counters, Place
<1>4. Queued' = Queued
  BY Zenon DEF TimerPerform, Queued
<1>5. timer \in Waiting
  BY <1>1, WaitingPlaces, Zenon
<1>6. \A u \in Task : u \in Waiting' <=> u \in Waiting \ {timer}
  <2>1. timer \notin Queued /\ timer \notin delayed \cup left
    BY <1>1, QueuedTasks, Zenon DEF Apart
  <2>2. \A w \in Worker : pc[w] # timer
    BY <1>1, ExecutorAssumption, Zenon DEF TypeOK, Task
  <2> QED
    BY <1>1, <1>3, <1>4, <2>1, <2>2, WaitingPlaces, WaitingPlacesNext, Zenon DEF TimerPerform,
         ending
<1>7. Effect
  <2>1. Waiting' = Waiting \ {timer}
    BY <1>6, Zenon DEF Waiting
  <2> QED
    BY <1>1, <1>5, <2>1, Zenon DEF Effect, RunsOut, TimerPerform, ending
<1>8. Apart' /\ Ending'
  BY <1>1, <1>4, ExecutorAssumption, Zenon DEF Apart, Ending, TimerPerform, ending, TypeOK,
       Task, Place
<1> QED
  BY <1>3, <1>7, <1>8, Zenon DEF Kept, TimerPerform

\* shutdown() stops the executor and takes the delayed tasks over.
LEMMA ShutdownKept == ASSUME EInv, Shutdown PROVE Kept
<1> USE DEF EInv
<1>1. Roused /\ \A w \in Worker : pc'[w] = "none" <=> pc[w] = "none"
  BY Zenon DEF Shutdown, WakeWorkers, Roused, TypeOK, Place
<1>2. /\ timer' = timer \/ (timer = "asleep" /\ timer' = "check")
      /\ \A u \in Task : timer' = u <=> timer = u
  BY ExecutorAssumption, Zenon DEF Shutdown, Place
<1>3. left = {} /\ left' = delayed /\ delayed' = {} /\ Queued' = Queued
  BY Zenon DEF Shutdown, Ending, Queued
<1>4. TypeOK'
  <2>1. stopping' \in BOOLEAN
    BY Zenon DEF Shutdown
  <2> QED
    BY <1>1, <1>2, <1>3, <2>1, Zenon DEF Shutdown, TypeOK, time, counters, Roused, Place
<1>5. \A u \in Task : u \in Waiting' <=> u \in Waiting
  <2>1. \A u \in Task : (\E w \in Worker : pc'[w] = u) <=> (\E w \in Worker : pc[w] = u)
    BY <1>1, RousedHolds, Zenon
  <2> QED
    BY <1>2, <1>3, <1>4, <2>1, WaitingPlaces, WaitingPlacesNext, Zenon
<1>6. Effect
  <2>1. Waiting' = Waiting
    BY <1>5, Zenon DEF Waiting
  <2> QED
    BY <2>1, Zenon DEF Effect, Closes, Shutdown
<1>7. Apart'
  <2>1. \A w \in Worker : pc'[w] \notin Queued'
    BY <1>1, <1>3, QueuedTasks, Zenon DEF Roused, Apart, Place
  <2>2. \A v, w \in Worker : pc'[v] = pc'[w] /\ pc'[v] \in Task => v = w
    BY <1>1, RousedHolds, Zenon DEF Apart
  <2>3. timer' \notin delayed' \cup left'
    BY <1>2, <1>3, Zenon DEF Apart, TypeOK, Task
  <2> QED
    BY <1>3, <2>1, <2>2, <2>3, Zenon DEF Apart, Shutdown
<1>8. Ending'
  BY <1>1, <1>2, <1>3, RousedHolds, Zenon DEF Ending, Shutdown
<1> QED
  BY <1>4, <1>6, <1>7, <1>8, Zenon DEF Kept, Shutdown

\* shutdown() runs a delayed task it has taken over.
LEMMA ShutdownInlineKept == ASSUME EInv, ShutdownInline PROVE Kept
<1> USE DEF EInv
<1>1. PICK t \in left : Run(t) /\ left' = left \ {t}
  BY Zenon DEF ShutdownInline
<1>2. t \in Task /\ t \in Timed
  BY <1>1, Zenon DEF TypeOK, Task
<1>3. runs' \in [Task -> Nat]
  BY <1>1, <1>2 DEF Run, TypeOK
<1>4. TypeOK'
  BY <1>1, <1>3, Zenon DEF ShutdownInline, TypeOK, time, counters
<1>5. Queued' = Queued
  BY Zenon DEF ShutdownInline, Queued
<1>6. t \in Waiting
  BY <1>2, WaitingPlaces, Zenon
<1>7. \A u \in Task : u \in Waiting' <=> u \in Waiting \ {t}
  <2>1. t \notin Queued /\ t \notin delayed /\ timer # t
    BY <1>2, QueuedTasks, Zenon DEF Apart
  <2>2. \A w \in Worker : pc[w] # t
    BY <1>2, ExecutorAssumption, Zenon DEF TypeOK, Task
  <2> QED
    BY <1>1, <1>4, <1>5, <2>1, <2>2, WaitingPlaces, WaitingPlacesNext, Zenon DEF ShutdownInline
<1>8. Effect
  <2>1. Waiting' = Waiting \ {t}
    BY <1>7, Zenon DEF Waiting
  <2> QED
    BY <1>1, <1>2, <1>6, <2>1, Zenon DEF Effect, RunsOut, ShutdownInline
<1>9. Apart' /\ Ending'
  BY <1>1, <1>5, Zenon DEF Apart, Ending, ShutdownInline
<1> QED
  BY <1>4, <1>8, <1>9, Zenon DEF Kept, ShutdownInline

\* shutdown() returns once the threads have ended.
LEMMA ShutdownJoinKept == ASSUME EInv, ShutdownJoin PROVE Kept
<1>1. TypeOK' /\ Ending'
  BY Zenon DEF EInv, ShutdownJoin, TypeOK, Ending, time, counters
<1> QED
  BY <1>1, QuietKept, Zenon DEF ShutdownJoin

-----------------------------------------------------------------------------
(* The counters of stats() and the bound of the queue.                     *)

\* Every step keeps the counters in agreement with the queue and the workers.
LEMMA StatsKept == ASSUME EInv, Next PROVE StatsAddUp'
<1> USE DEF EInv
<1>0. IsFiniteSet(Busy) /\ Len(queue) \in Nat
  BY ExecutorAssumption, FS_Subset DEF Busy, TypeOK
<1>1. ASSUME Busy' = Busy, UNCHANGED <<queue, counters>> PROVE StatsAddUp'
  BY <1>1, Zenon DEF StatsAddUp, counters
<1>2. ASSUME NEW t \in Task, TryPost(t) \/ TryPostContinuation(t) PROVE StatsAddUp'
  <2>1. Busy' = Busy
    BY <1>2, StartRouses, RousedHolds, Zenon DEF TryPost, TryPostContinuation, Enqueue
  <2>2. CASE UNCHANGED <<queue, submitted>>
    BY <1>1, <1>2, <2>1, <2>2, Zenon DEF TryPost, TryPostContinuation, counters
  <2>3. CASE Enqueue(t)
    <3>1. t \in Plain \cup Follow
      BY <1>2, Zenon DEF TryPost, TryPostContinuation
    <3>2. Len(queue') = Len(queue) + 1
      BY <2>3, <3>1, AppendQueued DEF Enqueue, TypeOK
    <3> QED
      BY <1>0, <1>2, <2>1, <2>3, <3>2 DEF TryPost, TryPostContinuation, Enqueue, StatsAddUp, TypeOK
  <2> QED
    BY <1>2, <2>2, <2>3, Zenon DEF TryPost, TryPostContinuation
<1>3. ASSUME NEW t \in Task, Refuse(t) \/ PostAfter(t) \/ RunInline(t) PROVE StatsAddUp'
  <2>1. CASE PostAfter(t)
    BY <1>1, <2>1, StartRouses, RousedHolds, Zenon DEF PostAfter
  <2>2. CASE Refuse(t) \/ RunInline(t)
    BY <1>1, <2>2, Zenon DEF Refuse, RunInline, Busy
  <2> QED
    BY <1>3, <2>1, <2>2, Zenon
<1>4. ASSUME NEW w \in Worker, Rest(w) \/ Perform(w) PROVE StatsAddUp'
  <2>1. Busy' = Busy
    BY <1>4, ExecutorAssumption, Zenon DEF Rest, Perform, At, Busy, TypeOK, Place
  <2> QED
    BY <1>1, <1>4, <2>1, Zenon DEF Rest, Perform
<1>5. ASSUME NEW w \in Worker, Take(w) PROVE StatsAddUp'
  <2>1. Len(queue') = Len(queue) - 1 /\ Head(queue) \in Plain \cup Follow
    BY <1>5, TailQueued, Zenon DEF Take, TypeOK, Apart
  <2>2. Busy' = Busy \cup {w} /\ w \notin Busy
    BY <1>5, <2>1, ExecutorAssumption DEF Take, At, Busy, TypeOK, Place, Task
  <2>3. Cardinality(Busy') = Cardinality(Busy) + 1
    BY <1>0, <2>2, FS_AddElement, Zenon
  <2> QED
    BY <1>0, <1>5, <2>1, <2>3 DEF Take, StatsAddUp, TypeOK
<1>6. ASSUME NEW w \in Worker, Report(w) PROVE StatsAddUp'
  <2>1. Busy' = Busy \ {w} /\ w \in Busy
    BY <1>6, ExecutorAssumption, Zenon DEF Report, At, Busy, TypeOK, Place
  <2>2. Cardinality(Busy') = Cardinality(Busy) - 1
    BY <1>0, <2>1, FS_RemoveElement, Zenon
  <2> QED
    BY <1>0, <1>6, <2>2 DEF Report, StatsAddUp, TypeOK
<1>7. CASE TimerStep \/ Tick \/ CloserStep
  <2>1. UNCHANGED <<queue, counters, pc>>
    BY <1>7, Zenon DEF TimerStep, TimerEmpty, TimerSleep, TimerWake, TimerTake, TimerPerform,
         Tick, CloserStep, ShutdownInline, ShutdownJoin
  <2> QED
    BY <1>1, <2>1, Zenon DEF Busy
<1>8. CASE Shutdown
  <2>1. Roused
    BY <1>8, Zenon DEF Shutdown, WakeWorkers, Roused, TypeOK, Place
  <2> QED
    BY <1>1, <1>8, <2>1, RousedHolds, Zenon DEF Shutdown
<1> QED
  BY <1>2, <1>3, <1>4, <1>5, <1>6, <1>7, <1>8, Zenon DEF Next, Call, WorkerStep

\* Every step of the specification preserves the invariant, with one of the effects.
LEMMA NextExecutor == ASSUME EInv, Next PROVE EInv' /\ Effect
<1>1. Kept
  BY TryPostKept, TryPostContinuationKept, RefuseKept, PostAfterKept, RunInlineKept,
       IdleWorkerKept, TakeKept, PerformKept, IdleTimerKept, TimerTakeKeeps, TimerPerformKept,
       ShutdownKept, ShutdownInlineKept, ShutdownJoinKept, Zenon DEF Next, Call, WorkerStep,
       TimerStep, CloserStep
<1>2. Once'
  BY <1>1, EffectOnce, Zenon DEF EInv, Kept
<1> QED
  BY <1>1, <1>2, StatsKept, Zenon DEF EInv, Kept

\* Nor does a stuttering step disturb it.
LEMMA StutterExecutor == ASSUME EInv, UNCHANGED vars PROVE EInv'
BY Zenon DEF EInv, vars, TypeOK, Once, Apart, Ending, StatsAddUp, Busy, Waiting, Queued, time,
     ending, counters

\* The invariant holds in every reachable state.
THEOREM ExecutorInvariant == Spec => []EInv
<1>1. EInv /\ [Next]_vars => EInv'
  BY NextExecutor, StutterExecutor, Zenon
<1> QED
  BY <1>1, InitExecutor, PTL DEF Spec

\* The queue, the threads and the counters of the executor keep their types.
THEOREM ExecutorTyped == Spec => []TypeOK
<1>1. EInv => TypeOK
  BY Zenon DEF EInv
<1> QED
  BY <1>1, ExecutorInvariant, PTL

\* stats() adds up whenever the lock is free.
THEOREM ExecutorStats == Spec => []StatsAddUp
<1>1. EInv => StatsAddUp
  BY Zenon DEF EInv
<1> QED
  BY <1>1, ExecutorInvariant, PTL

\* A queue holds no more tasks than its length.
LEMMA QueuedFinite ==
    ASSUME NEW S, NEW q \in Seq(S)
    PROVE  IsFiniteSet(Range(q)) /\ Cardinality(Range(q)) <= Len(q)
<1>1. Len(q) \in Nat /\ q \in Surjection(1 .. Len(q), Range(q))
  BY DEF Range, Surjection
<1>2. \A n \in Nat : IsFiniteSet(1 .. n) /\ Cardinality(1 .. n) = n
  <2> TAKE n \in Nat
  <2>1. 1 \in Int /\ n \in Int
    OBVIOUS
  <2>2. /\ IsFiniteSet(1 .. n)
        /\ Cardinality(1 .. n) = IF 1 > n THEN 0 ELSE n - 1 + 1
    BY <2>1, FS_Interval, Zenon
  <2> QED
    BY <2>2
<1> QED
  BY <1>1, <1>2, FS_Surjection

\* Continuations never make room for more submissions: at most queueLimit_ of the tasks in
\* queue_ came through tryPost().
THEOREM SubmissionsBounded == Spec => []QueueBound
<1>1. Init => QueueBound
  <2> SUFFICES ASSUME Init PROVE QueueBound
    BY Zenon
  <2>1. Queued \cap Plain = {}
    BY DEF Init, Queued, Range
  <2> QED
    BY <2>1, FS_EmptySet, ExecutorAssumption DEF QueueBound
<1>2. EInv /\ QueueBound /\ [Next]_vars => QueueBound'
  <2> SUFFICES ASSUME EInv, QueueBound, [Next]_vars PROVE QueueBound'
    BY Zenon
  <2> DEFINE Q == Queued \cap Plain
  <2>1. queue \in Seq(Plain \cup Follow) /\ Distinct(queue)
    BY Zenon DEF EInv, TypeOK, Apart
  <2>2. IsFiniteSet(Queued) /\ Cardinality(Queued) <= Len(queue) /\ Len(queue) \in Nat
    BY <2>1, QueuedFinite DEF Queued
  <2>3. /\ IsFiniteSet(Q) /\ Cardinality(Q) \in Nat /\ Cardinality(Queued) \in Nat
        /\ Cardinality(Q) <= Cardinality(Queued)
    BY <2>2, FS_Subset, FS_CardinalityType, Zenon
  <2>4. CASE queue' = queue
    BY <2>4, Zenon DEF QueueBound, Queued
  <2>5. ASSUME NEW w \in Worker, Take(w) PROVE QueueBound'
    <3>1. Q' \subseteq Q
      BY <2>1, <2>5, TailQueued, Zenon DEF Take, Queued
    <3>2. Cardinality(Q') <= Cardinality(Q) /\ Cardinality(Q') \in Nat
      BY <2>3, <3>1, FS_Subset, FS_CardinalityType, Zenon
    <3> QED
      BY <2>3, <3>2, ExecutorAssumption DEF QueueBound
  <2>6. ASSUME NEW t \in Follow, Enqueue(t) PROVE QueueBound'
    <3>1. Queued' = Queued \cup {t}
      BY <2>1, <2>6, AppendQueued DEF Enqueue, Queued
    <3>2. Q' = Q
      BY <3>1, ExecutorAssumption, Zenon
    <3> QED
      BY <3>2, Zenon DEF QueueBound
  <2>7. ASSUME NEW t \in Plain, Enqueue(t), ~(Len(queue) >= Limit) PROVE QueueBound'
    <3>1. Queued' = Queued \cup {t}
      BY <2>1, <2>7, AppendQueued DEF Enqueue, Queued
    <3>2. Q' = Q \cup {t}
      BY <3>1, Zenon
    <3> HIDE DEF Q
    <3>3. Cardinality(Q') <= Cardinality(Q) + 1
      BY <2>3, <3>2, FS_AddElement
    <3>4. Cardinality(Q') \in Nat
      BY <2>3, <3>2, FS_AddElement, FS_CardinalityType, Zenon
    <3>5. Cardinality(Q') <= Limit
      BY <2>2, <2>3, <2>7, <3>3, <3>4, ExecutorAssumption
    <3> QED
      BY <3>5, Zenon DEF QueueBound, Q
  <2>8. \/ queue' = queue
        \/ \E w \in Worker : Take(w)
        \/ \E t \in Follow : Enqueue(t)
        \/ \E t \in Plain : Enqueue(t) /\ ~(Len(queue) >= Limit)
    BY Zenon DEF Next, vars, Call, WorkerStep, TimerStep, CloserStep, TryPost,
        TryPostContinuation, Refuse,
           PostAfter, RunInline, Rest, Perform, Report, TimerEmpty, TimerSleep, TimerWake,
           TimerTake, TimerPerform, Tick, Shutdown, ShutdownInline, ShutdownJoin
  <2> QED
    BY <2>4, <2>5, <2>6, <2>7, <2>8, Zenon
<1> QED
  BY <1>1, <1>2, ExecutorInvariant, PTL DEF Spec

\* When shutdown() has returned, no task the executor took on is left behind.
THEOREM ShutdownDrains == Spec => []Drained
<1>1. EInv => Drained
  <2> SUFFICES ASSUME EInv, closer = "done" PROVE Waiting = {}
    BY Zenon DEF Drained
  <2> USE DEF EInv
  <2>1. stopping /\ left = {} /\ delayed = {}
    BY Zenon DEF Ending
  <2>2. timer \in {"none", "exit"} /\ \A w \in Worker : pc[w] \in {"none", "exit"}
    BY Zenon DEF Ending
  <2>3. queue = <<>>
    BY <2>2, ExecutorAssumption, Zenon DEF Ending
  <2>4. Queued = {}
    BY <2>3 DEF Queued, Range
  <2>5. \A t \in Task : t \notin Waiting
    BY <2>1, <2>2, <2>4, WaitingPlaces, ExecutorAssumption, Zenon DEF Place
  <2> QED
    BY <2>5, Zenon DEF Waiting
<1> QED
  BY <1>1, ExecutorInvariant, PTL

\* The executor implements the task service: whatever the interleaving of callers, workers,
\* the timer and shutdown(), a task it takes on is run at most once and never lost.
THEOREM ExecutorImplements == Spec => ImplementsService
<1> DEFINE ran == {t \in Task : runs[t] > 0}
<1>1. Init => Service!Init
  <2> SUFFICES ASSUME Init PROVE Service!Init
    BY Zenon
  <2>1. Waiting = {}
    <3>1. Queued = {} /\ TypeOK
      BY InitExecutor DEF Init, Queued, Range, EInv
    <3>2. \A t \in Task : t \notin Waiting
      BY <3>1, WaitingPlaces, ExecutorAssumption, Zenon DEF Init, Place
    <3> QED
      BY <3>2, Zenon DEF Waiting
  <2>2. ran = {}
    BY DEF Init
  <2> QED
    BY <2>1, <2>2, Zenon DEF Init, Service!Init
<1>2. EInv /\ [Next]_vars => [Service!Next]_<<Waiting, ran, ~stopping>>
  <2> SUFFICES ASSUME EInv, [Next]_vars
               PROVE  [Service!Next]_<<Waiting, ran, ~stopping>>
    BY Zenon
  <2>1. CASE UNCHANGED vars
    BY <2>1, Zenon DEF vars, Waiting, Queued, ending
  <2>2. ASSUME NEW t \in Task, Run(t), runs[t] = 0 PROVE ran' = ran \cup {t}
    BY <2>2 DEF EInv, TypeOK, Run
  <2>3. CASE Next
    <3>0. Waiting \subseteq Task /\ \A t \in fresh \cup Waiting : t \notin ran /\ runs[t] = 0
      BY DEF Waiting, EInv, Once
    <3>1. CASE Same
      BY <3>1, Zenon DEF Same
    <3>2. CASE Closes
      <4>1. Service!Close
        BY <3>2, Zenon DEF Closes, Service!Close
      <4> QED
        BY <4>1, Zenon DEF Service!Next
    <3>3. ASSUME NEW t \in Task, Accepts(t) PROVE Service!Next
      <4>1. t \in Task \ (Waiting \cup ran)
        BY <3>0, <3>3, Zenon DEF Accepts, EInv, Once
      <4>2. Service!Accept
        BY <3>3, <4>1, Zenon DEF Accepts, Service!Accept
      <4> QED
        BY <4>2, Zenon DEF Service!Next
    <3>4. ASSUME NEW t \in Task, RunsOut(t) PROVE Service!Next
      <4>1. ran' = ran \cup {t}
        BY <2>2, <3>0, <3>4, Zenon DEF RunsOut
      <4>2. Service!Run
        BY <3>4, <4>1, Zenon DEF RunsOut, Service!Run
      <4> QED
        BY <4>2, Zenon DEF Service!Next
    <3>5. ASSUME NEW t \in Task, RunsNow(t) PROVE Service!Next
      <4>1. ran' = ran \cup {t} /\ t \in Task \ (Waiting \cup ran)
        BY <2>2, <3>0, <3>5, Zenon DEF RunsNow, EInv, Once
      <4>2. Service!RunNow
        BY <3>5, <4>1, Zenon DEF RunsNow, Service!RunNow
      <4> QED
        BY <4>2, Zenon DEF Service!Next
    <3> QED
      BY <2>3, <3>1, <3>2, <3>3, <3>4, <3>5, NextExecutor, Zenon DEF Effect
  <2> QED
    BY <2>1, <2>3, Zenon
<1>3. EInv => \A t \in Task : runs[t] <= 1
  BY DEF EInv, Once
<1> QED
  BY <1>1, <1>2, <1>3, ExecutorInvariant, PTL DEF Spec, ImplementsService, Service!Spec
===============================================================================
