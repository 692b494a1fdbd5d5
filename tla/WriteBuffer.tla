---------------------------- MODULE WriteBuffer ----------------------------
(* The write buffer of a data source group (core/write_buffer.cpp): a       *)
(* bounded queue of writes that found no writable source, and the flush     *)
(* thread that replays them.  Every critical section of mtx_ is one action; *)
(* the flush thread works on its local batch and retry queues without it.   *)
EXTENDS Integers, Sequences, Functions

CONSTANTS
    Write,      \* the buffered tasks
    MaxQueue,   \* cfg_.max_queue
    Ttl         \* cfg_.ttl_ms > 0

ASSUME BufferAssumption ==
    /\ MaxQueue \in Nat \ {0}      \* the constructor raises it to 1
    /\ Ttl \in BOOLEAN

VARIABLES
    queue,      \* q_
    batch,      \* run(): batch
    retry,      \* run(): retry
    stop,       \* stop_
    running,    \* running_
    finalPass,  \* run(): finalPass
    flusher,    \* where the flush thread is
    stopper,    \* where the thread that calls stop() is
    fate,       \* history: what has become of each write
    order,      \* history: the place of each accepted write in the order of acceptance
    taken       \* history: how many writes have been accepted

threadVars == <<batch, retry, finalPass, flusher>>
lifeVars == <<stop, running, stopper>>
historyVars == <<fate, order, taken>>
bufferVars == <<queue, threadVars, lifeVars, historyVars>>

\* What a replayed task answers: "again" is retryable or connectionBroken; "unsent" is
\* neither, and the write was turned away before it was sent.
Answer == {"ok", "again", "unsent", "failed"}

Fate == {"none", "queued", "done", "expired", "refused", "failed", "overflow", "abandoned"}

BufferInit ==
    /\ queue = <<>> /\ batch = <<>> /\ retry = <<>>
    /\ stop = FALSE /\ running = FALSE /\ finalPass = FALSE
    /\ flusher = "off" /\ stopper = "idle"
    /\ fate = [w \in Write |-> "none"]
    /\ order = [w \in Write |-> 0]
    /\ taken = 0

----------------------------------------------------------------------------
(* enqueue(), start() and stop().                                           *)

\* Mutant: writes are accepted after stop() has begun.
AcceptsLate == running /\ Len(queue) < MaxQueue

\* enqueue() takes a task.
Accepts == ~stop /\ running /\ Len(queue) < MaxQueue

\* enqueue() of a task that is accepted; a refused one changes nothing.
Enqueue(w) ==
    /\ Accepts
    /\ fate[w] = "none"
    /\ queue' = Append(queue, w)
    /\ taken' = taken + 1
    /\ order' = [order EXCEPT ![w] = taken + 1]
    /\ fate' = [fate EXCEPT ![w] = "queued"]
    /\ UNCHANGED <<threadVars, lifeVars>>

Start ==
    /\ ~running
    /\ running' = TRUE
    /\ stop' = FALSE
    /\ flusher' = "wait"
    /\ UNCHANGED <<queue, batch, retry, finalPass, stopper, historyVars>>

\* The first half of stop(): it then joins the thread.
Stop ==
    /\ stopper = "idle" /\ running
    /\ stop' = TRUE
    /\ stopper' = "join"
    /\ UNCHANGED <<queue, threadVars, running, historyVars>>

Joined ==
    /\ stopper = "join" /\ flusher = "off"
    /\ running' = FALSE
    /\ stopper' = "idle"
    /\ UNCHANGED <<queue, threadVars, stop, historyVars>>

----------------------------------------------------------------------------
(* run(): the flush thread.                                                 *)

\* The wait ends, by the interval or by stop_, and the queue is taken over.
Swap ==
    /\ flusher = "wait"
    /\ finalPass' = stop
    /\ batch' = queue
    /\ queue' = <<>>
    /\ flusher' = "flush"
    /\ UNCHANGED <<retry, lifeVars, historyVars>>

\* An item older than ttl_ms is dropped.
Expire ==
    /\ flusher = "flush" /\ batch # <<>> /\ Ttl
    /\ batch' = Tail(batch)
    /\ fate' = [fate EXCEPT ![Head(batch)] = "expired"]
    /\ UNCHANGED <<queue, retry, finalPass, flusher, lifeVars, order, taken>>

\* The task of the first item has run and answered.
Replay(answer) ==
    /\ flusher = "flush" /\ batch # <<>>
    /\ batch' = Tail(batch)
    /\ LET again == ~finalPass /\ answer = "again"
       IN  /\ retry' = IF again THEN Append(retry, Head(batch)) ELSE retry
           /\ fate' = [fate EXCEPT ![Head(batch)] =
                          IF answer = "ok" THEN "done"
                          ELSE IF again THEN "queued"
                          ELSE IF answer = "unsent" /\ ~finalPass THEN "refused"
                          ELSE "failed"]
    /\ UNCHANGED <<queue, finalPass, flusher, lifeVars, order, taken>>

\* The batch is empty: put back what is to be tried again, or end, or sleep.
Flushed ==
    /\ flusher = "flush" /\ batch = <<>>
    /\ flusher' = IF retry # <<>> THEN "requeue"
                  ELSE IF finalPass THEN "clear" ELSE "wait"
    /\ UNCHANGED <<queue, batch, retry, finalPass, lifeVars, historyVars>>

\* What fits of a queue, and the writes that do not.
Kept(s) == SubSeq(s, 1, IF Len(s) < MaxQueue THEN Len(s) ELSE MaxQueue)
Dropped(s) == {s[i] : i \in (MaxQueue + 1) .. Len(s)}

RequeueWith(all) ==
    /\ flusher = "requeue"
    /\ queue' = Kept(all)
    /\ fate' = [w \in Write |-> IF w \in Dropped(all) THEN "overflow" ELSE fate[w]]
    /\ retry' = <<>>
    /\ flusher' = IF finalPass THEN "clear" ELSE "wait"
    /\ UNCHANGED <<batch, finalPass, lifeVars, order, taken>>

\* The items to be tried again go in front of those that arrived meanwhile.
Requeue == RequeueWith(retry \o queue)

\* The final pass gives up what is still queued, and the thread ends.
Clear ==
    /\ flusher = "clear"
    /\ fate' = [w \in Write |-> IF w \in Range(queue) THEN "abandoned" ELSE fate[w]]
    /\ queue' = <<>>
    /\ flusher' = "off"
    /\ UNCHANGED <<batch, retry, finalPass, lifeVars, order, taken>>

\* The steps of the thread that no caller sees.
Housekeeping == Swap \/ Expire \/ Flushed \/ Requeue \/ Clear

Life == Start \/ Stop \/ Joined

BufferNext ==
    \/ \E w \in Write : Enqueue(w)
    \/ \E answer \in Answer : Replay(answer)
    \/ Housekeeping
    \/ Life

BufferSpec == BufferInit /\ [][BufferNext]_bufferVars

----------------------------------------------------------------------------
(* Properties.                                                              *)

\* The ranges of the buffer's state; q_ never holds more than max_queue.
BufferTypeOK ==
    /\ queue \in Seq(Write) /\ batch \in Seq(Write) /\ retry \in Seq(Write)
    /\ Len(queue) <= MaxQueue
    /\ stop \in BOOLEAN /\ running \in BOOLEAN /\ finalPass \in BOOLEAN
    /\ flusher \in {"off", "wait", "flush", "requeue", "clear"}
    /\ stopper \in {"idle", "join"}
    /\ fate \in [Write -> Fate]
    /\ order \in [Write -> Nat]
    /\ taken \in Nat

\* All that is still to be written, in the order in which it will be tried.
Pending == retry \o batch \o queue

Sorted(s) == \A i, j \in DOMAIN s : i < j => order[s[i]] < order[s[j]]

\* Putting failed writes back never lets a later write overtake them in the
\* queue: what is pending is in the order of acceptance, each write once.
InOrder == Sorted(Pending)

\* An accepted write is pending until the flush thread has taken it out of the queue: to
\* replay it, whatever the answer, or because it has expired, or for lack of room.  stop()
\* abandons none of them without a last replay.
NothingLost ==
    /\ \A w \in Write : fate[w] = "queued" <=> w \in Range(Pending)
    /\ \A w \in Write : fate[w] # "abandoned"

\* Stated by docs/guide_en.md:497 ("the write enters a bounded in-memory queue and is
\* replayed by a background flush thread after the primary recovers"): a write is not given
\* up because the primary has not recovered yet, as long as the buffer is running.
KeptUntilRecovery == \A w \in Write : fate[w] # "refused"

=============================================================================
