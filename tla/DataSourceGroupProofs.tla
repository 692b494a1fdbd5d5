----------------------- MODULE DataSourceGroupProofs -----------------------
(* Proofs about WriteBuffer and about the DataSourceGroup around it, for any *)
(* sources, writes, requests, calls and queue length.                       *)
(* The first part follows the three queues of the flush thread: the writes  *)
(* that are pending stay in the order of acceptance, and none is lost.  The *)
(* second is about the steps of the group: each is a step of WriteBuffer or *)
(* leaves the buffer alone, the types are kept, and nothing changes that    *)
(* the invariant says of a request other than the step's own.  The third:   *)
(* writes are executed once, shadow writes stay on the shadow source, and a *)
(* scope reads its own writes.                                              *)
EXTENDS DataSourceGroup, TLAPS

Rising(s, f) == \A i, j \in DOMAIN s : i < j => f[s[i]] < f[s[j]]

Before(s, t, f) == \A x \in Range(s), y \in Range(t) : f[x] < f[y]

----------------------------------------------------------------------------
(* Sequences and the places of their elements.                              *)

\* What a sequence holds.
LEMMA RangeOfSequence ==
  ASSUME NEW S, NEW s \in Seq(S)
  PROVE  /\ Range(s) \subseteq S
         /\ \A x : x \in Range(s) <=> \E i \in 1 .. Len(s) : s[i] = x
  BY DEF Range

\* run() takes the items of its batch one by one.
LEMMA RangeOfTail ==
  ASSUME NEW S, NEW s \in Seq(S), s # <<>>
  PROVE  /\ Head(s) \in S /\ Tail(s) \in Seq(S)
         /\ Range(s) = {Head(s)} \cup Range(Tail(s))
<1>1. /\ Head(s) = s[1] /\ Tail(s) \in Seq(S) /\ Len(s) \in Nat \ {0} /\ Head(s) \in S
      /\ Len(Tail(s)) = Len(s) - 1
      /\ \A i \in 1 .. Len(s) - 1 : Tail(s)[i] = s[i + 1]
  OBVIOUS
<1>t. \A x : x \in Range(Tail(s)) <=> \E i \in 1 .. Len(s) - 1 : Tail(s)[i] = x
  <2>1. \A x : x \in Range(Tail(s)) <=> \E i \in 1 .. Len(Tail(s)) : Tail(s)[i] = x
    <3> DEFINE t == Tail(s)
    <3>1. t \in Seq(S)
      BY <1>1, Zenon
    <3> HIDE DEF t
    <3>2. \A x : x \in Range(t) <=> \E i \in 1 .. Len(t) : t[i] = x
      BY <3>1, RangeOfSequence, Zenon
    <3> QED
      BY <3>2, Zenon DEF t
  <2> QED
    BY <2>1, <1>1, Zenon
<1>2. ASSUME NEW x, x \in Range(s) PROVE x \in {Head(s)} \cup Range(Tail(s))
  <2>1. PICK i \in 1 .. Len(s) : s[i] = x
    BY <1>2, RangeOfSequence, Zenon
  <2>2. CASE i = 1
    BY <2>1, <2>2, <1>1, Zenon
  <2>3. CASE i # 1
    <3>1. i - 1 \in 1 .. Len(s) - 1 /\ Tail(s)[i - 1] = x
      BY <2>1, <2>3, <1>1
    <3> QED
      BY <3>1, <1>t, Zenon
  <2> QED
    BY <2>2, <2>3, Zenon
<1>3. ASSUME NEW x, x \in Range(Tail(s)) PROVE x \in Range(s)
  <2>1. PICK i \in 1 .. Len(s) - 1 : Tail(s)[i] = x
    BY <1>3, <1>t, Zenon
  <2>2. i + 1 \in 1 .. Len(s) /\ s[i + 1] = x
    BY <2>1, <1>1
  <2> QED
    BY <2>2, RangeOfSequence, Zenon
<1>4. Head(s) \in Range(s)
  <2>1. 1 \in 1 .. Len(s) /\ s[1] = Head(s)
    BY <1>1
  <2> QED
    BY <2>1, RangeOfSequence, Zenon
<1> QED
  BY <1>1, <1>2, <1>3, <1>4, Zenon

\* enqueue(), and run() when an item is to be tried again.
LEMMA RangeOfAppend ==
  ASSUME NEW S, NEW s \in Seq(S), NEW x \in S
  PROVE  Append(s, x) \in Seq(S) /\ Range(Append(s, x)) = Range(s) \cup {x}
<1>1. /\ Append(s, x) \in Seq(S) /\ Len(Append(s, x)) = Len(s) + 1 /\ Len(s) \in Nat
      /\ \A i \in 1 .. Len(s) : Append(s, x)[i] = s[i]
      /\ Append(s, x)[Len(s) + 1] = x
  OBVIOUS
<1>2. ASSUME NEW y, y \in Range(Append(s, x)) PROVE y \in Range(s) \cup {x}
  <2>1. PICK i \in 1 .. Len(s) + 1 : Append(s, x)[i] = y
    BY <1>2, <1>1 DEF Range
  <2>2. i \in 1 .. Len(s) \/ i = Len(s) + 1
    BY <1>1
  <2> QED
    BY <2>1, <2>2, <1>1, RangeOfSequence, Zenon
<1>3. ASSUME NEW y, y \in Range(s) PROVE y \in Range(Append(s, x))
  <2>1. PICK i \in 1 .. Len(s) : s[i] = y
    BY <1>3, RangeOfSequence, Zenon
  <2>2. i \in 1 .. Len(s) + 1 /\ Append(s, x)[i] = y
    BY <2>1, <1>1
  <2> QED
    BY <2>2, <1>1, RangeOfSequence, Zenon
<1>4. x \in Range(Append(s, x))
  <2>1. Len(s) + 1 \in 1 .. Len(Append(s, x))
    BY <1>1
  <2> QED
    BY <2>1, <1>1, RangeOfSequence, Zenon
<1> QED
  BY <1>1, <1>2, <1>3, <1>4, Zenon

\* The items to be tried again, followed by those that have arrived.
LEMMA RangeOfConcat ==
  ASSUME NEW S, NEW s \in Seq(S), NEW t \in Seq(S)
  PROVE  s \o t \in Seq(S) /\ Range(s \o t) = Range(s) \cup Range(t)
<1>1. /\ s \o t \in Seq(S) /\ Len(s \o t) = Len(s) + Len(t)
      /\ Len(s) \in Nat /\ Len(t) \in Nat
      /\ \A i \in 1 .. Len(s) : (s \o t)[i] = s[i]
      /\ \A i \in 1 .. Len(t) : (s \o t)[Len(s) + i] = t[i]
  OBVIOUS
<1>2. ASSUME NEW y, y \in Range(s \o t) PROVE y \in Range(s) \cup Range(t)
  <2>1. PICK i \in 1 .. Len(s) + Len(t) : (s \o t)[i] = y
    BY <1>2, <1>1 DEF Range
  <2>2. CASE i \in 1 .. Len(s)
    BY <2>1, <2>2, <1>1, RangeOfSequence, Zenon
  <2>3. CASE i \notin 1 .. Len(s)
    <3>1. i - Len(s) \in 1 .. Len(t) /\ i = Len(s) + (i - Len(s))
      BY <2>3, <1>1
    <3>2. t[i - Len(s)] = y
      BY <3>1, <2>1, <1>1, Zenon
    <3> QED
      BY <3>1, <3>2, RangeOfSequence, Zenon
  <2> QED
    BY <2>2, <2>3, Zenon
<1>3. ASSUME NEW y, y \in Range(s) PROVE y \in Range(s \o t)
  <2>1. PICK i \in 1 .. Len(s) : s[i] = y
    BY <1>3, RangeOfSequence, Zenon
  <2>2. i \in 1 .. Len(s \o t) /\ (s \o t)[i] = y
    BY <2>1, <1>1
  <2> QED
    BY <2>2, <1>1, RangeOfSequence, Zenon
<1>4. ASSUME NEW y, y \in Range(t) PROVE y \in Range(s \o t)
  <2>1. PICK i \in 1 .. Len(t) : t[i] = y
    BY <1>4, RangeOfSequence, Zenon
  <2>2. Len(s) + i \in 1 .. Len(s \o t) /\ (s \o t)[Len(s) + i] = y
    BY <2>1, <1>1
  <2> QED
    BY <2>2, <1>1, RangeOfSequence, Zenon
<1> QED
  BY <1>1, <1>2, <1>3, <1>4, Zenon

\* Places rise along a concatenation if they rise along its parts and every
\* place of the first part is below every place of the second.
LEMMA RisingConcat ==
  ASSUME NEW S, NEW s \in Seq(S), NEW t \in Seq(S), NEW f \in [S -> Nat],
         Rising(s, f), Rising(t, f), Before(s, t, f)
  PROVE  Rising(s \o t, f)
<1>1. /\ s \o t \in Seq(S) /\ Len(s \o t) = Len(s) + Len(t)
      /\ Len(s) \in Nat /\ Len(t) \in Nat
      /\ DOMAIN s = 1 .. Len(s) /\ DOMAIN t = 1 .. Len(t)
      /\ DOMAIN (s \o t) = 1 .. Len(s) + Len(t)
      /\ \A i \in 1 .. Len(s) : (s \o t)[i] = s[i]
      /\ \A i \in 1 .. Len(t) : (s \o t)[Len(s) + i] = t[i]
  OBVIOUS
<1>2. SUFFICES ASSUME NEW i \in 1 .. Len(s) + Len(t), NEW j \in 1 .. Len(s) + Len(t), i < j
               PROVE  f[(s \o t)[i]] < f[(s \o t)[j]]
  BY <1>1, Zenon DEF Rising
<1>3. CASE j \in 1 .. Len(s)
  <2>1. i \in 1 .. Len(s) /\ i \in DOMAIN s /\ j \in DOMAIN s
    BY <1>1, <1>2, <1>3
  <2>2. f[s[i]] < f[s[j]]
    BY <1>2, <2>1, Zenon DEF Rising
  <2> QED
    BY <2>1, <2>2, <1>1, <1>3, Zenon
<1>4. CASE i \in 1 .. Len(s) /\ j \notin 1 .. Len(s)
  <2>1. j - Len(s) \in 1 .. Len(t) /\ j = Len(s) + (j - Len(s))
    BY <1>1, <1>2, <1>4
  <2>2. s[i] \in Range(s) /\ t[j - Len(s)] \in Range(t)
    BY <2>1, <1>4, RangeOfSequence, Zenon
  <2>3. f[s[i]] < f[t[j - Len(s)]]
    BY <2>2, Zenon DEF Before
  <2>4. (s \o t)[i] = s[i] /\ (s \o t)[j] = t[j - Len(s)]
    BY <2>1, <1>4, <1>1, Zenon
  <2> QED
    BY <2>3, <2>4, Zenon
<1>5. CASE i \notin 1 .. Len(s)
  <2>1. /\ j - Len(s) \in 1 .. Len(t) /\ j = Len(s) + (j - Len(s))
        /\ i - Len(s) \in 1 .. Len(t) /\ i = Len(s) + (i - Len(s))
        /\ i - Len(s) < j - Len(s)
    BY <1>1, <1>2, <1>5
  <2>2. f[t[i - Len(s)]] < f[t[j - Len(s)]]
    BY <2>1, <1>1, Zenon DEF Rising
  <2>3. (s \o t)[i] = t[i - Len(s)] /\ (s \o t)[j] = t[j - Len(s)]
    BY <2>1, <1>1, Zenon
  <2> QED
    BY <2>2, <2>3, Zenon
<1> QED
  BY <1>3, <1>4, <1>5, Zenon

\* The first item of a rising queue is below the others.
LEMMA RisingTail ==
  ASSUME NEW S, NEW s \in Seq(S), s # <<>>, NEW f \in [S -> Nat], Rising(s, f)
  PROVE  Rising(Tail(s), f) /\ \A x \in Range(Tail(s)) : f[Head(s)] < f[x]
<1> DEFINE t == Tail(s)
<1>1. /\ Head(s) = s[1] /\ t \in Seq(S) /\ Len(s) \in Nat \ {0}
      /\ Len(t) = Len(s) - 1 /\ DOMAIN s = 1 .. Len(s) /\ DOMAIN t = 1 .. Len(s) - 1
      /\ \A i \in 1 .. Len(s) - 1 : t[i] = s[i + 1]
  OBVIOUS
<1> HIDE DEF t
<1>2. ASSUME NEW i \in 1 .. Len(s) - 1, NEW j \in 1 .. Len(s) - 1, i < j
      PROVE  f[t[i]] < f[t[j]]
  <2>1. i + 1 \in DOMAIN s /\ j + 1 \in DOMAIN s /\ i + 1 < j + 1
    BY <1>1, <1>2
  <2>2. f[s[i + 1]] < f[s[j + 1]]
    BY <2>1, Zenon DEF Rising
  <2> QED
    BY <2>2, <1>1, Zenon
<1>3. ASSUME NEW x \in Range(t) PROVE f[Head(s)] < f[x]
  <2>1. PICK i \in 1 .. Len(s) - 1 : t[i] = x
    BY <1>1, Zenon DEF Range
  <2>2. 1 \in DOMAIN s /\ i + 1 \in DOMAIN s /\ 1 < i + 1
    BY <1>1
  <2>3. f[s[1]] < f[s[i + 1]]
    BY <2>2, Zenon DEF Rising
  <2> QED
    BY <2>1, <2>3, <1>1, Zenon
<1>4. Rising(t, f)
  BY <1>1, <1>2, Zenon DEF Rising
<1> QED
  BY <1>3, <1>4, Zenon DEF t

\* An item whose place is above all others goes to the end.
LEMMA RisingAppend ==
  ASSUME NEW S, NEW s \in Seq(S), NEW w \in S, NEW f \in [S -> Nat], Rising(s, f),
         \A x \in Range(s) : f[x] < f[w]
  PROVE  Rising(Append(s, w), f)
<1> DEFINE t == <<w>>
<1>1. t \in Seq(S) /\ Append(s, w) = s \o t /\ Len(t) = 1 /\ t[1] = w /\ DOMAIN t = {1}
  OBVIOUS
<1> HIDE DEF t
<1>2. Range(t) = {w}
  BY <1>1, Zenon DEF Range
<1>3. Rising(t, f)
  BY <1>1 DEF Rising
<1>4. Before(s, t, f)
  BY <1>2, Zenon DEF Before
<1>5. Rising(s \o t, f)
  BY <1>1, <1>3, <1>4, RisingConcat, Zenon
<1> QED
  BY <1>1, <1>5, Zenon

\* Other places do not matter.
LEMMA RisingSame ==
  ASSUME NEW S, NEW s \in Seq(S), NEW f, NEW g, Rising(s, f),
         \A x \in Range(s) : g[x] = f[x]
  PROVE  Rising(s, g)
<1>1. \A i \in DOMAIN s : s[i] \in Range(s)
  BY Zenon DEF Range
<1> QED
  BY <1>1, Zenon DEF Rising

\* The bound of the queue: what is kept and what is dropped are all there was,
\* nothing is both, and the kept part rises.
LEMMA KeptPrefix ==
  ASSUME NEW S, NEW s \in Seq(S), NEW f \in [S -> Nat], Rising(s, f)
  PROVE  /\ Kept(s) \in Seq(S) /\ Len(Kept(s)) <= MaxQueue
         /\ Range(Kept(s)) \cup Dropped(s) = Range(s)
         /\ Range(Kept(s)) \cap Dropped(s) = {}
         /\ Rising(Kept(s), f)
<1> DEFINE n == IF Len(s) < MaxQueue THEN Len(s) ELSE MaxQueue
           t == SubSeq(s, 1, n)
<1>1. /\ Len(s) \in Nat /\ n \in Nat /\ n <= Len(s) /\ n <= MaxQueue /\ MaxQueue \in Nat
      /\ DOMAIN s = 1 .. Len(s)
  BY BufferAssumption
<1>2. \A i \in (MaxQueue + 1) .. Len(s) : i \in DOMAIN s /\ n < i
  BY <1>1
<1>3. \A i \in DOMAIN s : i \in 1 .. n \/ i \in (MaxQueue + 1) .. Len(s)
  BY <1>1
<1>k. Kept(s) = t
  BY Zenon DEF Kept
<1> HIDE DEF n
<1>4. /\ t \in Seq(S) /\ Len(t) = n /\ DOMAIN t = 1 .. n
      /\ \A i \in 1 .. n : t[i] = s[i] /\ i \in DOMAIN s
  BY <1>1
<1> HIDE DEF t
<1>5. \A x : x \in Range(t) <=> \E i \in 1 .. n : s[i] = x
  BY <1>4, Zenon DEF Range
<1>6. \A x : x \in Range(s) <=> \E i \in DOMAIN s : s[i] = x
  BY Zenon DEF Range
<1>7. \A x : x \in Dropped(s) <=> \E i \in (MaxQueue + 1) .. Len(s) : s[i] = x
  BY Zenon DEF Dropped
<1>8. Range(t) \cup Dropped(s) = Range(s)
  BY <1>2, <1>3, <1>4, <1>5, <1>6, <1>7, Zenon
<1>9. ASSUME NEW x, x \in Range(t), x \in Dropped(s) PROVE FALSE
  <2>1. PICK i \in 1 .. n : s[i] = x
    BY <1>9, <1>5, Zenon
  <2>2. PICK j \in (MaxQueue + 1) .. Len(s) : s[j] = x
    BY <1>9, <1>7, Zenon
  <2>3. i \in DOMAIN s /\ j \in DOMAIN s /\ i < j /\ x \in S
    BY <2>1, <2>2, <1>1, <1>2, <1>4
  <2>4. f[s[i]] < f[s[j]]
    BY <2>3, Zenon DEF Rising
  <2> QED
    BY <2>1, <2>2, <2>3, <2>4
<1>10. Rising(t, f)
  BY <1>4, Zenon DEF Rising
<1> QED
  BY <1>1, <1>4, <1>8, <1>9, <1>10, <1>k, Zenon

----------------------------------------------------------------------------
(* The invariant.                                                           *)

PendingSet == Range(retry) \cup Range(batch) \cup Range(queue)

\* The three queues rise, and so do they one after the other.
Lined ==
    /\ Rising(retry, order) /\ Rising(batch, order) /\ Rising(queue, order)
    /\ Before(retry, batch, order)
    /\ Before(retry, queue, order)
    /\ Before(batch, queue, order)

\* The next write that is accepted comes after all of them.
Placed == \A w \in PendingSet : order[w] <= taken

Accounted ==
    /\ \A w \in Write : fate[w] = "queued" <=> w \in PendingSet
    /\ \A w \in Write : fate[w] # "abandoned"

\* Which queues are empty where; the last pass runs only after stop_ is set,
\* when enqueue() refuses, so it meets an empty queue in the end.
Phases ==
    /\ flusher = "off" => queue = <<>> /\ batch = <<>> /\ retry = <<>> /\ (stop \/ ~running)
    /\ flusher # "off" => running
    /\ flusher = "wait" => batch = <<>> /\ retry = <<>>
    /\ flusher = "requeue" => batch = <<>> /\ retry # <<>>
    /\ flusher = "clear" => batch = <<>> /\ finalPass
    /\ flusher \in {"flush", "requeue", "clear"} /\ finalPass
         => stop /\ queue = <<>> /\ retry = <<>>

BufferInv == BufferTypeOK /\ Lined /\ Placed /\ Accounted /\ Phases

\* Nothing is in an empty queue.
LEMMA EmptyRange ==
    Range(<<>>) = {} /\ <<>> \in Seq(Write) /\ Len(<<>>) = 0 /\ \A f : Rising(<<>>, f)
  BY DEF Range, Rising

\* The invariant holds before the buffer is started.
LEMMA BufferInitial == BufferInit => BufferInv
<1> SUFFICES ASSUME BufferInit PROVE BufferInv
  BY Zenon
<1> USE DEF BufferInit
<1>1. BufferTypeOK
  <2>1. queue \in Seq(Write) /\ batch \in Seq(Write) /\ retry \in Seq(Write)
    BY EmptyRange, Zenon
  <2>2. Len(queue) <= MaxQueue
    BY BufferAssumption, EmptyRange
  <2> QED
    BY <2>1, <2>2, Zenon DEF BufferTypeOK, Fate
<1>2. Lined
  BY EmptyRange, Zenon DEF Lined, Before
<1>3. PendingSet = {}
  BY EmptyRange, Zenon DEF PendingSet
<1>4. Placed /\ Accounted
  BY <1>3, Zenon DEF Placed, Accounted
<1>5. Phases
  BY Zenon DEF Phases
<1> QED
  BY <1>1, <1>2, <1>4, <1>5, Zenon DEF BufferInv

\* enqueue() gives the new write the highest place.
LEMMA EnqueueKeeps ==
  ASSUME BufferInv, NEW w \in Write, Enqueue(w)
  PROVE  BufferInv'
<1>1. /\ queue' = Append(queue, w) /\ batch' = batch /\ retry' = retry
      /\ taken' = taken + 1 /\ order' = [order EXCEPT ![w] = taken + 1]
      /\ fate' = [fate EXCEPT ![w] = "queued"] /\ fate[w] = "none"
      /\ stop' = stop /\ running' = running /\ finalPass' = finalPass
      /\ flusher' = flusher /\ stopper' = stopper
      /\ ~stop /\ running /\ Len(queue) < MaxQueue
  BY Zenon DEF Enqueue, Accepts, threadVars, lifeVars
<1>2. /\ queue \in Seq(Write) /\ batch \in Seq(Write) /\ retry \in Seq(Write)
      /\ order \in [Write -> Nat] /\ taken \in Nat /\ fate \in [Write -> Fate]
  BY Zenon DEF BufferInv, BufferTypeOK
<1>3. queue' \in Seq(Write) /\ Range(queue') = Range(queue) \cup {w}
  BY <1>1, <1>2, RangeOfAppend
<1>4. PendingSet' = PendingSet \cup {w} /\ w \notin PendingSet /\ PendingSet \subseteq Write
  <2>1. w \notin PendingSet
    BY <1>1, Zenon DEF BufferInv, Accounted
  <2>2. PendingSet \subseteq Write
    BY <1>2, RangeOfSequence, Zenon DEF PendingSet
  <2> QED
    BY <1>1, <1>3, <2>1, <2>2, Zenon DEF PendingSet
<1>5. BufferTypeOK'
  <2>1. Len(queue') <= MaxQueue
    BY <1>1, <1>2, BufferAssumption
  <2> QED
    BY <1>1, <1>2, <1>3, <2>1 DEF BufferInv, BufferTypeOK, Fate
<1>6. /\ order' \in [Write -> Nat] /\ order'[w] = taken + 1
      /\ \A x \in PendingSet : order'[x] = order[x] /\ order[x] <= taken /\ order[x] \in Nat
  BY <1>1, <1>2, <1>4 DEF BufferInv, Placed
<1>7. \A x \in PendingSet : order'[x] < order'[w]
  BY <1>2, <1>6
<1>8. Lined'
  <2>1. Rising(retry, order') /\ Rising(batch, order') /\ Rising(queue, order')
    BY <1>2, <1>6, RisingSame, Zenon DEF BufferInv, Lined, PendingSet
  <2>2. Rising(queue', order')
    BY <1>1, <1>2, <1>6, <1>7, <2>1, RisingAppend, Zenon DEF PendingSet
  <2>3. Before(retry', batch', order')
    BY <1>1, <1>6, Zenon DEF BufferInv, Lined, Before, PendingSet
  <2>4. Before(retry', queue', order') /\ Before(batch', queue', order')
    BY <1>1, <1>3, <1>6, <1>7 DEF BufferInv, Lined, Before, PendingSet
  <2> QED
    BY <1>1, <2>1, <2>2, <2>3, <2>4, Zenon DEF Lined
<1>9. Placed'
  BY <1>1, <1>2, <1>4, <1>6 DEF Placed
<1>10. Accounted'
  BY <1>1, <1>2, <1>4, Zenon DEF BufferInv, Accounted
<1>11. Phases'
  BY <1>1, Zenon DEF BufferInv, Phases, BufferTypeOK
<1> QED
  BY <1>5, <1>8, <1>9, <1>10, <1>11, Zenon DEF BufferInv

\* Steps that leave the queues and the history alone.
LEMMA QueuesSame ==
  ASSUME BufferInv, UNCHANGED <<queue, batch, retry, historyVars>>
  PROVE  Lined' /\ Placed' /\ Accounted'
<1>1. /\ queue' = queue /\ batch' = batch /\ retry' = retry
      /\ fate' = fate /\ order' = order /\ taken' = taken
  BY Zenon DEF historyVars
<1>2. PendingSet' = PendingSet
  BY <1>1, Zenon DEF PendingSet
<1>3. Lined'
  BY <1>1, Zenon DEF BufferInv, Lined, Rising, Before
<1> QED
  BY <1>1, <1>2, <1>3, Zenon DEF BufferInv, Placed, Accounted

\* start(), stop() and the moves of the flush thread between its loops.
LEMMA LifeKeeps ==
  ASSUME BufferInv, Life \/ Flushed
  PROVE  BufferInv'
<1> USE DEF threadVars, lifeVars, historyVars
<1>1. UNCHANGED <<queue, batch, retry, historyVars>>
  BY Zenon DEF Life, Start, Stop, Joined, Flushed
<1>2. Lined' /\ Placed' /\ Accounted'
  BY <1>1, QueuesSame, Zenon
<1>3. BufferTypeOK' /\ Phases'
  <2>1. CASE Start
    <3>1. flusher = "off"
      BY <2>1, Zenon DEF Start, BufferInv, Phases
    <3> QED
      BY <2>1, <3>1, Zenon DEF Start, BufferInv, BufferTypeOK, Phases
  <2>2. CASE Stop
    BY <2>2, Zenon DEF Stop, BufferInv, BufferTypeOK, Phases
  <2>3. CASE Joined
    BY <2>3, Zenon DEF Joined, BufferInv, BufferTypeOK, Phases
  <2>4. CASE Flushed
    <3>1. Phases'
      BY <2>4, Zenon DEF Flushed, BufferInv, BufferTypeOK, Phases
    <3>2. BufferTypeOK'
      BY <2>4, Zenon DEF Flushed, BufferInv, BufferTypeOK
    <3> QED
      BY <3>1, <3>2, Zenon
  <2> QED
    BY <2>1, <2>2, <2>3, <2>4, Zenon DEF Life
<1> QED
  BY <1>2, <1>3, Zenon DEF BufferInv

\* The thread takes the queue over when it has nothing else.
LEMMA SwapKeeps ==
  ASSUME BufferInv, Swap
  PROVE  BufferInv'
<1> USE DEF threadVars, lifeVars, historyVars
<1>1. /\ batch = <<>> /\ retry = <<>> /\ batch' = queue /\ queue' = <<>> /\ retry' = <<>>
      /\ order' = order /\ taken' = taken /\ fate' = fate
      /\ flusher = "wait" /\ flusher' = "flush" /\ finalPass' = stop
      /\ stop' = stop /\ running' = running /\ stopper' = stopper
  BY Zenon DEF Swap, BufferInv, Phases
<1>2. PendingSet' = PendingSet
  BY <1>1, EmptyRange, Zenon DEF PendingSet
<1>3. BufferTypeOK'
  <2>1. Len(queue') <= MaxQueue
    BY <1>1, BufferAssumption, EmptyRange
  <2>2. queue' \in Seq(Write) /\ batch' \in Seq(Write) /\ retry' \in Seq(Write)
    BY <1>1, EmptyRange, Zenon DEF BufferInv, BufferTypeOK
  <2> QED
    BY <1>1, <2>1, <2>2, Zenon DEF BufferInv, BufferTypeOK
<1>4. Lined'
  <2>1. Rising(retry', order') /\ Rising(batch', order') /\ Rising(queue', order')
    BY <1>1, EmptyRange, Zenon DEF BufferInv, Lined
  <2>2. /\ Before(retry', batch', order') /\ Before(retry', queue', order')
        /\ Before(batch', queue', order')
    BY <1>1, EmptyRange, Zenon DEF Before
  <2> QED
    BY <2>1, <2>2, Zenon DEF Lined
<1>5. Placed' /\ Accounted'
  BY <1>1, <1>2, Zenon DEF BufferInv, Placed, Accounted
<1>6. Phases'
  BY <1>1, Zenon DEF BufferInv, Phases
<1> QED
  BY <1>3, <1>4, <1>5, <1>6, Zenon DEF BufferInv

\* The thread is done with the first item of the batch: it is dropped, with any
\* outcome but "queued", or it goes to the end of the items to try again.
LEMMA HeadKeeps ==
  ASSUME BufferInv, flusher = "flush", batch # <<>>, batch' = Tail(batch),
         UNCHANGED <<queue, finalPass, flusher, lifeVars, order, taken>>,
         NEW f \in Fate \ {"abandoned"}, fate' = [fate EXCEPT ![Head(batch)] = f],
         \/ retry' = retry /\ f # "queued"
         \/ retry' = Append(retry, Head(batch)) /\ f = "queued" /\ ~finalPass
  PROVE  BufferInv'
<1> DEFINE w == Head(batch)
<1>1. /\ queue' = queue /\ finalPass' = finalPass /\ flusher' = flusher /\ stop' = stop
      /\ running' = running /\ stopper' = stopper /\ order' = order /\ taken' = taken
  BY Zenon DEF lifeVars
<1>2. /\ queue \in Seq(Write) /\ batch \in Seq(Write) /\ retry \in Seq(Write)
      /\ order \in [Write -> Nat] /\ taken \in Nat /\ fate \in [Write -> Fate]
  BY Zenon DEF BufferInv, BufferTypeOK
<1>3. /\ w \in Write /\ batch' \in Seq(Write) /\ Range(batch) = {w} \cup Range(batch')
  BY <1>2, RangeOfTail, Zenon
<1>4. Rising(batch', order) /\ \A x \in Range(batch') : order[w] < order[x]
  BY <1>2, RisingTail, Zenon DEF BufferInv, Lined
<1>5. w \notin Range(batch')
  BY <1>2, <1>3, <1>4
<1>6. w \notin Range(retry) /\ w \notin Range(queue)
  BY <1>2, <1>3 DEF BufferInv, Lined, Before
<1> HIDE DEF w
<1>7. /\ retry' \in Seq(Write)
      /\ Range(retry') = IF f = "queued" THEN Range(retry) \cup {w} ELSE Range(retry)
  <2>1. CASE retry' = retry /\ f # "queued"
    BY <2>1, <1>2, Zenon
  <2>2. CASE retry' = Append(retry, Head(batch)) /\ f = "queued"
    BY <2>2, <1>2, <1>3, RangeOfAppend DEF w
  <2> QED
    BY <2>1, <2>2, Zenon
<1>8. BufferTypeOK'
  <2>1. fate' \in [Write -> Fate]
    BY <1>2, <1>3, Zenon DEF w
  <2> QED
    BY <2>1, <1>1, <1>3, <1>7, Zenon DEF BufferInv, BufferTypeOK
<1>9. Lined'
  <2>1. \A x \in Range(retry) : order[x] < order[w]
    BY <1>3, Zenon DEF BufferInv, Lined, Before
  <2>2. Rising(retry', order')
    <3>1. CASE retry' = retry
      BY <3>1, <1>1, Zenon DEF BufferInv, Lined
    <3>2. CASE retry' = Append(retry, w)
      <4>1. Rising(retry, order)
        BY Zenon DEF BufferInv, Lined
      <4>2. Rising(Append(retry, w), order)
        BY <4>1, <1>2, <1>3, <2>1, RisingAppend, Zenon
      <4> QED
        BY <4>2, <3>2, <1>1, Zenon
    <3> QED
      BY <3>1, <3>2, Zenon DEF w
  <2>3. Rising(batch', order') /\ Rising(queue', order')
    BY <1>1, <1>4, Zenon DEF BufferInv, Lined
  <2>4. Before(retry', batch', order')
    BY <1>1, <1>3, <1>4, <1>7, Zenon DEF BufferInv, Lined, Before
  <2>5. Before(retry', queue', order') /\ Before(batch', queue', order')
    BY <1>1, <1>3, <1>7, Zenon DEF BufferInv, Lined, Before
  <2> QED
    BY <2>2, <2>3, <2>4, <2>5, Zenon DEF Lined
<1>10. PendingSet' = (IF f = "queued" THEN PendingSet ELSE PendingSet \ {w})
  BY <1>1, <1>3, <1>5, <1>6, <1>7, Zenon DEF PendingSet
<1>11. w \in PendingSet
  BY <1>3, Zenon DEF PendingSet
<1>12. Placed'
  BY <1>1, <1>10, Zenon DEF BufferInv, Placed
<1>13. Accounted'
  <2>1. \A x \in Write : fate'[x] = IF x = w THEN f ELSE fate[x]
    BY <1>2, <1>3, Zenon DEF w
  <2> QED
    BY <2>1, <1>10, <1>11, Zenon DEF BufferInv, Accounted
<1>14. Phases'
  <2>1. finalPass => retry' = <<>>
    BY Zenon DEF BufferInv, Phases
  <2> QED
    BY <2>1, <1>1 DEF BufferInv, Phases
<1> QED
  BY <1>8, <1>9, <1>12, <1>13, <1>14, Zenon DEF BufferInv

\* An expired item is dropped.
LEMMA ExpireKeeps ==
  ASSUME BufferInv, Expire
  PROVE  BufferInv'
<1>1. "expired" \in Fate \ {"abandoned"} /\ "expired" # "queued"
  BY Zenon DEF Fate
<1> QED
  BY <1>1, HeadKeeps, Zenon DEF Expire

\* A replayed item is done, given up, or put aside.
LEMMA ReplayKeeps ==
  ASSUME BufferInv, NEW a \in Answer, Replay(a)
  PROVE  BufferInv'
<1> DEFINE again == ~finalPass /\ a = "again"
           f == IF a = "ok" THEN "done"
                ELSE IF again THEN "queued"
                ELSE IF a = "unsent" /\ ~finalPass THEN "refused"
                ELSE "failed"
<1>1. /\ flusher = "flush" /\ batch # <<>> /\ batch' = Tail(batch)
      /\ UNCHANGED <<queue, finalPass, flusher, lifeVars, order, taken>>
      /\ fate' = [fate EXCEPT ![Head(batch)] = f]
      /\ retry' = IF again THEN Append(retry, Head(batch)) ELSE retry
  BY Zenon DEF Replay
<1>2. f \in Fate \ {"abandoned"}
  BY Zenon DEF Fate
<1>3. \/ retry' = retry /\ f # "queued"
      \/ retry' = Append(retry, Head(batch)) /\ f = "queued" /\ ~finalPass
  BY <1>1, Zenon
<1> HIDE DEF f, again
<1> QED
  BY <1>1, <1>2, <1>3, HeadKeeps, Zenon

\* The items to try again go in front; what does not fit is dropped.
LEMMA RequeueKeeps ==
  ASSUME BufferInv, Requeue
  PROVE  BufferInv'
<1> DEFINE all == retry \o queue
<1>1. /\ flusher = "requeue" /\ batch = <<>> /\ ~finalPass
      /\ queue' = Kept(all) /\ retry' = <<>> /\ batch' = <<>>
      /\ fate' = [w \in Write |-> IF w \in Dropped(all) THEN "overflow" ELSE fate[w]]
      /\ flusher' = "wait" /\ finalPass' = finalPass
      /\ stop' = stop /\ running' = running /\ stopper' = stopper
      /\ order' = order /\ taken' = taken
  BY Zenon DEF Requeue, RequeueWith, BufferInv, Phases, lifeVars
<1>2. /\ queue \in Seq(Write) /\ retry \in Seq(Write)
      /\ order \in [Write -> Nat] /\ taken \in Nat /\ fate \in [Write -> Fate]
  BY Zenon DEF BufferInv, BufferTypeOK
<1>3. all \in Seq(Write) /\ Range(all) = Range(retry) \cup Range(queue)
  BY <1>2, RangeOfConcat
<1>4. Rising(all, order)
  BY <1>2, RisingConcat, Zenon DEF BufferInv, Lined
<1>5. Range(all) = PendingSet
  BY <1>1, <1>3, EmptyRange, Zenon DEF PendingSet
<1> HIDE DEF all
<1>6. /\ queue' \in Seq(Write) /\ Len(queue') <= MaxQueue
      /\ Range(queue') \cup Dropped(all) = Range(all)
      /\ Range(queue') \cap Dropped(all) = {}
      /\ Rising(queue', order)
  BY <1>1, <1>2, <1>3, <1>4, KeptPrefix, Zenon
<1>7. PendingSet' = Range(queue')
  BY <1>1, EmptyRange, Zenon DEF PendingSet
<1>8. BufferTypeOK'
  <2>1. fate' \in [Write -> Fate]
    BY <1>1, <1>2, Zenon DEF Fate
  <2>2. batch' \in Seq(Write) /\ retry' \in Seq(Write)
    BY <1>1, EmptyRange, Zenon
  <2> QED
    BY <1>1, <1>6, <2>1, <2>2, Zenon DEF BufferInv, BufferTypeOK
<1>9. Lined'
  <2>1. Rising(retry', order') /\ Rising(batch', order') /\ Rising(queue', order')
    BY <1>1, <1>6, EmptyRange, Zenon
  <2>2. /\ Before(retry', batch', order') /\ Before(retry', queue', order')
        /\ Before(batch', queue', order')
    BY <1>1, EmptyRange, Zenon DEF Before
  <2> QED
    BY <2>1, <2>2, Zenon DEF Lined
<1>10. Placed'
  BY <1>1, <1>5, <1>6, <1>7, Zenon DEF BufferInv, Placed
<1>11. Accounted'
  <2>1. \A w \in Write : fate'[w] = IF w \in Dropped(all) THEN "overflow" ELSE fate[w]
    BY <1>1, Zenon
  <2> QED
    BY <2>1, <1>5, <1>6, <1>7, Zenon DEF BufferInv, Accounted
<1>12. Phases'
  BY <1>1, Zenon DEF BufferInv, Phases
<1> QED
  BY <1>8, <1>9, <1>10, <1>11, <1>12, Zenon DEF BufferInv

\* The last pass finds the queue empty, so it abandons nothing.
LEMMA ClearKeeps ==
  ASSUME BufferInv, Clear
  PROVE  BufferInv'
<1>1. /\ flusher = "clear" /\ queue = <<>> /\ batch = <<>> /\ retry = <<>> /\ stop
      /\ queue' = <<>> /\ flusher' = "off" /\ batch' = batch /\ retry' = retry
      /\ fate' = [w \in Write |-> IF w \in Range(queue) THEN "abandoned" ELSE fate[w]]
      /\ finalPass' = finalPass /\ order' = order /\ taken' = taken
      /\ stop' = stop /\ running' = running /\ stopper' = stopper
  BY Zenon DEF Clear, BufferInv, Phases, lifeVars
<1>2. fate' = fate
  BY <1>1, EmptyRange, Zenon DEF BufferInv, BufferTypeOK
<1>3. Lined' /\ Placed' /\ Accounted'
  BY <1>1, <1>2, QueuesSame, Zenon DEF historyVars
<1>4. BufferTypeOK'
  BY <1>1, <1>2, Zenon DEF BufferInv, BufferTypeOK
<1>5. Phases'
  BY <1>1, Zenon DEF BufferInv, Phases
<1> QED
  BY <1>3, <1>4, <1>5, Zenon DEF BufferInv

\* Every step of the buffer keeps the invariant.
LEMMA BufferStep == BufferInv /\ [BufferNext]_bufferVars => BufferInv'
<1> SUFFICES ASSUME BufferInv, [BufferNext]_bufferVars PROVE BufferInv'
  BY Zenon
<1>1. CASE \E w \in Write : Enqueue(w)
  BY <1>1, EnqueueKeeps, Zenon
<1>2. CASE \E a \in Answer : Replay(a)
  BY <1>2, ReplayKeeps, Zenon
<1>3. CASE Housekeeping
  BY <1>3, SwapKeeps, ExpireKeeps, LifeKeeps, RequeueKeeps, ClearKeeps, Zenon DEF Housekeeping
<1>4. CASE Life
  BY <1>4, LifeKeeps, Zenon
<1>5. CASE UNCHANGED bufferVars
  <2>1. UNCHANGED <<queue, batch, retry, historyVars>>
    BY <1>5, Zenon DEF bufferVars, threadVars, historyVars
  <2>2. Lined' /\ Placed' /\ Accounted'
    BY <2>1, QueuesSame, Zenon
  <2>3. BufferTypeOK' /\ Phases'
    BY <1>5, Zenon DEF bufferVars, threadVars, lifeVars, historyVars, BufferInv, BufferTypeOK,
         Phases
  <2> QED
    BY <2>2, <2>3, Zenon DEF BufferInv
<1> QED
  BY <1>1, <1>2, <1>3, <1>4, <1>5, Zenon DEF BufferNext

\* What the invariant says of the pending writes as one queue.
LEMMA BufferConsequences == BufferInv => BufferTypeOK /\ InOrder /\ NothingLost
<1> SUFFICES ASSUME BufferInv PROVE InOrder /\ NothingLost
  BY Zenon DEF BufferInv
<1>1. /\ queue \in Seq(Write) /\ batch \in Seq(Write) /\ retry \in Seq(Write)
      /\ order \in [Write -> Nat]
  BY Zenon DEF BufferInv, BufferTypeOK
<1> DEFINE first == retry \o batch
<1>2. first \in Seq(Write) /\ Range(first) = Range(retry) \cup Range(batch)
  BY <1>1, RangeOfConcat
<1>3. Rising(first, order)
  BY <1>1, RisingConcat, Zenon DEF BufferInv, Lined
<1>4. Before(first, queue, order)
  BY <1>2, Zenon DEF BufferInv, Lined, Before
<1>5. Pending = first \o queue
  BY Zenon DEF Pending
<1> HIDE DEF first
<1>6. Rising(first \o queue, order)
  BY <1>1, <1>2, <1>3, <1>4, RisingConcat, Zenon DEF BufferInv, Lined
<1>7. InOrder
  BY <1>5, <1>6, Zenon DEF InOrder, Sorted, Rising
<1>8. Range(Pending) = PendingSet
  BY <1>1, <1>2, <1>5, RangeOfConcat DEF PendingSet
<1>9. NothingLost
  BY <1>8, Zenon DEF BufferInv, Accounted, NothingLost
<1> QED
  BY <1>7, <1>9, Zenon

\* The invariant holds throughout.
LEMMA BufferInvariant == BufferSpec => []BufferInv
  BY BufferInitial, BufferStep, PTL DEF BufferSpec

\* For any set of writes and any queue length, what the buffer holds back is
\* tried in the order of acceptance, also after run() has put failed writes back.
THEOREM PendingInOrder == BufferSpec => []InOrder
  BY BufferInvariant, BufferConsequences, PTL

\* An accepted write leaves the buffer only by being tried, by expiring, or for
\* want of room when failed writes are put back; stop() abandons none.
THEOREM NoWriteLost == BufferSpec => []NothingLost
  BY BufferInvariant, BufferConsequences, PTL

----------------------------------------------------------------------------
(* What the steps of a DataSourceGroup leave alone.                         *)

\* Every step of the group is a step of its write buffer or leaves it alone.
LEMMA BufferPart == [Next]_vars => [BufferNext]_bufferVars
<1> SUFFICES ASSUME [Next]_vars PROVE [BufferNext]_bufferVars
  BY Zenon
<1>1. CASE UNCHANGED vars
  BY <1>1, Zenon DEF vars
<1>2. ASSUME NEW r \in Request, Buffer(r) PROVE BufferNext \/ UNCHANGED bufferVars
  BY <1>2, GroupAssumption, Zenon DEF Buffer, BufferNext
<1>3. ASSUME NEW r \in Request, Serve(r), ~Buffer(r) PROVE UNCHANGED bufferVars
  BY <1>3, Zenon DEF Serve, Continue, Reject, RouteWrite, WriteOk, WriteRetry, WriteFails,
       NotStarted, SessionRefused, SessionWrote, SessionRead, Mark, OpenWindow, Purge, RouteRead,
       Lookup, FetchOk, FetchRetry, FetchFails, Fill
<1>4. CASE FlushThread
  <2>1. CASE ReplayRuns
    BY <2>1, Zenon DEF ReplayRuns
  <2>2. CASE ReplayEnds
    <3>1. AnswerOf(reply) \in Answer
      BY Zenon DEF AnswerOf, Answer
    <3> QED
      BY <2>2, <3>1, Zenon DEF ReplayEnds, BufferNext
  <2>3. CASE Housekeeping
    BY <2>3, Zenon DEF BufferNext
  <2> QED
    BY <1>4, <2>1, <2>2, <2>3, Zenon DEF FlushThread
<1>5. CASE Manager
  BY <1>5, Zenon DEF Manager, BufferNext
<1>6. CASE Replicate \/ WindowEnds \/ Evict
  BY <1>6, Zenon DEF Replicate, WindowEnds, Evict
<1> QED
  BY <1>1, <1>2, <1>3, <1>4, <1>5, <1>6, Zenon DEF Next

\* The group implements the write buffer specification, whatever its requests
\* and sources do, so the buffered writes of a group stay in order and are
\* accounted for.
THEOREM GroupImplementsBuffer == Spec => BufferSpec
<1>1. Init => BufferInit
  BY Zenon DEF Init
<1> QED
  BY <1>1, BufferPart, PTL DEF Spec, BufferSpec

----------------------------------------------------------------------------
(* Types.                                                                   *)

LocalOK ==
    /\ call \in Calls
    /\ step \in [Request -> Nat \ {0}]
    /\ pc \in [Request -> {"ready", "attempt", "buffer", "mark", "window", "purge",
                           "lookup", "fetch", "fill", "done", "end"}]
    /\ listed \in [Request -> SUBSET (Nat \ {0})]
    /\ attempt \in [Request -> Nat \ {0}]
    /\ target \in [Request -> Source]
    /\ answer \in [Request -> Status \cup {none, "Rejected", "Buffered"}]
    /\ rows \in [Request -> SUBSET Request]
    /\ todo \in [Request -> Seq(Source)]
    /\ pinned \in [Request -> SUBSET Nat]

WorldOK ==
    /\ window \in BOOLEAN
    /\ cache \in [Source -> SUBSET SUBSET Request]
    /\ reply \in Status \cup {none}
    /\ data \in [Source -> SUBSET Request]
    /\ runs \in [Request -> Nat]
    /\ took \in [Request -> Source \cup {none}]

----------------------------------------------------------------------------
(* What is true of each request.                                            *)

\* Which places belong to which statements, and the targets are candidates.
Placement(q) ==
    /\ step[q] \in DOMAIN Script(q)
    /\ pc[q] \in {"attempt", "buffer", "mark", "window", "purge"} => Kind(q) # "read"
    /\ pc[q] \in {"lookup", "fetch", "fill"} => Kind(q) = "read"
    /\ pc[q] = "attempt" => listed[q] \subseteq DOMAIN Candidates(q)

Fresh(q) == runs[q] = 0 /\ fate[q] = "none"

After == {"mark", "window", "purge", "done", "end"}

\* The write statement of q is over, or past its last attempt.
PastWrite(q) ==
    \E i \in DOMAIN Script(q) :
        /\ Script(q)[i] # "read"
        /\ i < step[q] \/ (i = step[q] /\ pc[q] \in After)

OnceSoFar(q) ==
    WriteAttempts(q) = 1 =>
        /\ runs[q] <= 1
        /\ fate[q] # "none" => runs[q] = 0
        /\ ~Fresh(q) => PastWrite(q)

Isolated(q) ==
    Shadowed(q) /\ OnlyWrites(q) =>
        /\ pc[q] # "buffer"
        /\ pc[q] = "attempt" => listed[q] = {1}
        /\ fate[q] = "none"
        /\ \A s \in Source \ {Shadow} : q \notin data[s]

\* A request of one scope, as ReadYourWrites has it, that has written.
Writer(q) ==
    /\ took[q] = Primary /\ call[q].depth = 1
    /\ ~call[q].async /\ ~Shadowed(q)

SeesOwn(q) ==
    PrimaryUncached /\ Writer(q) =>
        /\ q \in data[Primary]
        /\ pc[q] # "mark" => 1 \in pinned[q]
        /\ pc[q] \in {"lookup", "fetch", "fill"} => target[q] = Primary
        /\ pc[q] # "fill"
        /\ pc[q] = "done" /\ Kind(q) = "read" /\ answer[q] = "Ok" => q \in rows[q]

RequestInv(q) == Placement(q) /\ OnceSoFar(q) /\ Isolated(q) /\ SeesOwn(q)

GroupInv ==
    /\ BufferInv /\ LocalOK /\ WorldOK
    /\ \A q \in Request : RequestInv(q)

\* What the invariant says about the types.
LEMMA GroupTyped == GroupInv => GroupTypeOK
  BY GroupAssumption, Zenon DEF GroupInv, BufferInv, LocalOK, WorldOK, GroupTypeOK

\* The sources a request may be sent to.
LEMMA SourcesTyped ==
  ASSUME NEW r \in Request
  PROVE  /\ Primary \in Source /\ Shadow \in Source
         /\ Candidates(r) \in Seq(Source)
         /\ ReadTargets(r) \subseteq Source
         /\ <<Primary>> \o Replicas \o Failover \in Seq(Source)
<1>1. Primary \in Source /\ Shadow \in Source /\ Range(Replicas) \subseteq Source
  BY Zenon DEF Source
<1>2. <<Primary>> \in Seq(Source) /\ <<Shadow>> \in Seq(Source)
  BY <1>1
<1>3. Candidates(r) \in Seq(Source)
  BY <1>2, GroupAssumption, Zenon DEF Candidates
<1>4. ReadTargets(r) \subseteq Source
  BY <1>1, Zenon DEF ReadTargets
<1>5. <<Primary>> \o Replicas \in Seq(Source)
  BY <1>2, GroupAssumption
<1>6. <<Primary>> \o Replicas \o Failover \in Seq(Source)
  BY <1>5, GroupAssumption
<1> QED
  BY <1>1, <1>3, <1>4, <1>6, Zenon

\* The database executes a write or not.
LEMMA ExecutesTyped ==
  ASSUME WorldOK, NEW r \in Request, NEW s, Executes(r, s) \/ NotExecuted
  PROVE  /\ data' \in [Source -> SUBSET Request]
         /\ runs' \in [Request -> Nat]
<1>1. CASE Executes(r, s)
  <2>1. data' = [data EXCEPT ![s] = data[s] \cup {r}] /\ runs' = [runs EXCEPT ![r] = runs[r] + 1]
    BY <1>1, Zenon DEF Executes
  <2>2. data' \in [Source -> SUBSET Request]
    BY <2>1, Zenon DEF WorldOK
  <2>3. runs[r] + 1 \in Nat
    BY DEF WorldOK
  <2>4. runs' \in [Request -> Nat]
    BY <2>1, <2>3, Zenon DEF WorldOK
  <2> QED
    BY <2>2, <2>4, Zenon
<1>2. CASE NotExecuted
  BY <1>2, Zenon DEF NotExecuted, WorldOK
<1> QED
  BY <1>1, <1>2, Zenon

\* What a call says about the scope it runs in.
LEMMA DepthTyped == ASSUME call \in Calls, NEW r \in Request PROVE call[r].depth \in Nat
<1>1. call[r] \in Call
  BY GroupAssumption, Zenon
<1> QED
  BY <1>1 DEF Call

\* Every step of a request keeps the types.
LEMMA ServeTyped ==
  ASSUME LocalOK, WorldOK, NEW r \in Request, Placement(r), Serve(r)
  PROVE  LocalOK' /\ WorldOK'
<1> USE DEF LocalOK, WorldOK, groupHistory
<1>1. CASE Continue(r)
  <2>1. step[r] + 1 \in Nat \ {0}
    OBVIOUS
  <2>2. step' \in [Request -> Nat \ {0}]
    BY <1>1, <2>1, Zenon DEF Continue
  <2>3. PICK p \in {"ready", "end"} : pc' = [pc EXCEPT ![r] = p]
    BY <1>1, Zenon DEF Continue
  <2>4. /\ pc' \in [Request -> {"ready", "attempt", "buffer", "mark", "window", "purge",
                                "lookup", "fetch", "fill", "done", "end"}]
        /\ answer' \in [Request -> Status \cup {none, "Rejected", "Buffered"}]
    BY <1>1, <2>3, Zenon DEF Continue
  <2>5. listed' \in [Request -> SUBSET (Nat \ {0})] /\ rows' \in [Request -> SUBSET Request]
    BY <1>1, Zenon DEF Continue
  <2>6. attempt' \in [Request -> Nat \ {0}] /\ target' \in [Request -> Source]
    BY <1>1, SourcesTyped DEF Continue
  <2> QED
    BY <1>1, <2>2, <2>4, <2>5, <2>6, Zenon DEF Continue
<1>2. CASE Reject(r)
  BY <1>2, Zenon DEF Reject, Return
<1>3. CASE RouteWrite(r)
  <2>1. PICK chosen \in WriteTargets(r) :
          /\ listed' = [listed EXCEPT ![r] = chosen]
          /\ pc' = [pc EXCEPT ![r] = IF chosen = {} THEN "buffer" ELSE "attempt"]
    BY <1>3, Zenon DEF RouteWrite
  <2>2. DOMAIN Failover \subseteq Nat \ {0}
    BY GroupAssumption
  <2>3. chosen \subseteq Nat \ {0}
    BY <2>2 DEF WriteTargets
  <2>4. CASE chosen = {}
    BY <1>3, <2>1, <2>4 DEF RouteWrite, Status
  <2>5. CASE chosen # {}
    BY <1>3, <2>1, <2>3, <2>5 DEF RouteWrite, Status
  <2> QED
    BY <2>4, <2>5, Zenon
<1>4. CASE WriteOk(r)
  <2>1. PICK i \in Current(r) :
          /\ Executes(r, Candidates(r)[i])
          /\ took' = [took EXCEPT ![r] = Candidates(r)[i]]
    BY <1>4, Zenon DEF WriteOk
  <2>2. i \in DOMAIN Candidates(r)
    BY <1>4, Zenon DEF WriteOk, Current, Placement
  <2>3. Candidates(r)[i] \in Source
    BY <2>2, SourcesTyped
  <2>4. data' \in [Source -> SUBSET Request] /\ runs' \in [Request -> Nat]
    BY <2>1, ExecutesTyped, Zenon
  <2> QED
    BY <1>4, <2>1, <2>3, <2>4, Zenon DEF WriteOk, Status
<1>5. CASE WriteRetry(r)
  <2>1. PICK s : Executes(r, s) \/ NotExecuted
    BY <1>5, Zenon DEF WriteRetry, FailsWith
  <2>2. data' \in [Source -> SUBSET Request] /\ runs' \in [Request -> Nat]
    BY <2>1, ExecutesTyped, Zenon
  <2>3. attempt[r] + 1 \in Nat \ {0}
    OBVIOUS
  <2> QED
    BY <1>5, <2>2, <2>3, Zenon DEF WriteRetry
<1>6. CASE WriteFails(r)
  <2>1. PICK i \in Current(r), st \in Status \ {"Ok"} :
          /\ FailsWith(r, Candidates(r)[i], st)
          /\ answer' = [answer EXCEPT ![r] = st]
          /\ IF FailsOver(r, st)
             THEN /\ listed' = [listed EXCEPT ![r] = listed[r] \ {i}]
                  /\ attempt' = [attempt EXCEPT ![r] = 1]
                  /\ pc' = [pc EXCEPT ![r] = IF listed[r] \ {i} = {} THEN "buffer" ELSE "attempt"]
             ELSE /\ pc' = [pc EXCEPT ![r] = "done"]
                  /\ UNCHANGED <<listed, attempt>>
    BY <1>6, Zenon DEF WriteFails
  <2>2. data' \in [Source -> SUBSET Request] /\ runs' \in [Request -> Nat]
    BY <2>1, ExecutesTyped, Zenon DEF FailsWith
  <2>4. listed' \in [Request -> SUBSET (Nat \ {0})] /\ attempt' \in [Request -> Nat \ {0}]
    <3>1. CASE FailsOver(r, st)
      <4>1. listed[r] \ {i} \in SUBSET (Nat \ {0}) /\ 1 \in Nat \ {0}
        OBVIOUS
      <4>2. /\ listed' = [listed EXCEPT ![r] = listed[r] \ {i}]
            /\ attempt' = [attempt EXCEPT ![r] = 1]
        BY <2>1, <3>1, Zenon
      <4>3. listed' \in [Request -> SUBSET (Nat \ {0})]
        BY <4>1, <4>2, Zenon
      <4> QED
        BY <4>1, <4>2, <4>3, Zenon
    <3>2. CASE ~FailsOver(r, st)
      BY <2>1, <3>2, Zenon
    <3> QED
      BY <3>1, <3>2, Zenon
  <2>5. pc' \in [Request -> {"ready", "attempt", "buffer", "mark", "window", "purge",
                             "lookup", "fetch", "fill", "done", "end"}]
    BY <2>1, Zenon
  <2> QED
    BY <1>6, <2>1, <2>2, <2>4, <2>5, Zenon DEF WriteFails
<1>7. CASE NotStarted(r)
  BY <1>7, Zenon DEF NotStarted, Return, Status
<1>8. CASE Buffer(r)
  <2>1. answer' \in [Request -> Status \cup {none, "Rejected", "Buffered"}]
    BY <1>8, Zenon DEF Buffer, Return
  <2>2. pc' = [pc EXCEPT ![r] = "done"]
    BY <1>8, Zenon DEF Buffer, Return
  <2> QED
    BY <1>8, <2>1, <2>2, Zenon DEF Buffer
<1>9. CASE SessionRefused(r)
  BY <1>9 DEF SessionRefused, Return, Status
<1>10. CASE SessionWrote(r) \/ SessionRead(r)
  <2>1. PICK st \in {"Ok", "Failed", "Lost"} :
          /\ Executes(r, Primary) \/ NotExecuted
          /\ answer' = [answer EXCEPT ![r] = st]
          /\ took' = [took EXCEPT ![r] = Primary] \/ took' = took
    BY <1>10, Zenon DEF SessionWrote, SessionRead
  <2>2. PICK p \in {"mark", "window", "done"} : pc' = [pc EXCEPT ![r] = p]
    BY <1>10, Zenon DEF SessionWrote, SessionRead
  <2>3. data' \in [Source -> SUBSET Request] /\ runs' \in [Request -> Nat]
    BY <2>1, ExecutesTyped, Zenon
  <2>4. took' \in [Request -> Source \cup {none}]
    <3>1. CASE took' = [took EXCEPT ![r] = Primary]
      BY <3>1, SourcesTyped, Zenon
    <3> QED
      BY <2>1, <3>1, Zenon
  <2>5. answer' \in [Request -> Status \cup {none, "Rejected", "Buffered"}]
    BY <2>1, Zenon DEF Status
  <2> QED
    BY <1>10, <2>2, <2>3, <2>4, <2>5 DEF SessionWrote, SessionRead
<1>11. CASE Mark(r)
  <2>1. PICK p \in {"done", "window"} : pc' = [pc EXCEPT ![r] = p]
    BY <1>11, Zenon DEF Mark
  <2>2. cache' \in [Source -> SUBSET SUBSET Request]
    BY <1>11, Zenon DEF Mark
  <2>3. call[r].depth \in Nat
    BY DepthTyped, Zenon
  <2>4. PinnedFrame(r) \subseteq Nat
    BY <2>3 DEF PinnedFrame, InnerFrames
  <2> QED
    BY <1>11, <2>1, <2>2, <2>4 DEF Mark
<1>12. CASE OpenWindow(r)
  <2>1. Window \in BOOLEAN
    BY GroupAssumption, Zenon
  <2>2. todo' \in [Request -> Seq(Source)]
    BY <1>12, SourcesTyped, Zenon DEF OpenWindow
  <2> QED
    BY <1>12, <2>1, <2>2, Zenon DEF OpenWindow
<1>13. CASE Purge(r)
  BY <1>13 DEF Purge
<1>14. CASE RouteRead(r)
  BY <1>14, SourcesTyped DEF RouteRead
<1>15. CASE Lookup(r)
  <2>1. CASE Caching(r) /\ cache[target[r]] # {}
    <3>1. PICK hit \in cache[target[r]] : rows' = [rows EXCEPT ![r] = hit]
      BY <1>15, <2>1, Zenon DEF Lookup
    <3>2. hit \subseteq Request
      OBVIOUS
    <3> QED
      BY <1>15, <2>1, <3>1, <3>2, Zenon DEF Lookup, Return, Status
  <2>2. CASE ~(Caching(r) /\ cache[target[r]] # {})
    BY <1>15, <2>2, Zenon DEF Lookup
  <2> QED
    BY <2>1, <2>2, Zenon
<1>16. CASE FetchOk(r)
  BY <1>16, Zenon DEF FetchOk, Status
<1>17. CASE FetchRetry(r)
  BY <1>17 DEF FetchRetry
<1>18. CASE FetchFails(r)
  <2>1. PICK st \in Status \ {"Ok"} :
          \/ /\ target' = [target EXCEPT ![r] = Primary]
             /\ attempt' = [attempt EXCEPT ![r] = 1]
             /\ pc' = [pc EXCEPT ![r] = "lookup"]
             /\ UNCHANGED answer
          \/ Return(r, st) /\ UNCHANGED <<target, attempt>>
    BY <1>18, Zenon DEF FetchFails
  <2>2. CASE /\ target' = [target EXCEPT ![r] = Primary]
             /\ attempt' = [attempt EXCEPT ![r] = 1]
             /\ pc' = [pc EXCEPT ![r] = "lookup"]
             /\ UNCHANGED answer
    <3>1. attempt' \in [Request -> Nat \ {0}] /\ target' \in [Request -> Source]
      BY <2>2, SourcesTyped
    <3> QED
      BY <1>18, <2>2, <3>1, Zenon DEF FetchFails
  <2>3. CASE Return(r, st) /\ UNCHANGED <<target, attempt>>
    BY <1>18, <2>3, Zenon DEF FetchFails, Return
  <2> QED
    BY <2>1, <2>2, <2>3, Zenon
<1>19. CASE Fill(r)
  BY <1>19 DEF Fill
<1> QED
  BY <1>1, <1>2, <1>3, <1>4, <1>5, <1>6, <1>7, <1>8, <1>9, <1>10, <1>11, <1>12, <1>13, <1>14,
      <1>15, <1>16, <1>17, <1>18, <1>19, Zenon DEF Serve

\* The steps of the flush thread, the manager and the rest of the world keep
\* the types.
LEMMA WorldTyped ==
  ASSUME LocalOK, WorldOK, BufferInv,
         FlushThread \/ Manager \/ Replicate \/ WindowEnds \/ Evict \/ UNCHANGED vars
  PROVE  LocalOK' /\ WorldOK' /\ UNCHANGED requestVars
<1> USE DEF LocalOK, WorldOK, groupHistory, groupVars, requestVars
<1>1. CASE ReplayRuns
  <2>1. Head(batch) \in Request
    BY <1>1, RangeOfTail, GroupAssumption, Zenon DEF ReplayRuns, BufferInv, BufferTypeOK
  <2>2. Primary \in Source
    BY Zenon DEF Source
  <2>3. data' \in [Source -> SUBSET Request]
    <3>1. \/ data' = [data EXCEPT ![Primary] = data[Primary] \cup {Head(batch)}]
          \/ data' = data
      BY <1>1, Zenon DEF ReplayRuns
    <3>2. data[Primary] \cup {Head(batch)} \in SUBSET Request
      BY <2>1, <2>2, Zenon
    <3>3. CASE data' = [data EXCEPT ![Primary] = data[Primary] \cup {Head(batch)}]
      BY <3>2, <3>3, Zenon
    <3> QED
      BY <3>1, <3>3, Zenon
  <2> QED
    BY <1>1, <2>3, Zenon DEF ReplayRuns
<1>2. CASE ReplayEnds
  <2>1. cache' \in [Source -> SUBSET SUBSET Request]
    BY <1>2, Zenon DEF ReplayEnds
  <2> QED
    BY <1>2, <2>1, Zenon DEF ReplayEnds
<1>3. CASE UNCHANGED groupVars
  BY <1>3, Zenon
<1>4. CASE Replicate
  <2>1. PICK s \in Source, from \in Source : data' = [data EXCEPT ![s] = data[s] \cup data[from]]
    BY <1>4, Zenon DEF Replicate, Source
  <2>2. data' \in [Source -> SUBSET Request]
    BY <2>1, Zenon
  <2> QED
    BY <1>4, <2>2, Zenon DEF Replicate
<1>5. CASE WindowEnds
  BY <1>5, Zenon DEF WindowEnds
<1>6. CASE Evict
  BY <1>6, Zenon DEF Evict
<1> QED
  BY <1>1, <1>2, <1>3, <1>4, <1>5, <1>6, Zenon DEF FlushThread, Manager, vars

----------------------------------------------------------------------------
(* Steps of others.                                                         *)

\* What a step leaves alone of a request that is not its own.
Same(q) ==
    /\ call' = call
    /\ step'[q] = step[q] /\ pc'[q] = pc[q] /\ listed'[q] = listed[q]
    /\ target'[q] = target[q] /\ answer'[q] = answer[q] /\ rows'[q] = rows[q]
    /\ pinned'[q] = pinned[q] /\ runs'[q] = runs[q] /\ took'[q] = took[q]
    /\ fate'[q] = "none" <=> fate[q] = "none"
    /\ \A s \in Source : q \in data[s] => q \in data'[s]
    /\ fate[q] = "none" /\ (\A s \in Source \ {Shadow} : q \notin data[s])
         => \A s \in Source \ {Shadow} : q \notin data'[s]

\* The operators of a request at the same statement of the same call.
LEMMA StatementSame ==
  ASSUME NEW q \in Request, call' = call, step'[q] = step[q]
  PROVE  /\ Script(q)' = Script(q) /\ Kind(q)' = Kind(q) /\ Shadowed(q)' = Shadowed(q)
         /\ Candidates(q)' = Candidates(q) /\ OnlyWrites(q)' = OnlyWrites(q)
         /\ WriteAttempts(q)' = WriteAttempts(q)
<1>1. Script(q)' = Script(q) /\ Shadowed(q)' = Shadowed(q) /\ WriteAttempts(q)' = WriteAttempts(q)
  BY Zenon DEF Script, Shadowed, WriteAttempts
<1>2. Kind(q)' = Kind(q)
  BY <1>1, Zenon DEF Kind
<1>3. Candidates(q)' = Candidates(q)
  BY <1>1, <1>2, Zenon DEF Candidates
<1>4. OnlyWrites(q)' = OnlyWrites(q)
  BY <1>1, Zenon DEF OnlyWrites
<1> QED
  BY <1>1, <1>2, <1>3, <1>4, ZenonT(30)

\* Such a step keeps what is true of the request.
LEMMA SameKeeps ==
  ASSUME NEW q \in Request, RequestInv(q), Same(q)
  PROVE  RequestInv(q)'
<1>1. /\ Script(q)' = Script(q) /\ Kind(q)' = Kind(q) /\ Shadowed(q)' = Shadowed(q)
      /\ Candidates(q)' = Candidates(q) /\ OnlyWrites(q)' = OnlyWrites(q)
      /\ WriteAttempts(q)' = WriteAttempts(q)
  BY StatementSame, ZenonT(30) DEF Same
<1>2. Placement(q)'
  BY <1>1, ZenonT(30) DEF RequestInv, Placement, Same
<1>3. OnceSoFar(q)'
  <2>1. PastWrite(q)' = PastWrite(q) /\ Fresh(q)' = Fresh(q)
    BY <1>1, ZenonT(30) DEF PastWrite, Fresh, Same
  <2> QED
    BY <1>1, <2>1, ZenonT(30) DEF RequestInv, OnceSoFar, Same
<1>4. Isolated(q)'
  BY <1>1, Zenon DEF RequestInv, Isolated, Same
<1>5. SeesOwn(q)'
  <2>1. Writer(q)' = Writer(q) /\ Primary \in Source
    BY <1>1, ZenonT(30) DEF Writer, Same, Source
  <2> QED
    BY <1>1, <2>1, ZenonT(30) DEF RequestInv, SeesOwn, Same
<1> QED
  BY <1>2, <1>3, <1>4, <1>5, Zenon DEF RequestInv

\* A step of one request is such a step for the others.
LEMMA OthersSame ==
  ASSUME GroupInv, NEW r \in Request, Serve(r), NEW q \in Request, q # r
  PROVE  Same(q)
<1> USE DEF groupHistory
<1>0. LocalOK /\ WorldOK
  BY Zenon DEF GroupInv
<1>1. call' = call
  BY ZenonT(30) DEF Serve, Continue, Reject, RouteWrite, WriteOk, WriteRetry, WriteFails,
       NotStarted, Buffer, SessionRefused, SessionWrote, SessionRead, Mark, OpenWindow, Purge, RouteRead,
       Lookup, FetchOk, FetchRetry, FetchFails, Fill
<1>2. /\ step'[q] = step[q] /\ pc'[q] = pc[q] /\ listed'[q] = listed[q]
      /\ target'[q] = target[q] /\ answer'[q] = answer[q] /\ rows'[q] = rows[q]
      /\ pinned'[q] = pinned[q]
  <2>1. CASE Continue(r)
    BY <2>1, <1>0, ZenonT(30) DEF Continue, LocalOK, Return
  <2>2. CASE Reject(r)
    BY <2>2, <1>0, Zenon DEF Reject, LocalOK, Return
  <2>3. CASE RouteWrite(r)
    BY <2>3, <1>0, Zenon DEF RouteWrite, LocalOK, Return
  <2>4. CASE WriteOk(r)
    BY <2>4, <1>0, Zenon DEF WriteOk, LocalOK, Return
  <2>5. CASE WriteRetry(r)
    BY <2>5, <1>0, Zenon DEF WriteRetry, LocalOK, Return
  <2>6. CASE WriteFails(r)
    <3>1. /\ UNCHANGED <<step, target, rows, pinned>>
          /\ \E v : pc' = [pc EXCEPT ![r] = v]
          /\ \E v : answer' = [answer EXCEPT ![r] = v]
          /\ listed' = listed \/ \E v : listed' = [listed EXCEPT ![r] = v]
      BY <2>6, Zenon DEF WriteFails
    <3> QED
      BY <3>1, <1>0, Zenon DEF LocalOK
  <2>7. CASE NotStarted(r)
    BY <2>7, <1>0, Zenon DEF NotStarted, LocalOK, Return
  <2>8. CASE Buffer(r)
    BY <2>8, <1>0, Zenon DEF Buffer, LocalOK, Return
  <2>9. CASE SessionRefused(r)
    BY <2>9, <1>0, Zenon DEF SessionRefused, LocalOK, Return
  <2>10. CASE SessionWrote(r) \/ SessionRead(r)
    BY <2>10, <1>0, Zenon DEF SessionWrote, SessionRead, LocalOK, Return
  <2>11. CASE Mark(r)
    BY <2>11, <1>0, Zenon DEF Mark, LocalOK, Return
  <2>12. CASE OpenWindow(r)
    BY <2>12, <1>0, Zenon DEF OpenWindow, LocalOK, Return
  <2>13. CASE Purge(r)
    BY <2>13, <1>0, Zenon DEF Purge, LocalOK, Return
  <2>14. CASE RouteRead(r)
    BY <2>14, <1>0, Zenon DEF RouteRead, LocalOK, Return
  <2>15. CASE Lookup(r)
    <3>1. /\ UNCHANGED <<step, listed, target, pinned>>
          /\ \E v : pc' = [pc EXCEPT ![r] = v]
          /\ answer' = answer \/ \E v : answer' = [answer EXCEPT ![r] = v]
          /\ rows' = rows \/ \E v : rows' = [rows EXCEPT ![r] = v]
      BY <2>15, Zenon DEF Lookup, Return
    <3> QED
      BY <3>1, <1>0, Zenon DEF LocalOK
  <2>16. CASE FetchOk(r)
    BY <2>16, <1>0, ZenonT(30) DEF FetchOk, LocalOK, Return
  <2>17. CASE FetchRetry(r)
    BY <2>17, <1>0, Zenon DEF FetchRetry, LocalOK, Return
  <2>18. CASE FetchFails(r)
    BY <2>18, <1>0, Zenon DEF FetchFails, LocalOK, Return
  <2>19. CASE Fill(r)
    BY <2>19, <1>0, Zenon DEF Fill, LocalOK, Return
  <2> QED
    BY <2>1, <2>2, <2>3, <2>4, <2>5, <2>6, <2>7, <2>8, <2>9, <2>10,
       <2>11, <2>12, <2>13, <2>14, <2>15, <2>16, <2>17, <2>18, <2>19, ZenonT(30) DEF Serve
<1>5. took'[q] = took[q]
  BY <1>0, ZenonT(30) DEF Serve, Continue, Reject, RouteWrite, WriteOk, WriteRetry, WriteFails,
       NotStarted, Buffer, SessionRefused, SessionWrote, SessionRead, Mark, OpenWindow, Purge, RouteRead,
       Lookup, FetchOk, FetchRetry, FetchFails, Fill, WorldOK
<1>6. \/ UNCHANGED <<data, runs>>
      \/ \E s : Executes(r, s)
  BY Zenon DEF Serve, Continue, Reject, RouteWrite, WriteOk, WriteRetry, WriteFails,
       NotStarted, Buffer, SessionRefused, SessionWrote, SessionRead, Mark, OpenWindow, Purge, RouteRead,
       Lookup, FetchOk, FetchRetry, FetchFails, Fill, FailsWith, NotExecuted
<1>7. runs'[q] = runs[q] /\ \A s \in Source : q \in data'[s] <=> q \in data[s]
  <2>1. CASE UNCHANGED <<data, runs>>
    BY <2>1, Zenon
  <2>2. ASSUME NEW s, Executes(r, s)
        PROVE  runs'[q] = runs[q] /\ \A t \in Source : q \in data'[t] <=> q \in data[t]
    BY <2>2, <1>0, Zenon DEF Executes, WorldOK
  <2> QED
    BY <1>6, <2>1, <2>2, Zenon
<1>8. fate'[q] = fate[q]
  <2>1. CASE Buffer(r)
    BY <2>1, GroupAssumption, Zenon DEF Buffer, Enqueue, GroupInv, BufferInv, BufferTypeOK, bufferVars, historyVars
  <2>2. CASE ~Buffer(r)
    <3>1. UNCHANGED bufferVars
      BY <2>2, Zenon DEF Serve, Continue, Reject, RouteWrite, WriteOk, WriteRetry, WriteFails,
        NotStarted, SessionRefused, SessionWrote, SessionRead, Mark, OpenWindow, Purge, RouteRead,
        Lookup, FetchOk, FetchRetry, FetchFails, Fill
    <3> QED
      BY <3>1, Zenon DEF bufferVars, historyVars
  <2> QED
    BY <2>1, <2>2, Zenon
<1> QED
  BY <1>1, <1>2, <1>5, <1>7, <1>8, Zenon DEF Same

\* The flush thread executes only writes that are in its batch, so the writes
\* that were never buffered stay where they are; replication copies between the
\* primary, the stand-ins and the replicas.
LEMMA WorldSame ==
  ASSUME GroupInv, NEW q \in Request,
         FlushThread \/ Manager \/ Replicate \/ WindowEnds \/ Evict \/ UNCHANGED vars
  PROVE  Same(q)
<1> USE DEF groupHistory
<1>0. LocalOK /\ WorldOK /\ BufferInv /\ q \in Write
  BY GroupAssumption, Zenon DEF GroupInv
<1>1. UNCHANGED requestVars
  BY <1>0, WorldTyped, Zenon
<1>2. runs' = runs /\ took' = took
  BY Zenon DEF FlushThread, ReplayRuns, ReplayEnds, Manager, Replicate, WindowEnds, Evict,
       groupVars, vars
<1>3. /\ batch # <<>> => Head(batch) \in Write /\ fate[Head(batch)] = "queued"
      /\ \A w \in Write : w \in Dropped(retry \o queue) \/ w \in Range(queue) => fate[w] = "queued"
      /\ fate \in [Write -> Fate] /\ q \in Write
  <2>1. /\ batch \in Seq(Write) /\ queue \in Seq(Write) /\ retry \in Seq(Write)
        /\ fate \in [Write -> Fate]
    BY <1>0, Zenon DEF BufferInv, BufferTypeOK
  <2>2. \A w \in Write : w \in Range(batch) \cup Range(queue) \cup Range(retry) => fate[w] = "queued"
    BY <1>0, Zenon DEF BufferInv, Accounted, PendingSet
  <2>3. batch # <<>> => Head(batch) \in Write /\ Head(batch) \in Range(batch)
    BY <2>1, RangeOfTail, Zenon
  <2>4. Range(retry \o queue) = Range(retry) \cup Range(queue) /\ retry \o queue \in Seq(Write)
    BY <2>1, RangeOfConcat
  <2>5. Dropped(retry \o queue) \subseteq Range(retry \o queue)
    <3> DEFINE all == retry \o queue
    <3> HIDE DEF all
    <3>1. all \in Seq(Write)
      BY <2>4, Zenon DEF all
    <3>2. \A i \in (MaxQueue + 1) .. Len(all) : i \in 1 .. Len(all)
      BY <3>1, BufferAssumption
    <3>3. \A i \in 1 .. Len(all) : all[i] \in Range(all)
      BY <3>1, RangeOfSequence, Zenon
    <3> QED
      BY <3>2, <3>3, Zenon DEF Dropped, all
  <2> QED
    BY <1>0, <2>1, <2>2, <2>3, <2>4, <2>5, Zenon
<1>4. fate'[q] = "none" <=> fate[q] = "none"
  <2>1. CASE UNCHANGED bufferVars
    BY <2>1, Zenon DEF bufferVars, historyVars
  <2>2. CASE Life \/ Swap \/ Flushed
    BY <2>2, Zenon DEF Life, Start, Stop, Joined, Swap, Flushed, historyVars
  <2>3. CASE Expire
    BY <2>3, <1>3, Zenon DEF Expire
  <2>4. CASE Requeue
    BY <2>4, <1>3, Zenon DEF Requeue, RequeueWith
  <2>5. CASE Clear
    BY <2>5, <1>3, Zenon DEF Clear
  <2>6. CASE ReplayEnds
    BY <2>6, <1>3, Zenon DEF ReplayEnds, Replay
  <2> QED
    BY <2>1, <2>2, <2>3, <2>4, <2>5, <2>6, Zenon DEF FlushThread, ReplayRuns, Manager,
         Replicate, WindowEnds, Evict, vars, Housekeeping
<1>5. /\ \A s \in Source : q \in data[s] => q \in data'[s]
      /\ fate[q] = "none" /\ (\A s \in Source \ {Shadow} : q \notin data[s])
           => \A s \in Source \ {Shadow} : q \notin data'[s]
  <2> USE DEF WorldOK
  <2>1. CASE data' = data
    BY <2>1, Zenon
  <2>2. CASE ReplayRuns
    <3>1. /\ batch # <<>>
          /\ \/ data' = [data EXCEPT ![Primary] = data[Primary] \cup {Head(batch)}]
             \/ data' = data
      BY <2>2, Zenon DEF ReplayRuns
    <3>2. fate[q] = "none" => q # Head(batch)
      BY <1>3, <3>1, Zenon
    <3> QED
      BY <3>1, <3>2, <1>0
  <2>3. CASE Replicate
    <3>1. PICK s \in Source, from \in Source \ {Shadow} :
                 data' = [data EXCEPT ![s] = data[s] \cup data[from]]
      BY <2>3, ShadowAssumption, Zenon DEF Replicate, Source
    <3> QED
      BY <3>1, <1>0, Zenon
  <2> QED
    BY <2>1, <2>2, <2>3, Zenon DEF FlushThread, ReplayEnds, Manager, WindowEnds, Evict,
         groupVars, vars
<1> QED
  BY <1>1, <1>2, <1>4, <1>5, Zenon DEF Same, requestVars

----------------------------------------------------------------------------
(* A request's own steps.                                                   *)

\* A step within a statement that executes and buffers nothing.
LEMMA OnceMoves ==
  ASSUME NEW r \in Request, OnceSoFar(r), call' = call, step'[r] = step[r],
         runs'[r] = runs[r], fate'[r] = fate[r], pc[r] \in After => pc'[r] \in After
  PROVE  OnceSoFar(r)'
<1>1. Script(r)' = Script(r) /\ WriteAttempts(r)' = WriteAttempts(r)
  BY StatementSame, Zenon
<1>2. PastWrite(r) => PastWrite(r)'
  BY <1>1, Zenon DEF PastWrite
<1>3. Fresh(r)' = Fresh(r)
  BY Zenon DEF Fresh
<1> QED
  BY <1>1, <1>2, <1>3, Zenon DEF OnceSoFar

\* A step that writes to no source but the shadow source.
LEMMA IsolatedMoves ==
  ASSUME NEW r \in Request, Isolated(r), call' = call,
         Shadowed(r) /\ OnlyWrites(r) =>
            /\ fate'[r] = fate[r]
            /\ \A s \in Source \ {Shadow} : r \in data'[s] => r \in data[s]
            /\ pc'[r] # "buffer"
            /\ pc'[r] = "attempt" => listed'[r] = {1}
  PROVE  Isolated(r)'
<1>1. Shadowed(r)' = Shadowed(r) /\ OnlyWrites(r)' = OnlyWrites(r)
  BY Zenon DEF Shadowed, OnlyWrites, Script
<1> QED
  BY <1>1, Zenon DEF Isolated

\* A step that acknowledges no write.
LEMMA SeesMoves ==
  ASSUME NEW r \in Request, SeesOwn(r), call' = call, took'[r] = took[r],
         r \in data[Primary] => r \in data'[Primary],
         pinned[r] \subseteq pinned'[r],
         pc[r] = "mark" => 1 \in pinned'[r] \/ ~Writer(r),
         PrimaryUncached /\ Writer(r) =>
            /\ pc'[r] \in {"lookup", "fetch"} => target'[r] = Primary
            /\ pc'[r] # "fill"
            /\ pc'[r] = "done" /\ Kind(r)' = "read" /\ answer'[r] = "Ok" => r \in rows'[r]
  PROVE  SeesOwn(r)'
<1>1. Writer(r)' = Writer(r)
  BY Zenon DEF Writer, Shadowed
<1> QED
  BY <1>1, Zenon DEF SeesOwn

\* A step within a statement after which its place is still one of its own.
LEMMA PlacementMoves ==
  ASSUME NEW r \in Request, Placement(r), call' = call, step'[r] = step[r],
         pc'[r] \in {"attempt", "buffer", "mark", "window", "purge"} => Kind(r) # "read",
         pc'[r] \in {"lookup", "fetch", "fill"} => Kind(r) = "read",
         pc'[r] = "attempt" => listed'[r] \subseteq DOMAIN Candidates(r)
  PROVE  Placement(r)'
<1>1. Script(r)' = Script(r) /\ Kind(r)' = Kind(r) /\ Candidates(r)' = Candidates(r)
  BY StatementSame, Zenon
<1> QED
  BY <1>1, Zenon DEF Placement

\* The steps that execute no write, buffer none and read nothing.
LEMMA QuietMoves ==
  ASSUME NEW r \in Request, RequestInv(r), call' = call, step'[r] = step[r],
         UNCHANGED <<data, fate, runs, took>>, pinned[r] \subseteq pinned'[r],
         pc[r] \in After => pc'[r] \in After,
         pc[r] = "mark" => 1 \in pinned'[r] \/ ~Writer(r),
         pc'[r] \in {"mark", "window", "purge"} => Kind(r) # "read",
         pc'[r] \in {"mark", "window", "purge", "done"},
         pc'[r] = "done" => Kind(r) # "read" \/ answer'[r] # "Ok"
  PROVE  RequestInv(r)'
<1>0. Kind(r)' = Kind(r)
  BY StatementSame, Zenon
<1>1. Placement(r)'
  BY PlacementMoves, Zenon DEF RequestInv
<1>2. OnceSoFar(r)'
  BY OnceMoves, Zenon DEF RequestInv
<1>3. Isolated(r)'
  BY IsolatedMoves, Zenon DEF RequestInv
<1>4. SeesOwn(r)'
  BY <1>0, SeesMoves, Zenon DEF RequestInv
<1> QED
  BY <1>1, <1>2, <1>3, <1>4, Zenon DEF RequestInv

\* The ends of a statement without effect, and the steps of markWrite().
LEMMA QuietSteps ==
  ASSUME GroupInv, NEW r \in Request,
         \/ Reject(r) \/ NotStarted(r) \/ SessionRefused(r)
         \/ Mark(r) \/ OpenWindow(r) \/ Purge(r)
  PROVE  RequestInv(r)'
<1> USE DEF groupHistory
<1>0. LocalOK /\ WorldOK /\ RequestInv(r) /\ Placement(r)
  BY Zenon DEF GroupInv, RequestInv
<1>1. UNCHANGED <<data, fate, runs, took>> /\ call' = call /\ step' = step
  BY Zenon DEF Reject, NotStarted, SessionRefused, Mark, OpenWindow, Purge, bufferVars,
       historyVars
<1>2. CASE Reject(r)
  <2>1. pc[r] = "ready" /\ pc'[r] = "done" /\ answer'[r] = "Rejected" /\ pinned' = pinned
    BY <1>2, <1>0, Zenon DEF Reject, Return, LocalOK
  <2> QED
    BY <1>0, <1>1, <2>1, QuietMoves, Zenon DEF After
<1>3. CASE NotStarted(r)
  <2>1. pc[r] \in {"attempt", "lookup"} /\ pc'[r] = "done" /\ answer'[r] = "PoolClosed" /\ pinned' = pinned
    BY <1>3, <1>0, Zenon DEF NotStarted, Return, LocalOK
  <2> QED
    BY <1>0, <1>1, <2>1, QuietMoves, Zenon DEF After
<1>4. CASE SessionRefused(r)
  <2>1. pc[r] = "attempt" /\ pc'[r] = "done" /\ Kind(r) # "read" /\ pinned' = pinned
    BY <1>4, <1>0, Zenon DEF SessionRefused, Return, LocalOK
  <2> QED
    BY <1>0, <1>1, <2>1, QuietMoves, Zenon DEF After
<1>5. CASE Mark(r)
  <2>1. /\ pc[r] = "mark" /\ pc'[r] \in {"done", "window"}
        /\ pinned'[r] = pinned[r] \cup PinnedFrame(r) /\ Kind(r) # "read"
    BY <1>5, <1>0, Zenon DEF Mark, LocalOK, Placement
  <2>2. 1 \in PinnedFrame(r) \/ ~Writer(r)
    BY DEF PinnedFrame, Writer, InnerFrames
  <2> QED
    BY <1>0, <1>1, <2>1, <2>2, QuietMoves, Zenon DEF After
<1>6. CASE OpenWindow(r)
  <2>1. pc[r] = "window" /\ pc'[r] = "purge" /\ pinned' = pinned /\ Kind(r) # "read"
    BY <1>6, <1>0, Zenon DEF OpenWindow, LocalOK, Placement
  <2> QED
    BY <1>0, <1>1, <2>1, QuietMoves, Zenon DEF After
<1>7. CASE Purge(r)
  <2>1. pc[r] = "purge" /\ pc'[r] \in {"purge", "done"} /\ pinned' = pinned /\ Kind(r) # "read"
    BY <1>7, <1>0, Zenon DEF Purge, LocalOK, Placement
  <2> QED
    BY <1>0, <1>1, <2>1, QuietMoves, Zenon DEF After
<1> QED
  BY <1>2, <1>3, <1>4, <1>5, <1>6, <1>7, Zenon

\* The steps of a read: the pinned scope sends it to the primary, whose rows
\* are neither looked up in a cache nor put into one.
LEMMA ReadSteps ==
  ASSUME GroupInv, NEW r \in Request,
         \/ RouteRead(r) \/ Lookup(r) \/ FetchOk(r) \/ FetchRetry(r) \/ FetchFails(r) \/ Fill(r)
  PROVE  RequestInv(r)'
<1> USE DEF groupHistory
<1>0. /\ LocalOK /\ WorldOK /\ RequestInv(r)
      /\ Placement(r) /\ OnceSoFar(r) /\ Isolated(r) /\ SeesOwn(r)
  BY Zenon DEF GroupInv, RequestInv
<1>1. /\ UNCHANGED <<data, fate, runs, took>> /\ call' = call /\ step' = step /\ pinned' = pinned
      /\ pc'[r] \in {"lookup", "fetch", "fill", "done"} /\ Kind(r) = "read"
      /\ pc[r] \in {"ready", "lookup", "fetch", "fill"}
  BY <1>0, Zenon DEF RouteRead, Lookup, FetchOk, FetchRetry, FetchFails, Fill, bufferVars,
       historyVars, Return, LocalOK, Placement
<1>2. Placement(r)'
  BY <1>0, <1>1, PlacementMoves, Zenon
<1>3. OnceSoFar(r)'
  BY <1>0, <1>1, OnceMoves, Zenon DEF After
<1>4. Isolated(r)'
  BY <1>0, <1>1, IsolatedMoves, ZenonT(30)
<1>5. ASSUME PrimaryUncached, Writer(r)
      PROVE  /\ pc'[r] \in {"lookup", "fetch"} => target'[r] = Primary
             /\ pc'[r] # "fill"
             /\ pc'[r] = "done" /\ answer'[r] = "Ok" => r \in rows'[r]
  <2>1. /\ 1 \in pinned[r] /\ r \in data[Primary] /\ ~Shadowed(r) /\ TopPinned(r)
        /\ pc[r] # "fill" /\ (pc[r] \in {"lookup", "fetch"} => target[r] = Primary)
    BY <1>0, <1>1, <1>5, ZenonT(30) DEF SeesOwn, Writer, TopPinned
  <2>2. pc[r] \in {"lookup", "fetch"} => ~Caching(r)
    BY <2>1, <1>5, Zenon DEF Caching, PrimaryUncached
  <2>3. CASE RouteRead(r)
    BY <2>1, <2>3, <1>0, ZenonT(30) DEF RouteRead, ReadTargets, LocalOK
  <2>4. CASE Lookup(r)
    BY <2>1, <2>2, <2>4, <1>0, Zenon DEF Lookup, LocalOK
  <2>5. CASE FetchOk(r)
    BY <2>1, <2>2, <2>5, <1>0, Zenon DEF FetchOk, LocalOK
  <2>6. CASE FetchRetry(r)
    BY <2>1, <2>6, <1>0, Zenon DEF FetchRetry, LocalOK
  <2>7. CASE FetchFails(r)
    BY <2>1, <2>7, <1>0, Zenon DEF FetchFails, Return, LocalOK
  <2>8. CASE Fill(r)
    BY <2>1, <2>8, Zenon DEF Fill
  <2> QED
    BY <2>3, <2>4, <2>5, <2>6, <2>7, <2>8, Zenon
<1>6. SeesOwn(r)'
  BY <1>0, <1>1, <1>5, SeesMoves, Zenon
<1> QED
  BY <1>2, <1>3, <1>4, <1>6, Zenon DEF RequestInv

\* A request at its write has not written yet, for it writes only once.
LEMMA BeforeWrite ==
  ASSUME GroupInv, NEW r \in Request, pc[r] \in {"ready", "attempt", "buffer"}, Kind(r) # "read",
         WriteAttempts(r) = 1
  PROVE  Fresh(r)
<1>1. call \in Calls /\ step[r] \in DOMAIN Script(r) /\ step[r] \in Nat /\ OnceSoFar(r)
  BY Zenon DEF GroupInv, LocalOK, RequestInv, Placement
<1>2. ~PastWrite(r)
  <2> SUFFICES ASSUME NEW i \in DOMAIN Script(r), Script(r)[i] # "read",
                      i < step[r] \/ (i = step[r] /\ pc[r] \in After)
               PROVE  FALSE
    BY Zenon DEF PastWrite
  <2>1. i = step[r]
    BY <1>1, OneWriteEach, Zenon DEF Script, Kind
  <2> QED
    BY <1>1, <2>1 DEF After
<1> QED
  BY <1>1, <1>2, Zenon DEF OnceSoFar

\* After an attempt that was the last one, executions are counted once.
LEMMA OnceAfter ==
  ASSUME NEW r \in Request, WriteAttempts(r) = 1 => Fresh(r), Kind(r) # "read", Placement(r),
         call' = call, step'[r] = step[r], pc'[r] \in After,
         \/ fate'[r] = fate[r] /\ runs'[r] \in {runs[r], runs[r] + 1}
         \/ runs'[r] = runs[r]
  PROVE  OnceSoFar(r)'
<1>1. /\ Script(r)' = Script(r) /\ Kind(r)' = Kind(r) /\ WriteAttempts(r)' = WriteAttempts(r)
  BY StatementSame, Zenon
<1>2. PastWrite(r)'
  BY <1>1, Zenon DEF PastWrite, Placement, Kind
<1> QED
  BY <1>1, <1>2 DEF OnceSoFar, Fresh

\* What executing a write on a source, or not, does, seen by its request.
LEMMA ExecutesEffect ==
  ASSUME WorldOK, NEW r \in Request, NEW s \in Source, Executes(r, s) \/ NotExecuted
  PROVE  /\ \A t \in Source : r \in data[t] => r \in data'[t]
         /\ \A t \in Source \ {s} : r \in data'[t] => r \in data[t]
         /\ Executes(r, s) => r \in data'[s]
         /\ runs'[r] \in {runs[r], runs[r] + 1}
<1>1. CASE Executes(r, s)
  BY <1>1, Zenon DEF Executes, WorldOK
<1>2. CASE NotExecuted
  BY <1>2 DEF Executes, NotExecuted, WorldOK
<1> QED
  BY <1>1, <1>2, Zenon

\* The target of an attempt; for a shadow write it is the shadow source.
LEMMA AttemptTarget ==
  ASSUME GroupInv, NEW r \in Request, pc[r] = "attempt", Kind(r) = "write", NEW i \in Current(r)
  PROVE  /\ Candidates(r)[i] \in Source
         /\ Shadowed(r) /\ OnlyWrites(r) => Candidates(r)[i] = Shadow
<1>1. i \in DOMAIN Candidates(r) /\ i \in listed[r]
  BY Zenon DEF GroupInv, RequestInv, Placement, Current
<1>2. Candidates(r)[i] \in Source
  BY <1>1, SourcesTyped
<1>3. ASSUME Shadowed(r), OnlyWrites(r) PROVE Candidates(r)[i] = Shadow
  <2>1. i = 1
    BY <1>1, <1>3, Zenon DEF GroupInv, RequestInv, Isolated
  <2> QED
    BY <2>1, <1>3, Zenon DEF Candidates
<1> QED
  BY <1>2, <1>3, Zenon

\* dispatchWrite() up to its first attempt.
LEMMA RouteWriteKeeps ==
  ASSUME GroupInv, NEW r \in Request, RouteWrite(r)
  PROVE  RequestInv(r)'
<1> USE DEF groupHistory
<1>0. /\ LocalOK /\ Placement(r) /\ OnceSoFar(r) /\ Isolated(r) /\ SeesOwn(r)
  BY Zenon DEF GroupInv, RequestInv
<1>1. /\ UNCHANGED <<data, fate, runs, took>> /\ call' = call /\ step' = step /\ pinned' = pinned
      /\ pc[r] = "ready" /\ Kind(r) # "read"
  BY Zenon DEF RouteWrite, bufferVars, historyVars
<1>2. PICK chosen \in WriteTargets(r) :
            listed'[r] = chosen /\ pc'[r] = IF chosen = {} THEN "buffer" ELSE "attempt"
  BY <1>0, Zenon DEF RouteWrite, LocalOK
<1>3. chosen \subseteq DOMAIN Candidates(r) /\ (Shadowed(r) => chosen = {1})
  BY DEF WriteTargets, Candidates
<1>4. Placement(r)'
  BY <1>0, <1>1, <1>2, <1>3, PlacementMoves, Zenon
<1>5. OnceSoFar(r)'
  BY <1>0, <1>1, OnceMoves, Zenon DEF After
<1>6. Isolated(r)'
  BY <1>0, <1>1, <1>2, <1>3, IsolatedMoves, Zenon
<1>7. SeesOwn(r)'
  BY <1>0, <1>1, <1>2, SeesMoves, Zenon
<1> QED
  BY <1>4, <1>5, <1>6, <1>7, Zenon DEF RequestInv

\* An attempt that succeeds is the only execution of the write.
LEMMA WriteOkKeeps ==
  ASSUME GroupInv, NEW r \in Request, WriteOk(r)
  PROVE  RequestInv(r)'
<1> USE DEF groupHistory
<1>0. /\ LocalOK /\ WorldOK /\ Placement(r) /\ Isolated(r) /\ SeesOwn(r)
  BY Zenon DEF GroupInv, RequestInv
<1>1. /\ fate' = fate /\ call' = call /\ step' = step /\ pinned' = pinned
      /\ pc[r] = "attempt" /\ pc'[r] = "mark" /\ Kind(r) = "write"
  BY <1>0, Zenon DEF WriteOk, bufferVars, historyVars, LocalOK
<1>2. PICK i \in Current(r) :
            /\ Executes(r, Candidates(r)[i])
            /\ took'[r] = Candidates(r)[i]
  BY <1>0, Zenon DEF WriteOk, WorldOK
<1> DEFINE s == Candidates(r)[i]
<1>3. s \in Source /\ (Shadowed(r) /\ OnlyWrites(r) => s = Shadow)
  BY <1>1, AttemptTarget, Zenon
<1> HIDE DEF s
<1>4. /\ \A t \in Source \ {s} : r \in data'[t] => r \in data[t]
      /\ r \in data'[s]
      /\ runs'[r] \in {runs[r], runs[r] + 1}
  BY <1>0, <1>2, <1>3, ExecutesEffect, Zenon DEF s
<1>5. Placement(r)'
  BY <1>0, <1>1, PlacementMoves, Zenon
<1>6. OnceSoFar(r)'
  <2>1. WriteAttempts(r) = 1 => Fresh(r)
    BY <1>1, BeforeWrite, Zenon
  <2> QED
    BY <1>0, <1>1, <1>4, <2>1, OnceAfter, Zenon DEF After
<1>7. Isolated(r)'
  BY <1>0, <1>1, <1>3, <1>4, IsolatedMoves, Zenon
<1>8. SeesOwn(r)'
  BY <1>1, <1>2, <1>4, Zenon DEF SeesOwn, Writer, s
<1> QED
  BY <1>5, <1>6, <1>7, <1>8, Zenon DEF RequestInv

\* A retry is configured.
LEMMA WriteRetryKeeps ==
  ASSUME GroupInv, NEW r \in Request, WriteRetry(r)
  PROVE  RequestInv(r)'
<1> USE DEF groupHistory
<1>0. /\ LocalOK /\ WorldOK /\ Placement(r) /\ Isolated(r) /\ SeesOwn(r)
  BY Zenon DEF GroupInv, RequestInv
<1>1. /\ fate' = fate /\ call' = call /\ step' = step /\ pinned' = pinned /\ took' = took
      /\ pc[r] = "attempt" /\ pc' = pc /\ listed' = listed /\ Kind(r) = "write"
      /\ attempt[r] < WriteAttempts(r) /\ attempt[r] \in Nat \ {0}
  BY <1>0, Zenon DEF WriteRetry, bufferVars, historyVars, LocalOK
<1>2. PICK i \in Current(r) : Executes(r, Candidates(r)[i]) \/ NotExecuted
  BY ZenonT(30) DEF WriteRetry, FailsWith
<1> DEFINE s == Candidates(r)[i]
<1>3. s \in Source /\ (Shadowed(r) /\ OnlyWrites(r) => s = Shadow) /\ Primary \in Source
  BY <1>1, AttemptTarget, Zenon DEF Source
<1> HIDE DEF s
<1>4. /\ \A t \in Source : r \in data[t] => r \in data'[t]
      /\ \A t \in Source \ {s} : r \in data'[t] => r \in data[t]
  BY <1>0, <1>2, <1>3, ExecutesEffect, ZenonT(30) DEF s
<1>5. Placement(r)'
  BY <1>0, <1>1, PlacementMoves, Zenon DEF Placement
<1>6. OnceSoFar(r)'
  <2>1. WriteAttempts(r)' = WriteAttempts(r)
    BY <1>1, Zenon DEF WriteAttempts
  <2> DEFINE w == WriteAttempts(r)
             k == attempt[r]
  <2>2. k < w /\ k \in Nat \ {0}
    BY <1>1, Zenon
  <2> HIDE DEF w, k
  <2>3. w # 1
    BY <2>2
  <2> QED
    BY <2>1, <2>3, Zenon DEF OnceSoFar, w
<1>7. Isolated(r)'
  BY <1>0, <1>1, <1>3, <1>4, IsolatedMoves, ZenonT(30) DEF Isolated
<1>8. SeesOwn(r)'
  BY <1>0, <1>1, <1>3, <1>4, SeesMoves, Zenon
<1> QED
  BY <1>5, <1>6, <1>7, <1>8, Zenon DEF RequestInv

\* A failure after which another target or the buffer is tried has executed
\* nothing; any other ends the statement.
LEMMA WriteFailsKeeps ==
  ASSUME GroupInv, NEW r \in Request, WriteFails(r)
  PROVE  RequestInv(r)'
<1> USE DEF groupHistory
<1>0. /\ LocalOK /\ WorldOK /\ Placement(r) /\ OnceSoFar(r) /\ Isolated(r) /\ SeesOwn(r)
  BY Zenon DEF GroupInv, RequestInv
<1>1. /\ fate' = fate /\ call' = call /\ step' = step /\ pinned' = pinned /\ took' = took
      /\ pc[r] = "attempt" /\ Kind(r) = "write"
  BY <1>0, Zenon DEF WriteFails, bufferVars, historyVars, LocalOK
<1>2. PICK i \in Current(r) :
            /\ Executes(r, Candidates(r)[i]) \/ NotExecuted
            /\ \/ /\ NotExecuted /\ ~Shadowed(r)
                  /\ listed'[r] = listed[r] \ {i}
                  /\ pc'[r] \in {"buffer", "attempt"}
               \/ pc'[r] = "done"
  <2>1. PICK i \in Current(r), st \in Status \ {"Ok"} :
            /\ FailsWith(r, Candidates(r)[i], st)
            /\ IF FailsOver(r, st)
               THEN /\ listed' = [listed EXCEPT ![r] = listed[r] \ {i}]
                    /\ pc' = [pc EXCEPT ![r] = IF listed[r] \ {i} = {} THEN "buffer" ELSE "attempt"]
               ELSE pc' = [pc EXCEPT ![r] = "done"]
    BY Zenon DEF WriteFails
  <2>2. CASE FailsOver(r, st)
    <3>1. NotExecuted /\ ~Shadowed(r)
      BY <2>1, <2>2, Zenon DEF FailsWith, FailsOver, SafeToFailoverWrite
    <3>2. listed'[r] = listed[r] \ {i} /\ pc'[r] \in {"buffer", "attempt"}
      BY <1>0, <2>1, <2>2, Zenon DEF LocalOK
    <3> QED
      BY <3>1, <3>2, Zenon
  <2>3. CASE ~FailsOver(r, st)
    <3>1. pc'[r] = "done"
      BY <1>0, <2>1, <2>3, Zenon DEF LocalOK
    <3> QED
      BY <2>1, <3>1, Zenon DEF FailsWith
  <2> QED
    BY <2>2, <2>3, Zenon
<1> DEFINE s == Candidates(r)[i]
<1>3. s \in Source /\ (Shadowed(r) /\ OnlyWrites(r) => s = Shadow) /\ Primary \in Source
  BY <1>1, AttemptTarget, Zenon DEF Source
<1> HIDE DEF s
<1>4. /\ \A t \in Source : r \in data[t] => r \in data'[t]
      /\ \A t \in Source \ {s} : r \in data'[t] => r \in data[t]
      /\ runs'[r] \in {runs[r], runs[r] + 1}
      /\ NotExecuted => runs'[r] = runs[r]
  BY <1>0, <1>2, <1>3, ExecutesEffect, Zenon DEF s, NotExecuted
<1>k. Kind(r)' = Kind(r)
  BY <1>1, StatementSame, Zenon
<1>5. Placement(r)'
  BY <1>0, <1>1, <1>2, PlacementMoves, ZenonT(30) DEF Placement
<1>6. OnceSoFar(r)'
  <2>1. WriteAttempts(r) = 1 => Fresh(r)
    BY <1>1, BeforeWrite, Zenon
  <2>2. CASE NotExecuted
    BY <1>0, <1>1, <1>4, <2>2, OnceMoves, Zenon DEF After
  <2>3. CASE pc'[r] = "done"
    BY <1>0, <1>1, <1>4, <2>1, <2>3, OnceAfter, Zenon DEF After
  <2> QED
    BY <1>2, <2>2, <2>3, Zenon
<1>7. Isolated(r)'
  BY <1>0, <1>1, <1>2, <1>3, <1>4, IsolatedMoves, Zenon
<1>8. SeesOwn(r)'
  BY <1>0, <1>1, <1>2, <1>3, <1>4, <1>k, SeesMoves, Zenon
<1> QED
  BY <1>5, <1>6, <1>7, <1>8, Zenon DEF RequestInv

\* A write that is buffered has not been executed.
LEMMA BufferKeeps ==
  ASSUME GroupInv, NEW r \in Request, Buffer(r)
  PROVE  RequestInv(r)'
<1> USE DEF groupHistory
<1>0. /\ LocalOK /\ WorldOK /\ Placement(r) /\ Isolated(r) /\ SeesOwn(r)
  BY Zenon DEF GroupInv, RequestInv
<1>1. /\ UNCHANGED <<data, runs, took>> /\ call' = call /\ step' = step /\ pinned' = pinned
      /\ pc[r] = "buffer" /\ pc'[r] = "done" /\ Kind(r) # "read"
  BY <1>0, Zenon DEF Buffer, Return, LocalOK, Placement
<1>k. Kind(r)' = Kind(r)
  BY <1>1, StatementSame, ZenonT(30)
<1>2. Placement(r)'
  BY <1>0, <1>1, PlacementMoves, ZenonT(30)
<1>3. OnceSoFar(r)'
  <2>1. WriteAttempts(r) = 1 => Fresh(r)
    BY <1>1, BeforeWrite, Zenon
  <2> QED
    BY <1>0, <1>1, <2>1, OnceAfter, ZenonT(30) DEF After
<1>4. Isolated(r)'
  <2>1. ~(Shadowed(r) /\ OnlyWrites(r))
    BY <1>0, <1>1, Zenon DEF Isolated
  <2> QED
    BY <1>0, <1>1, <2>1, IsolatedMoves, Zenon
<1>5. SeesOwn(r)'
  BY <1>0, <1>1, <1>k, SeesMoves, Zenon
<1> QED
  BY <1>2, <1>3, <1>4, <1>5, Zenon DEF RequestInv

\* A session or transaction runs once, on the primary.
LEMMA SessionKeeps ==
  ASSUME GroupInv, NEW r \in Request, SessionWrote(r) \/ SessionRead(r)
  PROVE  RequestInv(r)'
<1> USE DEF groupHistory
<1>0. /\ LocalOK /\ WorldOK /\ Placement(r) /\ Isolated(r) /\ SeesOwn(r)
  BY Zenon DEF GroupInv, RequestInv
<1>1. /\ fate' = fate /\ call' = call /\ step' = step /\ pinned' = pinned
      /\ pc[r] = "attempt" /\ Kind(r) \in {"session", "transaction"}
  BY Zenon DEF SessionWrote, SessionRead, bufferVars, historyVars
<1>2. /\ Executes(r, Primary) \/ NotExecuted
      /\ \/ took' = took
         \/ took'[r] = Primary /\ Executes(r, Primary) /\ pc'[r] = "mark"
      /\ pc'[r] \in {"mark", "window", "done"}
  <2>1. CASE SessionRead(r)
    BY <1>0, <2>1, Zenon DEF SessionRead, LocalOK
  <2>2. CASE SessionWrote(r)
    <3>1. PICK st \in {"Ok", "Failed", "Lost"} :
            /\ Executes(r, Primary) \/ (st # "Ok" /\ NotExecuted)
            /\ took' = IF st = "Ok" THEN [took EXCEPT ![r] = Primary] ELSE took
      BY <2>2, Zenon DEF SessionWrote
    <3>2. pc'[r] = "mark"
      BY <1>0, <2>2, Zenon DEF SessionWrote, LocalOK
    <3>3. CASE st = "Ok"
      BY <1>0, <3>1, <3>2, <3>3, Zenon DEF WorldOK
    <3>4. CASE st # "Ok"
      BY <3>1, <3>2, <3>4, Zenon
    <3> QED
      BY <3>3, <3>4, Zenon
  <2> QED
    BY <2>1, <2>2, Zenon
<1>3. /\ r \in data[Primary] => r \in data'[Primary]
      /\ Executes(r, Primary) => r \in data'[Primary]
      /\ runs'[r] \in {runs[r], runs[r] + 1}
  <2>1. Primary \in Source
    BY Zenon DEF Source
  <2> QED
    BY <1>0, <1>2, <2>1, ExecutesEffect, Zenon
<1>k. Kind(r)' = Kind(r)
  BY <1>1, StatementSame, Zenon
<1>4. Placement(r)'
  BY <1>0, <1>1, <1>2, PlacementMoves, ZenonT(30)
<1>5. OnceSoFar(r)'
  <2>1. WriteAttempts(r) = 1 => Fresh(r)
    BY <1>1, BeforeWrite, Zenon
  <2> QED
    BY <1>0, <1>1, <1>2, <1>3, <2>1, OnceAfter, Zenon DEF After
<1>6. Isolated(r)'
  <2>1. ~OnlyWrites(r)
    BY <1>0, <1>1, Zenon DEF OnlyWrites, Placement, Kind
  <2> QED
    BY <1>0, <1>1, <2>1, IsolatedMoves, Zenon
<1>7. SeesOwn(r)'
  <2>1. CASE took' = took
    BY <1>0, <1>1, <1>2, <1>3, <1>k, <2>1, SeesMoves, ZenonT(30)
  <2>2. CASE pc'[r] = "mark" /\ r \in data'[Primary]
    BY <2>2, Zenon DEF SeesOwn
  <2> QED
    BY <1>2, <1>3, <2>1, <2>2, Zenon
<1> QED
  BY <1>4, <1>5, <1>6, <1>7, Zenon DEF RequestInv

\* The next statement begins; the write of the last one, if any, is past.
LEMMA ContinueKeeps ==
  ASSUME GroupInv, NEW r \in Request, Continue(r)
  PROVE  RequestInv(r)'
<1> USE DEF groupHistory
<1>0. /\ LocalOK /\ WorldOK /\ Placement(r) /\ OnceSoFar(r) /\ Isolated(r) /\ SeesOwn(r)
      /\ call \in [Request -> Call]
  BY GroupAssumption, Zenon DEF GroupInv, RequestInv, LocalOK
<1>1. /\ UNCHANGED <<data, fate, runs, took>> /\ call' = call /\ pinned' = pinned
      /\ pc[r] = "done"
      /\ \/ pc'[r] = "ready" /\ step'[r] = step[r] + 1 /\ step[r] < Len(Script(r))
         \/ pc'[r] = "end" /\ step'[r] = step[r]
  BY <1>0, Zenon DEF Continue, bufferVars, historyVars, LocalOK
<1>2. /\ Script(r)' = Script(r) /\ WriteAttempts(r)' = WriteAttempts(r)
      /\ step[r] \in DOMAIN Script(r) /\ step[r] \in Nat \ {0}
      /\ DOMAIN Script(r) = 1 .. Len(Script(r)) /\ Len(Script(r)) \in Nat
  <2>1. Script(r) \in Seq(Statement)
    BY <1>0, Zenon DEF Call, Script
  <2>2. Script(r)' = Script(r) /\ WriteAttempts(r)' = WriteAttempts(r)
    BY <1>1, Zenon DEF Script, WriteAttempts
  <2>3. step[r] \in DOMAIN Script(r) /\ step[r] \in Nat \ {0}
    BY <1>0, Zenon DEF Placement, LocalOK
  <2>4. DOMAIN Script(r) = 1 .. Len(Script(r)) /\ Len(Script(r)) \in Nat
    <3> DEFINE s == Script(r)
    <3>1. s \in Seq(Statement)
      BY <2>1, Zenon
    <3> HIDE DEF s
    <3>2. DOMAIN s = 1 .. Len(s) /\ Len(s) \in Nat
      BY <3>1
    <3> QED
      BY <3>2, Zenon DEF s
  <2> QED
    BY <2>2, <2>3, <2>4, Zenon
<1>3. Placement(r)'
  <2>1. step'[r] \in DOMAIN Script(r)
    <3>1. CASE step'[r] = step[r]
      BY <3>1, <1>2, Zenon
    <3>2. CASE step'[r] = step[r] + 1 /\ step[r] < Len(Script(r))
      <4> DEFINE n == Len(Script(r))
                 k == step[r]
      <4>1. n \in Nat /\ k \in Nat \ {0} /\ k < n
        BY <3>2, <1>2, Zenon
      <4> HIDE DEF n, k
      <4>2. k + 1 \in 1 .. n
        BY <4>1
      <4> QED
        BY <4>2, <3>2, <1>2, Zenon DEF n, k
    <3> QED
      BY <3>1, <3>2, <1>1, Zenon
  <2> QED
    BY <1>1, <1>2, <2>1, Zenon DEF Placement
<1>4. OnceSoFar(r)'
  <2>1. PastWrite(r) => PastWrite(r)'
    <3> SUFFICES ASSUME NEW i \in DOMAIN Script(r), Script(r)[i] # "read",
                        i < step[r] \/ i = step[r]
                 PROVE  PastWrite(r)'
      BY Zenon DEF PastWrite
    <3>a. i \in Nat /\ step[r] \in Nat
      <4> DEFINE n == Len(Script(r))
      <4>1. i \in 1 .. n /\ n \in Nat
        BY <1>2, Zenon
      <4> HIDE DEF n
      <4> QED
        BY <4>1, <1>2
    <3>b. step'[r] = step[r] + 1 => i < step'[r]
      <4> HAVE step'[r] = step[r] + 1
      <4> DEFINE k == step[r]
                 l == step'[r]
      <4>1. i \in Nat /\ k \in Nat /\ (i < k \/ i = k) /\ l = k + 1
        BY <3>a, Zenon
      <4> HIDE DEF k, l
      <4>2. i < l
        BY <4>1
      <4> QED
        BY <4>2, Zenon DEF l
    <3>1. i \in Nat /\ (i < step'[r] \/ (i = step'[r] /\ pc'[r] = "end"))
      BY <1>1, <3>a, <3>b, Zenon
    <3> QED
      BY <1>2, <3>1, Zenon DEF PastWrite, After
  <2>2. Fresh(r)' = Fresh(r)
    BY <1>1, Zenon DEF Fresh
  <2> QED
    BY <1>0, <1>1, <1>2, <2>1, <2>2, Zenon DEF OnceSoFar
<1>5. Isolated(r)'
  BY <1>0, <1>1, IsolatedMoves, ZenonT(30)
<1>6. SeesOwn(r)'
  BY <1>0, <1>1, SeesMoves, Zenon
<1> QED
  BY <1>3, <1>4, <1>5, <1>6, Zenon DEF RequestInv

----------------------------------------------------------------------------
(* The invariant and what follows from it.                                  *)

\* It holds before the first statement.
LEMMA GroupInitial == Init => GroupInv
<1> SUFFICES ASSUME Init PROVE GroupInv
  BY Zenon
<1> USE DEF Init
<1>1. BufferInv
  BY BufferInitial, Zenon
<1>2. LocalOK
  <2>1. Primary \in Source /\ <<>> \in Seq(Source)
    BY DEF Source
  <2> QED
    BY <2>1 DEF LocalOK
<1>3. WorldOK
  BY Zenon DEF WorldOK
<1>4. ASSUME NEW q \in Request PROVE RequestInv(q)
  <2>1. fate[q] = "none" /\ runs[q] = 0 /\ took[q] = none /\ pc[q] = "ready" /\ step[q] = 1
    BY GroupAssumption, Zenon DEF BufferInit
  <2>2. step[q] \in DOMAIN Script(q)
    <3>1. Script(q) \in Seq(Statement) \ {<<>>}
      BY GroupAssumption, Zenon DEF Script, Call
    <3> QED
      BY <2>1, <3>1
  <2>3. Placement(q)
    BY <2>1, <2>2, Zenon DEF Placement
  <2>4. OnceSoFar(q)
    BY <2>1 DEF OnceSoFar, Fresh
  <2>5. Isolated(q)
    BY <2>1, Zenon DEF Isolated
  <2>6. SeesOwn(q)
    BY <2>1, GroupAssumption, Zenon DEF SeesOwn, Writer, Source
  <2> QED
    BY <2>3, <2>4, <2>5, <2>6, Zenon DEF RequestInv
<1> QED
  BY <1>1, <1>2, <1>3, <1>4, Zenon DEF GroupInv

\* Every step keeps it.
LEMMA GroupStep == GroupInv /\ [Next]_vars => GroupInv'
<1> SUFFICES ASSUME GroupInv, [Next]_vars PROVE GroupInv'
  BY Zenon
<1>1. BufferInv'
  BY BufferPart, BufferStep, Zenon DEF GroupInv
<1>2. ASSUME NEW r \in Request, Serve(r) PROVE GroupInv'
  <2>1. LocalOK' /\ WorldOK'
    BY <1>2, ServeTyped, Zenon DEF GroupInv, RequestInv
  <2>2. RequestInv(r)'
    BY <1>2, ContinueKeeps, RouteWriteKeeps, WriteOkKeeps, WriteRetryKeeps, WriteFailsKeeps,
         BufferKeeps, SessionKeeps, QuietSteps, ReadSteps, Zenon DEF Serve
  <2>3. ASSUME NEW q \in Request, q # r PROVE RequestInv(q)'
    BY <1>2, <2>3, OthersSame, SameKeeps, Zenon DEF GroupInv
  <2> QED
    BY <1>1, <2>1, <2>2, <2>3, Zenon DEF GroupInv
<1>3. CASE FlushThread \/ Manager \/ Replicate \/ WindowEnds \/ Evict \/ UNCHANGED vars
  <2>1. LocalOK' /\ WorldOK'
    BY <1>3, WorldTyped, Zenon DEF GroupInv
  <2>2. ASSUME NEW q \in Request PROVE RequestInv(q)'
    BY <1>3, WorldSame, SameKeeps, Zenon DEF GroupInv
  <2> QED
    BY <1>1, <2>1, <2>2, Zenon DEF GroupInv
<1> QED
  BY <1>2, <1>3, Zenon DEF Next

\* GroupInv is an invariant of the group.
LEMMA GroupInvariant == Spec => []GroupInv
  BY GroupInitial, GroupStep, PTL DEF Spec

\* The state of a group keeps its types, and its buffer its bound.
THEOREM GroupTypes == Spec => []GroupTypeOK
  BY GroupInvariant, GroupTyped, PTL

\* Over any list of failover candidates, a write that is not retried is
\* executed at most once, and a write that is buffered has not been executed.
THEOREM NoDoubleWrite == Spec => []WrittenOnce
<1>1. GroupInv => WrittenOnce
  BY Zenon DEF GroupInv, RequestInv, OnceSoFar, WrittenOnce
<1> QED
  BY <1>1, GroupInvariant, PTL

\* Writes in a shadow context never reach a source other than the shadow
\* source, nor the buffer, whatever fails.
THEOREM ShadowIsolation == Spec => []ShadowWritesIsolated
<1>1. GroupInv => ShadowWritesIsolated
  BY Zenon DEF GroupInv, RequestInv, Isolated, ShadowWritesIsolated
<1> QED
  BY <1>1, GroupInvariant, PTL

\* With the primary uncached, a scope reads its own acknowledged write, however
\* far the replicas are behind.
THEOREM OwnWritesSeen == Spec => []ReadYourWrites
<1>1. GroupInv => ReadYourWrites
  BY Zenon DEF GroupInv, RequestInv, SeesOwn, Writer, ReadYourWrites
<1> QED
  BY <1>1, GroupInvariant, PTL

=============================================================================
