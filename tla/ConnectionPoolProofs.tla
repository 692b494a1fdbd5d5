------------------------ MODULE ConnectionPoolProofs ------------------------
(***************************************************************************)
(* Machine-checked proofs about ConnectionPool, for any number of threads, *)
(* requests and connections.                                               *)
(***************************************************************************)
EXTENDS ConnectionPool, FiniteSetTheorems, TLAPS

In(x, S) == IF x \in S THEN 1 ELSE 0

\* There are finitely many borrowers, so places can be counted.
LEMMA CountType ==
    ASSUME NEW p, NEW S
    PROVE  /\ IsFiniteSet(Borrower)
           /\ IsFiniteSet({b \in Borrower : p[b] \in S})
           /\ Count(p, S) \in Nat
<1>1. IsFiniteSet(Borrower)
  BY Zenon, PoolAssumption, FS_Union DEF Borrower
<1>2. IsFiniteSet({b \in Borrower : p[b] \in S})
  <2>1. {b \in Borrower : p[b] \in S} \subseteq Borrower
    BY Zenon
  <2> QED BY <1>1, <2>1, FS_Subset, Zenon
<1>3. Count(p, S) \in Nat
  BY <1>2, FS_CardinalityType, Zenon DEF Count
<1> QED BY <1>1, <1>2, <1>3, Zenon

\* A count is a natural number.
LEMMA CountNat == \A p, S : Count(p, S) \in Nat
BY Zenon, CountType

\* Only where the borrowers are with respect to S matters to the count.
LEMMA CountSame ==
    ASSUME NEW p, NEW q, NEW S, \A b \in Borrower : q[b] \in S <=> p[b] \in S
    PROVE  Count(q, S) = Count(p, S)
<1>1. {b \in Borrower : q[b] \in S} = {b \in Borrower : p[b] \in S}
  BY Zenon
<1> QED BY <1>1, Zenon DEF Count

\* A set of borrowers that come to S from outside adds its size to the count.
LEMMA CountJoin ==
    ASSUME NEW p, NEW q, NEW S, NEW D \in SUBSET Borrower,
           \A b \in D : p[b] \notin S,
           \A b \in Borrower : q[b] \in S <=> (p[b] \in S \/ b \in D)
    PROVE  Count(q, S) = Count(p, S) + Cardinality(D)
<1> DEFINE A == {b \in Borrower : p[b] \in S}
<1>1. IsFiniteSet(A) /\ IsFiniteSet(D)
  BY CountType, FS_Subset, Zenon
<1>2. {b \in Borrower : q[b] \in S} = A \cup D
  BY Zenon
<1>3. A \cap D = {}
  BY Zenon
<1>4. Cardinality(A \cup D) = Cardinality(A) + Cardinality(D) - Cardinality(A \cap D)
  BY <1>1, FS_Union, Zenon
<1>5. Cardinality(A \cap D) = 0
  BY <1>3, FS_EmptySet, Zenon
<1>6. Cardinality(A) \in Nat /\ Cardinality(D) \in Nat
  BY <1>1, FS_CardinalityType, Zenon
<1>7. Cardinality(A \cup D) = Cardinality(A) + Cardinality(D)
  BY <1>4, <1>5, <1>6
<1> QED BY <1>2, <1>7, Zenon DEF Count

\* One borrower moves: the count changes by where it comes from and where it goes.
LEMMA CountMove ==
    ASSUME NEW p, NEW q, NEW b \in Borrower, NEW S,
           \A c \in Borrower : c # b => q[c] = p[c]
    PROVE  Count(q, S) = Count(p, S) + In(q[b], S) - In(p[b], S)
<1> DEFINE A == {c \in Borrower : p[c] \in S}
<1> DEFINE B == {c \in Borrower : q[c] \in S}
<1>1. IsFiniteSet(A) /\ IsFiniteSet(B) /\ Cardinality(A) \in Nat /\ Cardinality(B) \in Nat
  BY Zenon, CountType, FS_CardinalityType
<1>2. CASE (q[b] \in S) <=> (p[b] \in S)
  <2>1. A = B
    BY <1>2, Zenon
  <2>2. Count(q, S) = Count(p, S) /\ Count(p, S) \in Nat
    BY <1>1, <2>1, Zenon DEF Count
  <2>3. In(q[b], S) = In(p[b], S) /\ In(p[b], S) \in Int
    BY <1>2 DEF In
  <2> QED BY <2>2, <2>3
<1>3. CASE q[b] \in S /\ p[b] \notin S
  <2>1. B = A \cup {b} /\ b \notin A
    BY <1>3, Zenon
  <2>2. Cardinality(B) = Cardinality(A) + 1
    BY <1>1, <2>1, FS_AddElement, Zenon
  <2> QED BY <1>1, <1>3, <2>2 DEF Count, In
<1>4. CASE q[b] \notin S /\ p[b] \in S
  <2>1. A = B \cup {b} /\ b \notin B
    BY <1>4, Zenon
  <2>2. Cardinality(A) = Cardinality(B) + 1
    BY <1>1, <2>1, FS_AddElement, Zenon
  <2> QED BY <1>1, <1>4, <2>2 DEF Count, In
<1> QED BY <1>2, <1>3, <1>4, Zenon

\* Whoever is at S is counted.
LEMMA CountSome ==
    ASSUME NEW p, NEW S, NEW b \in Borrower, p[b] \in S
    PROVE  Count(p, S) >= 1
<1> DEFINE A == {c \in Borrower : p[c] \in S}
<1>1. IsFiniteSet(A) /\ Cardinality(A) \in Nat
  BY Zenon, CountType, FS_CardinalityType
<1>2. A # {}
  BY Zenon
<1>3. Cardinality(A) # 0
  BY <1>1, <1>2, FS_EmptySet, Zenon
<1> QED BY <1>1, <1>3 DEF Count

-----------------------------------------------------------------------------
(* The inductive invariant.                                                *)

\* What the counting argument needs besides the properties themselves: slots are
\* reserved for the refill only while it runs, a connection taken by the heartbeat is
\* one of its snapshot, and a pooled data source opens no unpooled connection.
Bookkeeping ==
    /\ hb # "refill" => hbNeed = 0
    /\ hb \in {"check", "retire"} => hbLeft > 0
    /\ pooled => \A b \in Borrower : pc[b] \notin {"unpooled", "postUnpooled", "unpooledTask"}

Accounting == BorrowedExact /\ NoConnectionLeak /\ SlotAccounting /\ Bookkeeping

IInv == TypeOK /\ Accounting

\* What a place is worth in each count.
LEMMA Worth ==
    /\ \A x \in Holding  : In(x, Holding) = 1 /\ In(x, Slotted) = 1 /\ In(x, Connected) = 1
    /\ \A x \in Reserved : In(x, Holding) = 0 /\ In(x, Slotted) = 1 /\ In(x, Connected) = 0
    /\ \A x \in Checking : In(x, Holding) = 0 /\ In(x, Slotted) = 1 /\ In(x, Connected) = 1
    /\ \A x \in Closing  : In(x, Holding) = 0 /\ In(x, Slotted) = 0 /\ In(x, Connected) = 1
    /\ \A x \in Waiting \cup Free :
          In(x, Holding) = 0 /\ In(x, Slotted) = 0 /\ In(x, Connected) = 0
BY Zenon DEF In, Slotted, Connected, Holding, Reserved, Checking, Closing, Waiting, Free

\* The counts are natural numbers.
LEMMA Counts ==
    /\ Count(pc, Holding) \in Nat /\ Count(pc, Slotted) \in Nat /\ Count(pc, Connected) \in Nat
    /\ Count(pc', Holding) \in Nat /\ Count(pc', Slotted) \in Nat /\ Count(pc', Connected) \in Nat
BY Zenon, CountType

\* One borrower moves between places outside the deque.
LEMMA MoveFacts ==
    ASSUME IInv, NEW b \in Borrower, NEW x \in Place, Goto(b, x),
           pc[b] # "parked", x # "parked", UNCHANGED ahead
    PROVE  /\ pc' \in [Borrower -> Place]
           /\ DequeOrder'
           /\ \A c \in Borrower : pc'[c] = IF c = b THEN x ELSE pc[c]
           /\ Count(pc', Holding) = Count(pc, Holding) + In(x, Holding) - In(pc[b], Holding)
           /\ Count(pc', Slotted) = Count(pc, Slotted) + In(x, Slotted) - In(pc[b], Slotted)
           /\ Count(pc', Connected) = Count(pc, Connected) + In(x, Connected) - In(pc[b], Connected)
<1>1. pc \in [Borrower -> Place] /\ DequeOrder
  BY Zenon DEF IInv, TypeOK
<1>2. pc' = [pc EXCEPT ![b] = x]
  BY Zenon DEF Goto
<1>3. pc' \in [Borrower -> Place] /\ \A c \in Borrower : pc'[c] = IF c = b THEN x ELSE pc[c]
  BY <1>1, <1>2, Zenon
<1>4. Parked' = Parked
  BY <1>3, Zenon DEF Parked, Borrower
<1>5. DequeOrder'
  BY <1>1, <1>4, Zenon DEF DequeOrder
<1>6. \A S : Count(pc', S) = Count(pc, S) + In(x, S) - In(pc[b], S)
  BY <1>3, CountMove
<1> QED BY <1>3, <1>5, <1>6, Zenon

\* The types of the variables that no count depends on.
OtherTypes ==
    /\ pooled \in BOOLEAN /\ halted \in BOOLEAN
    /\ shut \in {"open", "drain", "grace", "done"}
    /\ arming \subseteq Request /\ timers \subseteq Request /\ sweep \in BOOLEAN
    /\ asleep \subseteq Thread \cup {Closer}
    /\ due \subseteq Borrower /\ stopped \subseteq Cancellable

\* b moves to x, and the books change by what the two places are worth.
Sound(b, x) ==
    /\ Goto(b, x) /\ x \in Place /\ pc[b] # "parked" /\ x # "parked"
    /\ pooled => x \notin {"unpooled", "postUnpooled", "unpooledTask"}
    /\ UNCHANGED <<ahead, heart, closed, pooled>>
    /\ idle' \in Nat /\ total' \in Int /\ OtherTypes'
    /\ borrowed' = borrowed + In(x, Holding) - In(pc[b], Holding)
    /\ live' - idle' = live - idle + In(x, Connected) - In(pc[b], Connected)
    /\ live' \in Int
    /\ ~closed => /\ total' - idle' = total - idle + In(x, Slotted) - In(pc[b], Slotted)
                  /\ pooled => total' <= MaxConn

\* A sound move of one borrower preserves the invariant.
LEMMA SoundMove ==
    ASSUME IInv, NEW b \in Borrower, NEW x, Sound(b, x)
    PROVE  IInv'
<1>1. /\ pc' \in [Borrower -> Place]
      /\ DequeOrder'
      /\ \A c \in Borrower : pc'[c] = IF c = b THEN x ELSE pc[c]
      /\ Count(pc', Holding) = Count(pc, Holding) + In(x, Holding) - In(pc[b], Holding)
      /\ Count(pc', Slotted) = Count(pc, Slotted) + In(x, Slotted) - In(pc[b], Slotted)
      /\ Count(pc', Connected) = Count(pc, Connected) + In(x, Connected) - In(pc[b], Connected)
  BY MoveFacts, Zenon DEF Sound
<1>2. /\ In(x, Holding) \in Int /\ In(x, Slotted) \in Int /\ In(x, Connected) \in Int
      /\ In(pc[b], Holding) \in Int /\ In(pc[b], Slotted) \in Int /\ In(pc[b], Connected) \in Int
  BY DEF In
<1>3. Accounting'
  BY <1>1, <1>2, Counts DEF IInv, TypeOK, Accounting, SlotAccounting, BorrowedExact,
     NoConnectionLeak, Bookkeeping, InHeartbeat, Sound, heart
<1>4. borrowed' \in Nat /\ live' \in Nat
  BY <1>3, Counts DEF Accounting, BorrowedExact, NoConnectionLeak, InHeartbeat, Sound
<1>5. TypeOK'
  BY <1>1, <1>4, Zenon DEF IInv, TypeOK, Sound, OtherTypes, heart
<1> QED BY <1>3, <1>5, Zenon DEF IInv

\* A move between places that own nothing, with the books as they were.
LEMMA IdleMove ==
    ASSUME IInv, NEW b \in Borrower, NEW x \in Waiting \cup Free, Goto(b, x),
           pc[b] \in Waiting \cup Free, pc[b] # "parked",
           x \notin {"parked", "unpooled", "postUnpooled", "unpooledTask"},
           UNCHANGED <<book, ahead, heart, closed, pooled>>, OtherTypes'
    PROVE  IInv'
<1>1. /\ In(x, Holding) = 0 /\ In(x, Slotted) = 0 /\ In(x, Connected) = 0
      /\ In(pc[b], Holding) = 0 /\ In(pc[b], Slotted) = 0 /\ In(pc[b], Connected) = 0
  BY Worth, Zenon
<1>2. x \in Place
  BY Zenon DEF Place
<1>3. /\ total \in Int /\ borrowed \in Nat /\ idle \in Nat /\ live \in Nat
      /\ total' = total /\ borrowed' = borrowed /\ idle' = idle /\ live' = live
      /\ ~closed /\ pooled => total <= MaxConn
  BY Zenon DEF IInv, TypeOK, book, Accounting, SlotAccounting
<1>4. Sound(b, x)
  BY <1>1, <1>2, <1>3 DEF Sound
<1> QED BY <1>4, SoundMove, Zenon

\* The books are positive for whoever owns something.
LEMMA OwnsOne ==
    ASSUME IInv, NEW b \in Borrower
    PROVE  /\ pc[b] \in Holding => borrowed >= 1
           /\ pc[b] \in Slotted /\ ~closed => total >= 1
<1>1. pc[b] \in Holding => Count(pc, Holding) >= 1
  BY CountSome, Zenon
<1>2. pc[b] \in Slotted => Count(pc, Slotted) >= 1
  BY CountSome, Zenon
<1> QED BY <1>1, <1>2, Counts DEF IInv, TypeOK, Accounting, BorrowedExact, SlotAccounting, InHeartbeat

\* Every step of borrow() preserves the invariant.
LEMMA BorrowStepInv ==
    ASSUME IInv, NEW t \in Thread, BorrowStep(t)
    PROVE  IInv'
<1>0. t \in Borrower /\ \A y \in Borrower : pc[y] \in Place
  BY Zenon DEF Borrower, IInv, TypeOK
<1>1. CASE LoopRefused(t)
  <2>1. Sound(t, "out")
    BY <1>0, <1>1, Worth
       DEF IInv, TypeOK, Sound, OtherTypes, LoopRefused, Place, Free, Accounting, SlotAccounting, book, queue, clock, heart, mode
  <2> QED BY <1>0, <2>1, SoundMove, Zenon
<1>2. CASE LoopUnpooled(t)
  <2>1. Sound(t, "unpooled")
    BY <1>0, <1>2, Worth
       DEF IInv, TypeOK, Sound, OtherTypes, LoopUnpooled, Looping, Place, Free, Accounting, SlotAccounting, book, queue, clock, heart, mode
  <2> QED BY <1>0, <2>1, SoundMove, Zenon
<1>3. CASE LoopTakeIdle(t)
  <2>1. Sound(t, "ping")
    BY <1>0, <1>3, Worth
       DEF IInv, TypeOK, Sound, OtherTypes, LoopTakeIdle, Looping, Place, Free, Checking, Accounting, SlotAccounting, book, queue, clock, heart, mode
  <2> QED BY <1>0, <2>1, SoundMove, Zenon
<1>4. CASE LoopReserve(t)
  <2>1. Sound(t, "create")
    BY <1>0, <1>4, Worth, PoolAssumption
       DEF IInv, TypeOK, Sound, OtherTypes, LoopReserve, Looping, Place, Free, Reserved, Accounting, SlotAccounting, book, queue, clock, heart, mode
  <2> QED BY <1>0, <2>1, SoundMove, Zenon
<1>5. CASE LoopFull(t)
  <2>1. Sound(t, "out") \/ Sound(t, "wait")
    BY <1>0, <1>5, Worth
       DEF IInv, TypeOK, Sound, OtherTypes, LoopFull, Looping, Place, Free, Waiting, Accounting, SlotAccounting, book, queue, clock, heart, mode
  <2> QED BY <1>0, <2>1, SoundMove, Zenon
<1>6. CASE Resume(t)
  <2>1. Sound(t, "out") \/ Sound(t, "loop")
    BY <1>0, <1>6, Worth
       DEF IInv, TypeOK, Sound, OtherTypes, Resume, Place, Free, Waiting, Accounting, SlotAccounting, book, queue, clock, heart, mode
  <2> QED BY <1>0, <2>1, SoundMove, Zenon
<1>7. CASE PingAlive(t)
  <2>1. Sound(t, "out") \/ Sound(t, "held")
    BY <1>0, <1>7, Worth
       DEF IInv, TypeOK, Sound, OtherTypes, PingAlive, Place, Free, Checking, Holding, Accounting, SlotAccounting, book, queue, clock, heart, mode
  <2> QED BY <1>0, <2>1, SoundMove, Zenon
<1>8. CASE PingDead(t)
  <2>1. pc[t] = "ping" /\ (~closed => total >= 1)
    BY <1>0, <1>8, OwnsOne, Zenon DEF PingDead, Slotted, Checking
  <2>2. Sound(t, "loop")
    BY <1>0, <1>8, <2>1, Worth, PoolAssumption DEF IInv, TypeOK, Sound, OtherTypes, PingDead,
         Place, Free, Checking, NotifyOne, DecClamp, Accounting, SlotAccounting, book, queue,
         clock, heart, mode
  <2> QED BY <1>0, <2>2, SoundMove, Zenon
<1>9. CASE ConnectOk(t)
  <2>1. Sound(t, "out") \/ Sound(t, "held")
    BY <1>0, <1>9, Worth
       DEF IInv, TypeOK, Sound, OtherTypes, ConnectOk, Place, Free, Reserved, Holding, Accounting, SlotAccounting, book, queue, clock, heart, mode
  <2> QED BY <1>0, <2>1, SoundMove, Zenon
<1>10. CASE ConnectFail(t)
  <2>1. pc[t] = "create" /\ (~closed => total >= 1)
    BY <1>0, <1>10, OwnsOne, Zenon DEF ConnectFail, Slotted, Reserved
  <2>2. Sound(t, "out")
    BY <1>0, <1>10, <2>1, Worth, PoolAssumption DEF IInv, TypeOK, Sound, OtherTypes,
         ConnectFail, Place, Free, Reserved, NotifyOne, DecClamp, Accounting, SlotAccounting,
         book, queue, clock, heart, mode
  <2> QED BY <1>0, <2>2, SoundMove, Zenon
<1>11. CASE UnpooledConnect(t, "unpooled", "held", "out")
  <2>1. Sound(t, "out") \/ Sound(t, "held")
    BY <1>0, <1>11, Worth
       DEF IInv, TypeOK, Sound, OtherTypes, UnpooledConnect, Place, Free, Holding, Bookkeeping, Accounting, SlotAccounting, book, queue, clock, heart, mode
  <2> QED BY <1>0, <2>1, SoundMove, Zenon
<1> QED
  BY <1>1, <1>2, <1>3, <1>4, <1>5, <1>6, <1>7, <1>8, <1>9, <1>10, <1>11, Zenon DEF BorrowStep

\* The steps of borrowAsync() and its tasks that leave the deque alone.
AsyncMove(r) ==
    \/ LockClosed(r) \/ LockUnpooled(r) \/ LockOld(r) \/ LockReady(r) \/ LockStale(r)
    \/ LockReserve(r)
    \/ Discard(r)
    \/ PostPing(r) \/ Validate(r) \/ DropDead(r)
    \/ PostCreate(r) \/ CreateTask(r)
    \/ PostUnpooled(r) \/ UnpooledConnect(r, "unpooledTask", "granted", "refused")
    \/ Complete(r)

\* Every step of borrowAsync() that leaves the deque alone preserves it.
LEMMA AsyncStepInv ==
    ASSUME IInv, NEW r \in Request, AsyncMove(r)
    PROVE  IInv'
<1>0. r \in Borrower /\ \A y \in Borrower : pc[y] \in Place
  BY Zenon DEF Borrower, IInv, TypeOK
<1>1. CASE LockClosed(r)
  <2>1. Sound(r, "refused")
    BY <1>0, <1>1, Worth
       DEF IInv, TypeOK, Sound, OtherTypes, LockClosed, Place, Free, Accounting, SlotAccounting, book, queue, clock, heart, mode
  <2> QED BY <1>0, <2>1, SoundMove, Zenon
<1>2. CASE LockUnpooled(r)
  <2>1. Sound(r, "postUnpooled")
    BY <1>0, <1>2, Worth
       DEF IInv, TypeOK, Sound, OtherTypes, LockUnpooled, Place, Free, Accounting, SlotAccounting, book, queue, clock, heart, mode
  <2> QED BY <1>0, <2>1, SoundMove, Zenon
<1>3. CASE LockOld(r)
  <2>1. Sound(r, "discard")
    BY <1>0, <1>3, Worth, Counts, PoolAssumption
       DEF IInv, TypeOK, Sound, OtherTypes, LockOld, Locked, Place, Free, Closing, DecClamp, Accounting, SlotAccounting, InHeartbeat, book, queue, clock, heart, mode
  <2> QED BY <1>0, <2>1, SoundMove, Zenon
<1>4. CASE LockReady(r)
  <2>1. Sound(r, "granted")
    BY <1>0, <1>4, Worth
       DEF IInv, TypeOK, Sound, OtherTypes, LockReady, Locked, Place, Free, Holding, Accounting, SlotAccounting, book, queue, clock, heart, mode
  <2> QED BY <1>0, <2>1, SoundMove, Zenon
<1>5. CASE LockStale(r)
  <2>1. Sound(r, "postPing")
    BY <1>0, <1>5, Worth
       DEF IInv, TypeOK, Sound, OtherTypes, LockStale, Locked, Place, Free, Checking, Accounting, SlotAccounting, book, queue, clock, heart, mode
  <2> QED BY <1>0, <2>1, SoundMove, Zenon
<1>6. CASE LockReserve(r)
  <2>1. Sound(r, "postCreate")
    BY <1>0, <1>6, Worth, PoolAssumption
       DEF IInv, TypeOK, Sound, OtherTypes, LockReserve, Locked, Place, Free, Reserved, Accounting, SlotAccounting, book, queue, clock, heart, mode
  <2> QED BY <1>0, <2>1, SoundMove, Zenon
<1>7. CASE Discard(r)
  <2>1. Sound(r, "enter")
    BY <1>0, <1>7, Worth
       DEF IInv, TypeOK, Sound, OtherTypes, Discard, Place, Free, Closing, Accounting, SlotAccounting, book, queue, clock, heart, mode
  <2> QED BY <1>0, <2>1, SoundMove, Zenon
<1>8. CASE PostPing(r)
  <2>1. pc[r] = "postPing" /\ (~closed => total >= 1)
    BY <1>0, <1>8, OwnsOne, Zenon DEF PostPing, Slotted, Checking
  <2>2. Sound(r, "validate") \/ Sound(r, "refused")
    BY <1>0, <1>8, <2>1, Worth, PoolAssumption
       DEF IInv, TypeOK, Sound, OtherTypes, PostPing, Place, Free, Checking, DecPositive, Accounting, SlotAccounting, book, queue, clock, heart, mode
  <2> QED BY <1>0, <2>2, SoundMove, Zenon
<1>9. CASE Validate(r)
  <2>1. Sound(r, "refused") \/ Sound(r, "granted") \/ Sound(r, "dead")
    BY <1>0, <1>9, Worth
       DEF IInv, TypeOK, Sound, OtherTypes, Validate, Place, Free, Checking, Holding, Accounting, SlotAccounting, book, queue, clock, heart, mode
  <2> QED BY <1>0, <2>1, SoundMove, Zenon
<1>10. CASE DropDead(r)
  <2>1. pc[r] = "dead" /\ (~closed => total >= 1)
    BY <1>0, <1>10, OwnsOne, Zenon DEF DropDead, Slotted, Checking
  <2>2. Sound(r, "discard")
    BY <1>0, <1>10, <2>1, Worth, PoolAssumption
       DEF IInv, TypeOK, Sound, OtherTypes, DropDead, Place, Free, Checking, Closing, DecClamp, Accounting, SlotAccounting, book, queue, clock, heart, mode
  <2> QED BY <1>0, <2>2, SoundMove, Zenon
<1>11. CASE PostCreate(r)
  <2>1. pc[r] = "postCreate" /\ (~closed => total >= 1)
    BY <1>0, <1>11, OwnsOne, Zenon DEF PostCreate, Slotted, Reserved
  <2>2. Sound(r, "createTask") \/ Sound(r, "refused")
    BY <1>0, <1>11, <2>1, Worth, PoolAssumption
       DEF IInv, TypeOK, Sound, OtherTypes, PostCreate, Place, Free, Reserved, DecPositive, Accounting, SlotAccounting, book, queue, clock, heart, mode
  <2> QED BY <1>0, <2>2, SoundMove, Zenon
<1>12. CASE CreateTask(r)
  <2>1. pc[r] = "createTask" /\ (~closed => total >= 1)
    BY <1>0, <1>12, OwnsOne, Zenon DEF CreateTask, Slotted, Reserved
  <2>2. Sound(r, "granted") \/ Sound(r, "refused")
    BY <1>0, <1>12, <2>1, Worth, PoolAssumption
       DEF IInv, TypeOK, Sound, OtherTypes, CreateTask, Place, Free, Reserved, Holding, DecPositive, DecClamp, Accounting, SlotAccounting, book, queue, clock, heart, mode
  <2> QED BY <1>0, <2>2, SoundMove, Zenon
<1>13. CASE PostUnpooled(r)
  <2>1. Sound(r, "unpooledTask") \/ Sound(r, "refused")
    BY <1>0, <1>13, Worth DEF IInv, TypeOK, Sound, OtherTypes, PostUnpooled, Place, Free,
         Bookkeeping, Accounting, SlotAccounting, book, queue, clock, heart, mode
  <2> QED BY <1>0, <2>1, SoundMove, Zenon
<1>14. CASE UnpooledConnect(r, "unpooledTask", "granted", "refused")
  <2>1. Sound(r, "granted") \/ Sound(r, "refused")
    BY <1>0, <1>14, Worth
       DEF IInv, TypeOK, Sound, OtherTypes, UnpooledConnect, Place, Free, Holding, Bookkeeping, Accounting, SlotAccounting, book, queue, clock, heart, mode
  <2> QED BY <1>0, <2>1, SoundMove, Zenon
<1>15. CASE Complete(r)
  <2>1. Sound(r, "held") \/ Sound(r, "out")
    BY <1>0, <1>15, Worth
       DEF IInv, TypeOK, Sound, OtherTypes, Complete, Place, Free, Holding, Accounting, SlotAccounting, book, queue, clock, heart, mode
  <2> QED BY <1>0, <2>1, SoundMove, Zenon
<1> QED
  BY <1>1, <1>2, <1>3, <1>4, <1>5, <1>6, <1>7, <1>8, <1>9, <1>10, <1>11, <1>12, <1>13, <1>14,
       <1>15, Zenon DEF AsyncMove

-----------------------------------------------------------------------------
(* Steps that take waiters out of the deque.                               *)

\* Erasing the members of gone leaves a deque of the other parked requests.
LEMMA DequeErase ==
    ASSUME TypeOK, NEW gone, Without(gone), Parked' = Parked \ gone
    PROVE  ahead' \in [Request -> SUBSET Request] /\ DequeOrder'
<1>1. /\ ahead \in [Request -> SUBSET Request] /\ DequeOrder
      /\ \A r \in Request : ahead'[r] = IF r \in gone THEN {} ELSE ahead[r] \ gone
      /\ ahead' \in [Request -> SUBSET Request]
  BY Zenon DEF TypeOK, Without
<1> HIDE DEF Parked
<1>2. Parked \subseteq Request
  BY Zenon DEF Parked
<1>3. \A r \in Request : ahead'[r] \subseteq Parked'
  BY <1>1 DEF DequeOrder
<1>4. \A r \in Request \ Parked' : ahead'[r] = {}
  BY <1>1, Zenon DEF DequeOrder
<1>5. \A r, s \in Parked' : r # s => (r \in ahead'[s] <=> s \notin ahead'[r])
  BY <1>1, <1>2 DEF DequeOrder
<1>6. \A r, s \in Parked' :
         r \in ahead'[s] => r \notin ahead'[r] /\ ahead'[r] \subseteq ahead'[s]
  BY <1>1, <1>2 DEF DequeOrder
<1> QED BY <1>1, <1>3, <1>4, <1>5, <1>6, Zenon DEF DequeOrder

\* Waiters in gone leave the deque for a place worth nothing; the others are where q
\* puts them.
LEMMA Erased ==
    ASSUME IInv, NEW q \in [Borrower -> Place], NEW gone \in SUBSET Parked,
           NEW fate \in {"refused", "failing", "dropped"},
           pc' = [x \in Borrower |-> IF x \in gone THEN fate ELSE q[x]], Without(gone),
           \A x \in Borrower : q[x] = "parked" <=> pc[x] = "parked"
    PROVE  /\ pc' \in [Borrower -> Place]
           /\ ahead' \in [Request -> SUBSET Request] /\ DequeOrder'
           /\ Count(pc', Holding) = Count(q, Holding)
           /\ Count(pc', Slotted) = Count(q, Slotted)
           /\ Count(pc', Connected) = Count(q, Connected)
<1>1. /\ pc' \in [Borrower -> Place]
      /\ \A x \in Borrower : pc'[x] = IF x \in gone THEN fate ELSE q[x]
  BY Zenon DEF Place, Free
<1>2. \A x \in gone : x \in Borrower /\ q[x] = "parked"
  BY Zenon DEF Parked, Borrower
<1>3. Parked' = Parked \ gone
  BY <1>1, <1>2, Zenon DEF Parked, Borrower
<1>4. ahead' \in [Request -> SUBSET Request] /\ DequeOrder'
  BY <1>3, DequeErase, Zenon DEF IInv
<1>5. \A y \in {fate, "parked"} : y \notin Holding /\ y \notin Slotted /\ y \notin Connected
  BY Zenon DEF Holding, Slotted, Connected, Reserved, Checking, Closing
<1>6. Count(pc', Holding) = Count(q, Holding)
  <2>1. \A x \in Borrower : pc'[x] \in Holding <=> q[x] \in Holding
    BY <1>1, <1>2, <1>5, Zenon
  <2> QED BY <2>1, CountSame, Zenon
<1>7. Count(pc', Slotted) = Count(q, Slotted)
  <2>1. \A x \in Borrower : pc'[x] \in Slotted <=> q[x] \in Slotted
    BY <1>1, <1>2, <1>5, Zenon
  <2> QED BY <2>1, CountSame, Zenon
<1>8. Count(pc', Connected) = Count(q, Connected)
  <2>1. \A x \in Borrower : pc'[x] \in Connected <=> q[x] \in Connected
    BY <1>1, <1>2, <1>5, Zenon
  <2> QED BY <2>1, CountSame, Zenon
<1> QED BY <1>1, <1>4, <1>6, <1>7, <1>8, Zenon

\* The heartbeat's own variables are consistent.
HeartOK ==
    /\ hb \in {"off", "count", "sweep", "check", "retire", "refill", "expire", "wake"}
    /\ hbLeft \in Nat /\ hbNeed \in Nat
    /\ hb # "refill" => hbNeed = 0
    /\ hb \in {"check", "retire"} => hbLeft > 0

\* expireWaiters(), wherever it is called from.
LEMMA Expired ==
    ASSUME IInv, Expire(pc), UNCHANGED <<book, closed, pooled, hbNeed>>, OtherTypes',
           HeartOK', InHeartbeat' = InHeartbeat
    PROVE  IInv'
<1>1. pc \in [Borrower -> Place] /\ Expirable \in SUBSET Parked
  BY Zenon DEF IInv, TypeOK, Expirable
<1>2. /\ pc' = [x \in Borrower |-> IF x \in Expirable THEN "refused" ELSE pc[x]]
      /\ Without(Expirable)
  BY Zenon DEF Expire
<1>3. /\ pc' \in [Borrower -> Place]
      /\ ahead' \in [Request -> SUBSET Request] /\ DequeOrder'
      /\ Count(pc', Holding) = Count(pc, Holding)
      /\ Count(pc', Slotted) = Count(pc, Slotted)
      /\ Count(pc', Connected) = Count(pc, Connected)
  BY <1>1, <1>2, Erased, Zenon
<1>4. \A x \in Borrower : pc'[x] \in {"refused", pc[x]}
  BY <1>2, Zenon
<1>5. TypeOK'
  BY <1>3, Zenon DEF IInv, TypeOK, OtherTypes, HeartOK, book
<1>6. Accounting'
  BY <1>3, <1>4, Zenon DEF IInv, Accounting, BorrowedExact, NoConnectionLeak, SlotAccounting,
       Bookkeeping, HeartOK, book
<1> QED BY <1>5, <1>6, Zenon DEF IInv

\* Nobody moves: only the books and the heartbeat change.
LEMMA Unmoved ==
    ASSUME IInv, UNCHANGED <<pc, ahead, borrowed, pooled>>, OtherTypes', HeartOK',
           closed' \in BOOLEAN, idle' \in Nat, live' \in Nat, total' \in Int,
           live' - idle' - InHeartbeat' = live - idle - InHeartbeat,
           ~closed' => /\ ~closed
                       /\ total' - idle' - InHeartbeat' - hbNeed'
                            = total - idle - InHeartbeat - hbNeed
                       /\ pooled => total' <= MaxConn
    PROVE  IInv'
<1>1. Parked' = Parked
  BY Zenon DEF Parked
<1>2. DequeOrder'
  BY <1>1, Zenon DEF IInv, TypeOK, DequeOrder
<1>3. TypeOK'
  BY <1>2, Zenon DEF IInv, TypeOK, OtherTypes, HeartOK
<1>4. hbNeed \in Int /\ hbNeed' \in Int /\ InHeartbeat \in Int /\ InHeartbeat' \in Int
  BY DEF IInv, TypeOK, HeartOK, InHeartbeat
<1>5. Count(pc', Holding) = Count(pc, Holding) /\ Count(pc', Slotted) = Count(pc, Slotted)
      /\ Count(pc', Connected) = Count(pc, Connected)
  BY Zenon
<1> HIDE DEF InHeartbeat
<1>6. BorrowedExact' /\ Bookkeeping'
  BY <1>5, Zenon DEF IInv, Accounting, BorrowedExact, Bookkeeping, HeartOK
<1>7. NoConnectionLeak'
  BY <1>4, <1>5, Counts DEF IInv, TypeOK, Accounting, NoConnectionLeak
<1>8. SlotAccounting'
  BY <1>4, <1>5, Counts DEF IInv, TypeOK, Accounting, SlotAccounting
<1> QED BY <1>3, <1>6, <1>7, <1>8, Zenon DEF IInv, Accounting

\* Time, cancellation and the tasks that only expire waiters.
LEMMA ClockInv ==
    ASSUME IInv, \/ \E r \in Request : Arm(r) \/ FireTimer(r)
                 \/ \E b \in Borrower : Tick(b) \/ Stop(b)
                 \/ Sweep \/ Halt
    PROVE  IInv'
<1>0. HeartOK
  BY Zenon DEF IInv, TypeOK, Accounting, Bookkeeping, HeartOK
<1>1. ASSUME NEW r \in Request, Arm(r) PROVE IInv'
  <2>1. /\ UNCHANGED <<book, closed, pooled, hbNeed, heart>> /\ OtherTypes' /\ HeartOK'
        /\ InHeartbeat' = InHeartbeat
    BY <1>0, <1>1, Zenon DEF IInv, TypeOK, Arm, OtherTypes, HeartOK, InHeartbeat, clock,
         heart, mode
  <2>2. CASE Expire(pc)
    BY <2>1, <2>2, Expired, Zenon
  <2>3. CASE UNCHANGED <<pc, ahead>>
    <3>1. DequeOrder'
      BY <2>3, Zenon DEF IInv, TypeOK, DequeOrder, Parked
    <3> QED
      BY <2>1, <2>3, <3>1, Zenon DEF IInv, TypeOK, Accounting, BorrowedExact,
           NoConnectionLeak, SlotAccounting, Bookkeeping, OtherTypes, HeartOK, book, heart
  <2> QED BY <1>1, <2>2, <2>3, Zenon DEF Arm
<1>2. ASSUME NEW r \in Request, FireTimer(r) PROVE IInv'
  <2>1. /\ UNCHANGED <<book, closed, pooled, hbNeed>> /\ OtherTypes' /\ HeartOK'
        /\ InHeartbeat' = InHeartbeat /\ Expire(pc)
    BY <1>0, <1>2, Zenon DEF IInv, TypeOK, FireTimer, OtherTypes, HeartOK, InHeartbeat, clock,
         heart, mode
  <2> QED BY <2>1, Expired, Zenon
<1>3. ASSUME Sweep PROVE IInv'
  <2>1. /\ UNCHANGED <<book, closed, pooled, hbNeed>> /\ OtherTypes' /\ HeartOK'
        /\ InHeartbeat' = InHeartbeat /\ Expire(pc)
    BY Zenon, <1>0, <1>3 DEF IInv, TypeOK, Sweep, OtherTypes, HeartOK, InHeartbeat, clock,
        heart, mode
  <2> QED BY <2>1, Expired, Zenon
<1>4. ASSUME \/ \E b \in Borrower : Tick(b) \/ Stop(b)
             \/ Halt
      PROVE  IInv'
  <2>1. OtherTypes' /\ UNCHANGED <<pc, book, ahead, heart, closed, pooled>>
    BY Zenon, <1>4 DEF IInv, TypeOK, Tick, Stop, Halt, NotifyAll, OtherTypes, book, queue, clock, heart, mode
  <2>2. DequeOrder'
    BY <2>1, Zenon DEF IInv, TypeOK, DequeOrder, Parked
  <2> QED
    BY <2>1, <2>2, Zenon DEF IInv, TypeOK, Accounting, BorrowedExact, NoConnectionLeak,
         SlotAccounting, Bookkeeping, OtherTypes, InHeartbeat, book, heart
<1> QED BY <1>1, <1>2, <1>3, <1>4, Zenon

\* Slots reserved for the refill are counted on both sides.
LEMMA Shifted ==
    ASSUME NEW a \in Int, NEW i \in Int, NEW n \in Int
    PROVE  (a + n) - i - 0 - n = a - i - 0 - 0
OBVIOUS

\* The heartbeat's steps that move no borrower.
LEMMA HeartbeatInv ==
    ASSUME IInv, \/ HbStart \/ HbCount \/ HbTake \/ HbKeep \/ HbEvict \/ HbRefill
                 \/ HbRestore \/ HbExpire \/ HbWakeClosed
    PROVE  IInv'
<1>0. HeartOK
  BY Zenon DEF IInv, TypeOK, Accounting, Bookkeeping, HeartOK
<1>1. CASE HbStart \/ HbExpire
  <2>1. /\ UNCHANGED <<book, closed, pooled, hbNeed>> /\ OtherTypes' /\ HeartOK'
        /\ InHeartbeat' = InHeartbeat /\ Expire(pc)
    BY <1>0, <1>1, Zenon DEF IInv, TypeOK, HbStart, HbExpire, OtherTypes, HeartOK,
         InHeartbeat, clock, mode
  <2> QED BY <2>1, Expired, Zenon
<1>2. CASE HbCount \/ HbWakeClosed
  <2>1. /\ UNCHANGED <<pc, ahead, book, closed, pooled, hbNeed>> /\ OtherTypes' /\ HeartOK'
        /\ InHeartbeat' = InHeartbeat
    BY <1>0, <1>2, Zenon DEF IInv, TypeOK, HbCount, HbWakeClosed, OtherTypes, HeartOK,
         InHeartbeat, book, queue, clock, mode
  <2> QED BY <2>1, Unmoved, Zenon DEF IInv, TypeOK, Accounting, SlotAccounting, book
<1>3. CASE HbTake
  <2>1. /\ UNCHANGED <<pc, ahead, borrowed, live, total, closed, pooled, hbNeed>> /\ OtherTypes' /\ HeartOK'
        /\ InHeartbeat = 0 /\ InHeartbeat' = 1 /\ idle' = idle - 1 /\ idle' \in Nat
    BY <1>0, <1>3 DEF IInv, TypeOK, HbTake, OtherTypes, HeartOK, InHeartbeat, queue, clock,
         mode
  <2> QED BY <2>1, Unmoved DEF IInv, TypeOK, Accounting, SlotAccounting
<1>4. CASE HbKeep
  <2>1. /\ UNCHANGED <<pc, ahead, borrowed, live, total, closed, pooled, hbNeed>> /\ OtherTypes' /\ HeartOK'
        /\ InHeartbeat = 1 /\ InHeartbeat' = 0 /\ idle' = idle + 1
    BY <1>0, <1>4 DEF IInv, TypeOK, HbKeep, OtherTypes, HeartOK, InHeartbeat, queue, clock,
         mode
  <2> QED BY <2>1, Unmoved DEF IInv, TypeOK, Accounting, SlotAccounting
<1>5. CASE HbEvict
  <2>1. /\ UNCHANGED <<pc, ahead, borrowed, idle, closed, pooled, hbNeed>> /\ OtherTypes' /\ HeartOK'
        /\ InHeartbeat = 1 /\ InHeartbeat' = 0 /\ live' = live - 1 /\ total' = DecClamp(total)
    BY <1>0, <1>5 DEF IInv, TypeOK, HbEvict, OtherTypes, HeartOK, InHeartbeat, queue, clock, mode
  <2>2. live >= 1 /\ (~closed => total >= 1)
    BY <2>1, Counts DEF IInv, TypeOK, Accounting, NoConnectionLeak, SlotAccounting
  <2>3. total' \in Int /\ live' \in Nat /\ (~closed => total' = total - 1)
    BY <2>1, <2>2 DEF IInv, TypeOK, DecClamp
  <2> QED BY <2>1, <2>3, Unmoved, PoolAssumption DEF IInv, TypeOK, Accounting, SlotAccounting
<1>6. CASE HbRefill
  <2>1. /\ UNCHANGED <<pc, ahead, borrowed, idle, live, closed, pooled>> /\ OtherTypes'
        /\ InHeartbeat = 0 /\ InHeartbeat' = 0 /\ hbNeed = 0 /\ hbLeft' \in Nat
    BY <1>0, <1>6, Zenon DEF IInv, TypeOK, HbRefill, OtherTypes, HeartOK, InHeartbeat, queue,
         clock, mode
  <2>2. CASE closed
    BY <1>0, <1>6, <2>1, <2>2, Unmoved, Zenon DEF IInv, TypeOK, HbRefill, HeartOK, Accounting,
         SlotAccounting
  <2>3. CASE ~closed
    <3>1. /\ hbNeed' \in Nat /\ total' = total + hbNeed' /\ total' \in Int
          /\ pooled => total' <= MaxConn
      BY <1>6, <2>3, PoolAssumption DEF IInv, TypeOK, HbRefill, Smaller, Larger, Accounting,
         SlotAccounting
    <3>2. HeartOK'
      BY <1>6, <2>1, <2>3, <3>1, Zenon DEF HbRefill, HeartOK
    <3>3. closed' \in BOOLEAN /\ idle' \in Nat /\ live' \in Nat
      BY <2>1, Zenon DEF IInv, TypeOK
    <3>4. /\ live' - idle' - InHeartbeat' = live - idle - InHeartbeat
          /\ total' - idle' - InHeartbeat' - hbNeed' = total - idle - InHeartbeat - hbNeed
      <4>1. idle \in Nat /\ live \in Nat /\ total \in Int
        BY Zenon DEF IInv, TypeOK
      <4>2. live' - idle' - InHeartbeat' = live - idle - InHeartbeat
        BY <2>1, <4>1, Zenon
      <4>3. total' = total + hbNeed' /\ hbNeed' \in Int /\ idle' = idle /\ hbNeed = 0
        BY <2>1, <3>1
      <4>4. InHeartbeat' = 0 /\ InHeartbeat = 0
        BY <2>1, Zenon
      <4>5. total' - idle' - InHeartbeat' - hbNeed' = total - idle - InHeartbeat - hbNeed
        <5>1. total \in Int /\ idle \in Int /\ hbNeed' \in Int
          BY <4>1, <4>3
        <5>2. (total + hbNeed') - idle - 0 - hbNeed' = total - idle - 0 - 0
          BY <5>1, Shifted, Zenon
        <5> QED BY <4>3, <4>4, <5>2, Zenon
      <4> QED BY <4>2, <4>5, Zenon
    <3> QED BY <2>1, <2>3, <3>1, <3>2, <3>3, <3>4, Unmoved, Zenon
  <2> QED BY <2>2, <2>3, Zenon
<1>7. CASE HbRestore
  <2>1. /\ UNCHANGED <<pc, ahead, borrowed, closed, pooled>> /\ OtherTypes' /\ HeartOK'
        /\ InHeartbeat = 0 /\ InHeartbeat' = 0 /\ hbNeed' = 0
    BY <1>0, <1>7, Zenon DEF IInv, TypeOK, HbRestore, OtherTypes, HeartOK, InHeartbeat,
         NotifyAll, queue, clock, mode
  <2>2. PICK fresh \in 0 .. hbNeed :
          /\ total' = Larger(total - (hbNeed - fresh), 0)
          /\ IF closed THEN UNCHANGED <<idle, live>>
                       ELSE idle' = idle + fresh /\ live' = live + fresh
    BY <1>7, Zenon DEF HbRestore
  <2>3. ~closed => total >= hbNeed
    BY <2>1, Counts DEF IInv, TypeOK, Accounting, SlotAccounting
  <2>4. /\ total' \in Int /\ idle' \in Nat /\ live' \in Nat
        /\ ~closed => total' = total - hbNeed + fresh
    BY <2>2, <2>3 DEF IInv, TypeOK, Larger
  <2>5. /\ closed' \in BOOLEAN
        /\ live' - idle' - InHeartbeat' = live - idle - InHeartbeat
    BY <2>1, <2>2 DEF IInv, TypeOK
  <2>6. ~closed => /\ total' - idle' - InHeartbeat' - hbNeed'
                        = total - idle - InHeartbeat - hbNeed
                   /\ pooled => total' <= MaxConn
    BY <2>1, <2>2, <2>4, PoolAssumption DEF IInv, TypeOK, Accounting, SlotAccounting
  <2> QED BY <2>1, <2>4, <2>5, <2>6, Unmoved, Zenon
<1> QED BY <1>1, <1>2, <1>3, <1>4, <1>5, <1>6, <1>7, Zenon

\* A health check resumes waiters: the ones it serves take idle connections, the others
\* reserve free slots.
LEMMA HbWakeInv ==
    ASSUME IInv, HbWake
    PROVE  IInv'
<1>1. PICK served \in SUBSET Parked, creates \in SUBSET Parked :
        /\ creates \subseteq Parked \ served
        /\ Cardinality(served) = Smaller(Cardinality(Parked), idle)
        /\ Cardinality(creates) =
              Smaller(Cardinality(Parked \ served), Larger(MaxConn - total, 0))
        /\ pc' = [x \in Borrower |-> CASE x \in served -> "granted"
                                       [] x \in creates -> "postCreate"
                                       [] OTHER -> pc[x]]
        /\ Without(served \cup creates)
        /\ idle' = idle - Cardinality(served)
        /\ borrowed' = borrowed + Cardinality(served)
        /\ total' = total + Cardinality(creates)
  BY Zenon DEF HbWake
<1> DEFINE both == served \cup creates
<1>2. /\ pc \in [Borrower -> Place] /\ Parked \subseteq Borrower
      /\ \A x \in both : x \in Borrower /\ pc[x] = "parked"
      /\ served \in SUBSET Borrower /\ both \in SUBSET Borrower /\ served \cap creates = {}
  BY <1>1, Zenon DEF IInv, TypeOK, Parked, Borrower
<1>3. \A x \in Borrower : pc'[x] = IF x \in served THEN "granted"
                                   ELSE IF x \in creates THEN "postCreate" ELSE pc[x]
  BY <1>1, <1>2, Zenon
<1>4. pc' \in [Borrower -> Place]
  BY <1>1, <1>2, <1>3, Zenon DEF Place, Holding, Reserved
<1>5. Parked' = Parked \ both
  BY <1>2, <1>3, Zenon DEF Parked, Borrower
<1>6. ahead' \in [Request -> SUBSET Request] /\ DequeOrder'
  BY <1>1, <1>5, DequeErase, Zenon DEF IInv
<1>7. /\ "granted" \in Holding /\ "granted" \in Slotted /\ "granted" \in Connected
      /\ "postCreate" \notin Holding /\ "postCreate" \in Slotted /\ "postCreate" \notin Connected
      /\ "parked" \notin Holding /\ "parked" \notin Slotted /\ "parked" \notin Connected
  BY Zenon DEF Slotted, Connected, Holding, Reserved, Checking, Closing
<1>8. Count(pc', Holding) = Count(pc, Holding) + Cardinality(served)
  <2>1. \A x \in Borrower : pc'[x] \in Holding <=> (pc[x] \in Holding \/ x \in served)
    BY <1>2, <1>3, <1>7, Zenon
  <2>2. \A x \in served : pc[x] \notin Holding
    BY <1>2, <1>7, Zenon
  <2> QED BY <1>2, <2>1, <2>2, CountJoin
<1>9. Count(pc', Connected) = Count(pc, Connected) + Cardinality(served)
  <2>1. \A x \in Borrower : pc'[x] \in Connected <=> (pc[x] \in Connected \/ x \in served)
    BY <1>2, <1>3, <1>7, Zenon
  <2>2. \A x \in served : pc[x] \notin Connected
    BY <1>2, <1>7, Zenon
  <2> QED BY <1>2, <2>1, <2>2, CountJoin
<1>10. Count(pc', Slotted) = Count(pc, Slotted) + Cardinality(both)
  <2>1. \A x \in Borrower : pc'[x] \in Slotted <=> (pc[x] \in Slotted \/ x \in both)
    BY <1>2, <1>3, <1>7, Zenon
  <2>2. \A x \in both : pc[x] \notin Slotted
    BY <1>2, <1>7, Zenon
  <2> QED BY <1>2, <2>1, <2>2, CountJoin
<1>11. /\ IsFiniteSet(served) /\ IsFiniteSet(creates) /\ IsFiniteSet(Parked)
       /\ IsFiniteSet(Parked \ served)
       /\ Cardinality(served) \in Nat /\ Cardinality(creates) \in Nat
       /\ Cardinality(Parked) \in Nat /\ Cardinality(Parked \ served) \in Nat
  <2>1. IsFiniteSet(Borrower)
    BY Zenon, CountType
  <2>2. /\ IsFiniteSet(served) /\ IsFiniteSet(creates) /\ IsFiniteSet(Parked)
        /\ IsFiniteSet(Parked \ served)
    BY <1>1, <1>2, <2>1, FS_Subset, Zenon
  <2> QED BY <2>2, FS_CardinalityType, Zenon
<1>12. Cardinality(both) = Cardinality(served) + Cardinality(creates)
  <2>1. Cardinality(served \cap creates) = 0
    BY <1>2, FS_EmptySet, Zenon
  <2>2. Cardinality(both)
          = Cardinality(served) + Cardinality(creates) - Cardinality(served \cap creates)
    BY <1>11, FS_Union, Zenon
  <2> QED BY <1>11, <2>1, <2>2
<1>13. /\ idle' \in Nat /\ borrowed' \in Nat /\ total' \in Int
       /\ pooled => total' <= MaxConn
  BY <1>1, <1>11, PoolAssumption DEF IInv, TypeOK, HbWake, Smaller, Larger, Accounting, SlotAccounting
<1>14. /\ hb' = "off" /\ hb = "wake" /\ InHeartbeat = 0 /\ InHeartbeat' = 0 /\ ~closed
       /\ UNCHANGED <<live, hbLeft, hbNeed, closed, pooled>> /\ OtherTypes'
  BY Zenon DEF HbWake, InHeartbeat, IInv, TypeOK, OtherTypes, clock, mode
<1>15. TypeOK'
  BY <1>4, <1>6, <1>13, <1>14, Zenon DEF IInv, TypeOK, OtherTypes
<1>16. BorrowedExact' /\ NoConnectionLeak'
  BY <1>1, <1>8, <1>9, <1>11, <1>14, Counts DEF IInv, TypeOK, Accounting, BorrowedExact, NoConnectionLeak
<1>17. SlotAccounting'
  BY <1>1, <1>10, <1>11, <1>12, <1>13, <1>14, Counts DEF IInv, TypeOK, Accounting,
       SlotAccounting
<1>18. Bookkeeping'
  BY <1>3, <1>14, Zenon DEF IInv, Accounting, Bookkeeping
<1> QED BY <1>15, <1>16, <1>17, <1>18, Zenon DEF IInv, Accounting

-----------------------------------------------------------------------------
(* Returning a connection.                                                 *)

\* A call begins, or a connection is retired and closed.
LEMMA RetireInv ==
    ASSUME IInv, NEW b \in Borrower, Borrow(b) \/ ReturnRetire(b) \/ ReturnClose(b)
    PROVE  IInv'
<1>1. CASE Borrow(b)
  <2>1. OtherTypes' /\ UNCHANGED <<book, ahead, heart, closed, pooled>>
    BY <1>1, Zenon DEF IInv, TypeOK, OtherTypes, Borrow, queue, mode
  <2>2. pc[b] = "out" /\ (Goto(b, "loop") \/ Goto(b, "enter"))
    BY <1>1, Zenon DEF Borrow
  <2>3. {"out", "loop", "enter"} \subseteq Waiting \cup Free
    BY Zenon DEF Free
  <2> QED BY <2>1, <2>2, <2>3, IdleMove, Zenon
<1>2. CASE ReturnRetire(b)
  <2>1. pc[b] = "held" /\ borrowed >= 1 /\ (~closed => total >= 1)
    BY <1>2, OwnsOne, Zenon DEF ReturnRetire, Slotted, Holding
  <2>2. Sound(b, "closing")
    BY <1>2, <2>1, Worth, PoolAssumption DEF IInv, TypeOK, Sound, OtherTypes, ReturnRetire, Place,
       Holding, Closing, DecPositive, Accounting, SlotAccounting, queue, clock, heart, mode
  <2> QED BY <2>2, SoundMove, Zenon
<1>3. CASE ReturnClose(b)
  <2>1. OtherTypes' /\ UNCHANGED <<ahead, heart, closed, pooled>>
    BY <1>3, Zenon DEF IInv, TypeOK, OtherTypes, ReturnClose, NotifyOne, queue, clock, mode
  <2>2. /\ pc[b] = "closing" /\ Goto(b, "out") /\ live' = live - 1
        /\ total' = total /\ borrowed' = borrowed /\ idle' = idle
    BY <1>3, Zenon DEF ReturnClose
  <2>3. /\ total \in Int /\ borrowed \in Nat /\ idle \in Nat /\ live \in Nat
        /\ ~closed /\ pooled => total <= MaxConn
    BY Zenon DEF IInv, TypeOK, Accounting, SlotAccounting
  <2>4. /\ In("out", Holding) = 0 /\ In("out", Slotted) = 0 /\ In("out", Connected) = 0
        /\ In("closing", Holding) = 0 /\ In("closing", Slotted) = 0 /\ In("closing", Connected) = 1
    BY Worth, Zenon DEF Free, Closing
  <2>5. "out" \in Place
    BY Zenon DEF Place, Free
  <2>6. Sound(b, "out")
    BY <2>1, <2>2, <2>3, <2>4, <2>5 DEF Sound
  <2> QED BY <2>6, SoundMove, Zenon
<1> QED BY <1>1, <1>2, <1>3, Zenon

\* A connection becomes idle; the overdue waiters are refused.
LEMMA ReturnIdleInv ==
    ASSUME IInv, NEW b \in Borrower, ReturnIdle(b)
    PROVE  IInv'
<1> DEFINE q == [pc EXCEPT ![b] = "out"]
<1>1. /\ pc \in [Borrower -> Place] /\ pc[b] = "held" /\ ~closed /\ borrowed >= 1
      /\ Overdue \in SUBSET Parked /\ b \notin Overdue
  BY OwnsOne, Zenon DEF IInv, TypeOK, ReturnIdle, Overdue, Parked, Holding
<1>2. q \in [Borrower -> Place] /\ q[b] = "out" /\ \A x \in Borrower : x # b => q[x] = pc[x]
  BY <1>1, Zenon DEF Place, Free
<1>3. /\ pc' = [x \in Borrower |-> IF x \in Overdue THEN "refused" ELSE q[x]]
      /\ Without(Overdue)
  BY <1>1, <1>2, Zenon DEF ReturnIdle
<1>4. \A x \in Borrower : q[x] = "parked" <=> pc[x] = "parked"
  BY <1>1, <1>2, Zenon
<1> HIDE DEF q
<1>5. /\ pc' \in [Borrower -> Place]
      /\ ahead' \in [Request -> SUBSET Request] /\ DequeOrder'
      /\ Count(pc', Holding) = Count(q, Holding)
      /\ Count(pc', Slotted) = Count(q, Slotted)
      /\ Count(pc', Connected) = Count(q, Connected)
  BY <1>1, <1>2, <1>3, <1>4, Erased, Zenon
<1>6. /\ Count(q, Holding) = Count(pc, Holding) - 1
      /\ Count(q, Slotted) = Count(pc, Slotted) - 1
      /\ Count(q, Connected) = Count(pc, Connected) - 1
  <2>1. /\ In("out", Holding) = 0 /\ In("out", Slotted) = 0 /\ In("out", Connected) = 0
        /\ In("held", Holding) = 1 /\ In("held", Slotted) = 1 /\ In("held", Connected) = 1
    BY Worth, Zenon DEF Holding, Free
  <2>2. ASSUME NEW S PROVE Count(q, S) = Count(pc, S) + In("out", S) - In("held", S)
    BY <1>1, <1>2, CountMove
  <2> QED BY <2>1, <2>2, Counts
<1>7. /\ borrowed' = borrowed - 1 /\ idle' = idle + 1 /\ OtherTypes'
      /\ UNCHANGED <<total, live, heart, closed, pooled>>
  BY <1>1 DEF IInv, TypeOK, OtherTypes, ReturnIdle, DecPositive, NotifyOne, clock, mode
<1>8. \A x \in Borrower : pc'[x] \in {"refused", "out", pc[x]}
  BY <1>2, <1>3, Zenon
<1>9. TypeOK'
  BY <1>1, <1>5, <1>7 DEF IInv, TypeOK, OtherTypes, heart
<1>10. Accounting'
  BY <1>5, <1>6, <1>7, <1>8, Counts DEF IInv, TypeOK, Accounting, BorrowedExact,
     NoConnectionLeak, SlotAccounting, Bookkeeping, InHeartbeat, heart
<1> QED BY <1>9, <1>10, Zenon DEF IInv

\* A connection passes to the first waiter in time: one handle for another.
LEMMA ReturnHandoffInv ==
    ASSUME IInv, NEW b \in Borrower, ReturnHandoff(b)
    PROVE  IInv'
<1>1. PICK w \in Parked \ Overdue :
        /\ borrowed' = DecPositive(borrowed) + 1
        /\ pc' = [x \in Borrower |-> CASE x = b -> "out"
                                       [] x = w -> "granted"
                                       [] x \in Overdue -> "dropped"
                                       [] OTHER -> pc[x]]
        /\ Without(Overdue \cup {w})
  BY Zenon DEF ReturnHandoff
<1> DEFINE gone == Overdue \cup {w}
<1> DEFINE p1 == [pc EXCEPT ![b] = "out"]
<1> DEFINE q == [p1 EXCEPT ![w] = "granted"]
<1>2. /\ pc \in [Borrower -> Place] /\ pc[b] = "held" /\ ~closed /\ borrowed >= 1
      /\ w \in Borrower /\ w # b /\ pc[w] = "parked" /\ w \notin Overdue
      /\ \A x \in Overdue : x \in Borrower /\ x # b /\ pc[x] = "parked"
  BY <1>1, OwnsOne, Zenon DEF IInv, TypeOK, ReturnHandoff, Overdue, Parked, Holding, Borrower
<1>3. /\ p1[w] = "parked" /\ p1[b] = "out" /\ \A x \in Borrower : x # b => p1[x] = pc[x]
      /\ q[w] = "granted" /\ \A x \in Borrower : x # w => q[x] = p1[x]
      /\ \A x \in Borrower : q[x] = IF x = w THEN "granted" ELSE IF x = b THEN "out" ELSE pc[x]
  BY <1>2, Zenon DEF Place, Free
<1>4. /\ pc' \in [Borrower -> Place]
      /\ \A x \in Borrower : pc'[x] = IF x \in Overdue THEN "dropped" ELSE q[x]
  BY <1>1, <1>2, <1>3, Zenon DEF Place, Free, Holding
<1>5. Parked' = Parked \ gone
  BY <1>2, <1>3, <1>4, Zenon DEF Parked, Borrower, Overdue
<1>6. ahead' \in [Request -> SUBSET Request] /\ DequeOrder'
  BY <1>1, <1>5, DequeErase, Zenon DEF IInv
<1>7. \A S : Count(q, S) = Count(pc, S) + In("out", S) - In("held", S)
                                       + In("granted", S) - In("parked", S)
  <2> HIDE DEF p1, q
  <2>1. ASSUME NEW S PROVE Count(p1, S) = Count(pc, S) + In("out", S) - In("held", S)
    <3>1. Count(p1, S) = Count(pc, S) + In(p1[b], S) - In(pc[b], S)
      BY <1>3, CountMove
    <3> QED BY <1>2, <1>3, <3>1, Zenon
  <2>2. ASSUME NEW S PROVE Count(q, S) = Count(p1, S) + In("granted", S) - In("parked", S)
    <3>1. Count(q, S) = Count(p1, S) + In(q[w], S) - In(p1[w], S)
      BY <1>2, <1>3, CountMove
    <3> QED BY <1>2, <1>3, <3>1, Zenon
  <2>3. \A S : Count(pc, S) \in Nat /\ In("out", S) \in Int /\ In("held", S) \in Int
             /\ In("granted", S) \in Int /\ In("parked", S) \in Int
    BY CountNat DEF In
  <2> QED BY <2>1, <2>2, <2>3, Zenon
<1> HIDE DEF p1, q
<1>8. /\ Count(q, Holding) = Count(pc, Holding)
      /\ Count(q, Slotted) = Count(pc, Slotted)
      /\ Count(q, Connected) = Count(pc, Connected)
  <2>1. /\ In("out", Holding) = 0 /\ In("out", Slotted) = 0 /\ In("out", Connected) = 0
        /\ In("held", Holding) = 1 /\ In("held", Slotted) = 1 /\ In("held", Connected) = 1
        /\ In("granted", Holding) = 1 /\ In("granted", Slotted) = 1 /\ In("granted", Connected) = 1
        /\ In("parked", Holding) = 0 /\ In("parked", Slotted) = 0 /\ In("parked", Connected) = 0
    BY Worth, Zenon DEF Holding, Free, Waiting
  <2> QED BY <1>7, <2>1, Counts
<1>9. \A y \in {"dropped", "parked"} : y \notin Holding /\ y \notin Slotted /\ y \notin Connected
  BY Zenon DEF Holding, Slotted, Connected, Reserved, Checking, Closing
<1>10. Count(pc', Holding) = Count(q, Holding)
  <2>1. \A x \in Borrower : pc'[x] \in Holding <=> q[x] \in Holding
    BY <1>2, <1>3, <1>4, <1>9, Zenon
  <2> QED BY <2>1, CountSame, Zenon
<1>11. Count(pc', Slotted) = Count(q, Slotted)
  <2>1. \A x \in Borrower : pc'[x] \in Slotted <=> q[x] \in Slotted
    BY <1>2, <1>3, <1>4, <1>9, Zenon
  <2> QED BY <2>1, CountSame, Zenon
<1>12. Count(pc', Connected) = Count(q, Connected)
  <2>1. \A x \in Borrower : pc'[x] \in Connected <=> q[x] \in Connected
    BY <1>2, <1>3, <1>4, <1>9, Zenon
  <2> QED BY <2>1, CountSame, Zenon
<1>13. borrowed' = borrowed /\ OtherTypes' /\ UNCHANGED <<total, idle, live, heart, closed, pooled>>
  BY <1>1, <1>2 DEF IInv, TypeOK, OtherTypes, ReturnHandoff, DecPositive, clock, mode
<1>14. \A x \in Borrower : pc'[x] \in {"dropped", "granted", "out", pc[x]}
  BY <1>3, <1>4, Zenon
<1>15. TypeOK'
  BY <1>4, <1>6, <1>13, Zenon DEF IInv, TypeOK, OtherTypes, heart
<1>16. Accounting'
  BY <1>8, <1>10, <1>11, <1>12, <1>13, <1>14, Zenon DEF IInv, TypeOK, Accounting,
       BorrowedExact, NoConnectionLeak, SlotAccounting, Bookkeeping, InHeartbeat, heart
<1> QED BY <1>15, <1>16, Zenon DEF IInv

-----------------------------------------------------------------------------
(* Entering the deque.                                                     *)

\* borrowAsync() begins: it expires waiters, then goes on or is refused.
LEMMA EnterInv ==
    ASSUME IInv, NEW r \in Request, Enter(r)
    PROVE  IInv'
<1> DEFINE x == IF r \in stopped THEN "refused" ELSE "lock"
<1> DEFINE q == [pc EXCEPT ![r] = x]
<1>1. /\ pc \in [Borrower -> Place] /\ r \in Borrower /\ pc[r] = "enter" /\ x \in {"refused", "lock"}
      /\ Expirable \in SUBSET Parked
  BY Zenon DEF IInv, TypeOK, Enter, Expirable, Borrower
<1>2. q \in [Borrower -> Place] /\ q[r] = x /\ \A y \in Borrower : y # r => q[y] = pc[y]
  BY <1>1, Zenon DEF Place, Free
<1>3. /\ pc' = [y \in Borrower |-> IF y \in Expirable THEN "refused" ELSE q[y]]
      /\ Without(Expirable)
  BY Zenon DEF Enter, Expire
<1>4. \A y \in Borrower : q[y] = "parked" <=> pc[y] = "parked"
  BY <1>1, <1>2, Zenon
<1> HIDE DEF q, x
<1>5. /\ pc' \in [Borrower -> Place]
      /\ ahead' \in [Request -> SUBSET Request] /\ DequeOrder'
      /\ Count(pc', Holding) = Count(q, Holding)
      /\ Count(pc', Slotted) = Count(q, Slotted)
      /\ Count(pc', Connected) = Count(q, Connected)
  BY <1>1, <1>2, <1>3, <1>4, Erased, Zenon
<1>6. \A y \in {"enter", "refused", "lock"} : y \notin Holding /\ y \notin Slotted /\ y \notin Connected
  BY Zenon DEF Holding, Slotted, Connected, Reserved, Checking, Closing
<1>7. \A y \in Borrower : /\ q[y] \in Holding <=> pc[y] \in Holding
                          /\ q[y] \in Slotted <=> pc[y] \in Slotted
                          /\ q[y] \in Connected <=> pc[y] \in Connected
  BY <1>1, <1>2, <1>6, Zenon
<1>8. /\ Count(q, Holding) = Count(pc, Holding)
      /\ Count(q, Slotted) = Count(pc, Slotted)
      /\ Count(q, Connected) = Count(pc, Connected)
  BY <1>7, CountSame, Zenon
<1>9. OtherTypes' /\ UNCHANGED <<book, heart, closed, pooled>>
  BY Zenon DEF IInv, TypeOK, OtherTypes, Enter, clock, mode
<1>10. \A y \in Borrower : pc'[y] \in {"refused", "lock", pc[y]}
  BY <1>1, <1>2, <1>3, Zenon
<1>11. TypeOK'
  BY <1>5, <1>9, Zenon DEF IInv, TypeOK, OtherTypes, book, heart
<1>12. Accounting'
  BY Zenon, <1>5, <1>8, <1>9, <1>10 DEF IInv, Accounting, BorrowedExact, NoConnectionLeak,
     SlotAccounting, Bookkeeping, InHeartbeat, book, heart
<1> QED BY <1>11, <1>12, Zenon DEF IInv

\* The pool is full: the request is refused or goes to the back of the deque.
LEMMA LockFullInv ==
    ASSUME IInv, NEW r \in Request, LockFull(r)
    PROVE  IInv'
<1>0. /\ pc \in [Borrower -> Place] /\ r \in Borrower /\ pc[r] = "lock"
      /\ ahead \in [Request -> SUBSET Request] /\ DequeOrder
  BY Zenon DEF IInv, TypeOK, LockFull, Locked, Borrower
<1>1. CASE Goto(r, "refused") /\ UNCHANGED <<ahead, arming>>
  <2>1. OtherTypes' /\ UNCHANGED <<book, ahead, heart, closed, pooled>>
    BY <1>1, Zenon DEF LockFull, IInv, TypeOK, OtherTypes, clock, mode
  <2>2. {"lock", "refused"} \subseteq Waiting \cup Free
    BY Zenon DEF Free
  <2> QED BY <1>0, <1>1, <2>1, <2>2, IdleMove, Zenon
<1>2. CASE /\ Goto(r, "parked")
           /\ ahead' = [ahead EXCEPT ![r] = Parked]
           /\ arming' = arming \cup {r}
  <2>1. pc' \in [Borrower -> Place] /\ \A c \in Borrower : pc'[c] = IF c = r THEN "parked" ELSE pc[c]
    BY <1>0, <1>2, Zenon DEF Goto, Place, Waiting
  <2>2. Parked' = Parked \cup {r} /\ r \notin Parked /\ Parked \subseteq Request
    BY <1>0, <2>1, Zenon DEF Parked, Borrower
  <2> HIDE DEF Parked
  <2>3. /\ ahead' \in [Request -> SUBSET Request]
        /\ \A s \in Request : ahead'[s] = IF s = r THEN Parked ELSE ahead[s]
    BY <1>0, <1>2, <2>2, Zenon
  <2>4. DequeOrder'
    <3>1. \A s \in Request : ahead'[s] \subseteq Parked'
      BY <1>0, <2>2, <2>3, Zenon DEF DequeOrder
    <3>2. \A s \in Request \ Parked' : ahead'[s] = {}
      BY <1>0, <2>2, <2>3, Zenon DEF DequeOrder
    <3>3. \A s, u \in Parked' : s # u => (s \in ahead'[u] <=> u \notin ahead'[s])
      BY <1>0, <2>2, <2>3 DEF DequeOrder
    <3>4. \A s, u \in Parked' : s \in ahead'[u] => s \notin ahead'[s] /\ ahead'[s] \subseteq ahead'[u]
      BY <1>0, <2>2, <2>3 DEF DequeOrder
    <3> QED BY Zenon, <3>1, <3>2, <3>3, <3>4 DEF DequeOrder
  <2>5. \A y \in {"lock", "parked"} : y \notin Holding /\ y \notin Slotted /\ y \notin Connected
    BY Zenon DEF Holding, Slotted, Connected, Reserved, Checking, Closing
  <2>6. \A y \in Borrower : /\ pc'[y] \in Holding <=> pc[y] \in Holding
                            /\ pc'[y] \in Slotted <=> pc[y] \in Slotted
                            /\ pc'[y] \in Connected <=> pc[y] \in Connected
    BY <1>0, <2>1, <2>5, Zenon
  <2>7. /\ Count(pc', Holding) = Count(pc, Holding)
        /\ Count(pc', Slotted) = Count(pc, Slotted)
        /\ Count(pc', Connected) = Count(pc, Connected)
    BY <2>6, CountSame, Zenon
  <2>8. OtherTypes' /\ UNCHANGED <<book, heart, closed, pooled>>
    BY <1>2, Zenon DEF IInv, TypeOK, OtherTypes, LockFull, clock, mode
  <2>9. TypeOK'
    BY <2>1, <2>3, <2>4, <2>8, Zenon DEF IInv, TypeOK, OtherTypes, book, heart
  <2>10. Accounting'
    BY <2>1, <2>7, <2>8, Zenon DEF IInv, Accounting, BorrowedExact, NoConnectionLeak,
         SlotAccounting, Bookkeeping, InHeartbeat, book, heart
  <2> QED BY <2>9, <2>10, Zenon DEF IInv
<1> QED BY <1>1, <1>2, Zenon DEF LockFull

-----------------------------------------------------------------------------
(* Shutting down.                                                          *)

\* State::closed is set when shutdown() begins, and never cleared.
ClosedFromStart == closed <=> shut # "open"

\* The steps of shutdown(): closing, draining, the timed wait and the reset.
LEMMA ShutdownInv ==
    ASSUME IInv, ClosedFromStart, Shutdown \/ Closedown
    PROVE  IInv'
<1>0. /\ pc \in [Borrower -> Place] /\ HeartOK
      /\ ahead \in [Request -> SUBSET Request] /\ DequeOrder
  BY Zenon DEF IInv, TypeOK, HeartOK, Accounting, Bookkeeping
<1>1. CASE Shutdown
  <2>1. /\ pc' = [x \in Borrower |-> IF x \in Parked THEN "failing" ELSE pc[x]]
        /\ Without(Parked)
    BY <1>1, Zenon DEF Shutdown
  <2>2. /\ pc' \in [Borrower -> Place]
        /\ ahead' \in [Request -> SUBSET Request] /\ DequeOrder'
        /\ Count(pc', Holding) = Count(pc, Holding)
        /\ Count(pc', Slotted) = Count(pc, Slotted)
        /\ Count(pc', Connected) = Count(pc, Connected)
    BY <1>0, <2>1, Erased, Zenon
  <2>3. OtherTypes' /\ UNCHANGED <<book, heart, pooled>> /\ closed' = TRUE
    BY <1>1, Zenon DEF IInv, TypeOK, OtherTypes, Shutdown, NotifyAll, clock
  <2>4. \A y \in Borrower : pc'[y] \in {"failing", pc[y]}
    BY <2>1, Zenon
  <2>5. TypeOK'
    BY <2>2, <2>3, Zenon DEF IInv, TypeOK, OtherTypes, book, heart
  <2>6. Accounting'
    BY Zenon, <2>2, <2>3, <2>4 DEF IInv, Accounting, BorrowedExact, NoConnectionLeak,
       SlotAccounting, Bookkeeping, InHeartbeat, book, heart
  <2> QED BY <2>5, <2>6, Zenon DEF IInv
<1>2. CASE ShutDrain
  <2>1. /\ UNCHANGED <<pc, ahead, borrowed, total, closed, pooled, heart>> /\ OtherTypes' /\ closed
        /\ idle' = idle - 1 /\ live' = live - 1 /\ idle > 0
    BY <1>2, Zenon DEF ShutDrain, ClosedFromStart, IInv, TypeOK, OtherTypes, queue, clock,
         mode
  <2>2. HeartOK' /\ InHeartbeat' = InHeartbeat /\ InHeartbeat \in Nat
    BY <1>0, <2>1, Zenon DEF HeartOK, InHeartbeat, heart
  <2>3. live >= 1
    BY <2>1, <2>2, Counts DEF IInv, TypeOK, Accounting, NoConnectionLeak
  <2>4. /\ idle' \in Nat /\ live' \in Nat /\ total' \in Int
        /\ live' - idle' - InHeartbeat' = live - idle - InHeartbeat
    BY <2>1, <2>2, <2>3 DEF IInv, TypeOK
  <2>5. closed' \in BOOLEAN
    BY <2>1, Zenon DEF IInv, TypeOK
  <2> QED BY <2>1, <2>2, <2>4, <2>5, Unmoved, Zenon
<1>3. CASE ShutWait
  <2>1. /\ UNCHANGED <<pc, ahead, book, closed, pooled, heart>> /\ OtherTypes'
    BY <1>3, Zenon DEF ShutWait, IInv, TypeOK, OtherTypes, queue, clock
  <2>2. HeartOK' /\ InHeartbeat' = InHeartbeat
    BY <1>0, <2>1, Zenon DEF HeartOK, InHeartbeat, heart
  <2> QED BY <2>1, <2>2, Unmoved, Zenon DEF IInv, TypeOK, Accounting, SlotAccounting, book, heart
<1>4. CASE ShutFinish
  <2>1. /\ UNCHANGED <<borrowed, idle, live, ahead, heart, closed, pooled>> /\ OtherTypes' /\ closed
        /\ total' = borrowed
        /\ pc' = [x \in Borrower |-> IF pc[x] = "failing" THEN "refused" ELSE pc[x]]
    BY <1>4, Zenon DEF ShutFinish, ClosedFromStart, IInv, TypeOK, OtherTypes, queue, clock
  <2>2. /\ pc' \in [Borrower -> Place]
        /\ \A x \in Borrower : pc'[x] = IF pc[x] = "failing" THEN "refused" ELSE pc[x]
    BY <1>0, <2>1, Zenon DEF Place, Free
  <2>3. Parked' = Parked
    BY <2>2, Zenon DEF Parked, Borrower
  <2>4. DequeOrder'
    BY <1>0, <2>1, <2>3, Zenon DEF DequeOrder
  <2>5. \A y \in {"failing", "refused"} : y \notin Holding /\ y \notin Slotted /\ y \notin Connected
    BY Zenon DEF Holding, Slotted, Connected, Reserved, Checking, Closing
  <2>6. \A y \in Borrower : /\ pc'[y] \in Holding <=> pc[y] \in Holding
                            /\ pc'[y] \in Connected <=> pc[y] \in Connected
    BY <2>2, <2>5, Zenon
  <2>7. Count(pc', Holding) = Count(pc, Holding) /\ Count(pc', Connected) = Count(pc, Connected)
    BY <2>6, CountSame, Zenon
  <2>8. TypeOK'
    BY <2>1, <2>2, <2>4 DEF IInv, TypeOK, OtherTypes, heart
  <2>9. Accounting'
    BY <2>1, <2>2, <2>7, Zenon DEF IInv, Accounting, BorrowedExact, NoConnectionLeak,
         SlotAccounting, Bookkeeping, InHeartbeat, heart
  <2> QED BY <2>8, <2>9, Zenon DEF IInv
<1> QED BY <1>1, <1>2, <1>3, <1>4, Zenon DEF Closedown

-----------------------------------------------------------------------------
(* The invariant.                                                          *)

\* The pool the constructor builds satisfies the inductive invariant.
LEMMA InitInv == Init => IInv /\ ClosedFromStart
<1> SUFFICES ASSUME Init PROVE IInv /\ ClosedFromStart
  BY Zenon
<1>1. pc = [b \in Borrower |-> "out"]
  BY Zenon DEF Init
<1>2. pc \in [Borrower -> Place] /\ \A b \in Borrower : pc[b] = "out"
  BY <1>1, Zenon DEF Place, Free
<1>3. idle \in Nat /\ (pooled => idle <= MaxConn)
  BY PoolAssumption DEF Init
<1>4. Parked = {}
  BY <1>2, Zenon DEF Parked, Borrower
<1>5. ahead = [r \in Request |-> {}] /\ DequeOrder
  BY <1>4, Zenon DEF Init, DequeOrder
<1>6. ahead \in [Request -> SUBSET Request]
  BY <1>5, Zenon
<1>7. TypeOK
  <2>1. /\ total \in Int /\ borrowed \in Nat /\ idle \in Nat /\ live \in Nat
        /\ hbLeft \in Nat /\ hbNeed \in Nat
    BY <1>3 DEF Init
  <2>2. /\ closed \in BOOLEAN /\ pooled \in BOOLEAN /\ halted \in BOOLEAN
        /\ shut = "open" /\ sweep \in BOOLEAN /\ hb = "off"
        /\ arming = {} /\ timers = {} /\ asleep = {} /\ due = {} /\ stopped = {}
    BY Zenon DEF Init
  <2> QED BY <1>2, <1>5, <1>6, <2>1, <2>2, Zenon DEF TypeOK
<1>8. \A S : "out" \notin S => Count(pc, S) = 0
  <2> SUFFICES ASSUME NEW S, "out" \notin S PROVE Count(pc, S) = 0
    BY Zenon
  <2>1. {b \in Borrower : pc[b] \in S} = {}
    BY <1>2, Zenon
  <2> QED BY <2>1, FS_EmptySet, Zenon DEF Count
<1>9. "out" \notin Holding /\ "out" \notin Slotted /\ "out" \notin Connected
  BY Zenon DEF Holding, Slotted, Connected, Reserved, Checking, Closing
<1>10. Count(pc, Holding) = 0 /\ Count(pc, Slotted) = 0 /\ Count(pc, Connected) = 0
  BY <1>8, <1>9, Zenon
<1>11. InHeartbeat = 0 /\ hbNeed = 0 /\ total = idle /\ live = idle /\ borrowed = 0
  BY Zenon DEF Init, InHeartbeat
<1>12. Bookkeeping
  BY <1>2, <1>11, Zenon DEF Init, Bookkeeping
<1>13. Accounting
  BY <1>3, <1>10, <1>11, <1>12 DEF Accounting, BorrowedExact, NoConnectionLeak, SlotAccounting
<1> QED BY <1>7, <1>13, Zenon DEF IInv, Init, ClosedFromStart

\* closed and shut change together, in shutdown() only.
LEMMA ClosedInv ==
    ASSUME ClosedFromStart, [Next]_vars
    PROVE  ClosedFromStart'
<1>1. CASE UNCHANGED mode
  BY <1>1, Zenon DEF ClosedFromStart, mode
<1>2. CASE Shutdown \/ Closedown \/ Halt
  BY <1>2, Zenon DEF ClosedFromStart, Halt, Shutdown, Closedown, ShutDrain, ShutWait, ShutFinish,
       mode
<1>3. ASSUME NEW t \in Thread, BorrowStep(t) PROVE UNCHANGED mode
  BY Zenon, <1>3 DEF BorrowStep, LoopRefused, LoopUnpooled, LoopTakeIdle, LoopReserve,
      LoopFull, Resume,
     PingAlive, PingDead, ConnectOk, ConnectFail, UnpooledConnect
<1>4. ASSUME NEW r \in Request, AsyncStep(r) \/ Arm(r) \/ FireTimer(r) PROVE UNCHANGED mode
  BY Zenon, <1>4 DEF AsyncStep, Arm, FireTimer, Enter, LockClosed, LockUnpooled, LockOld,
      LockReady,
     LockStale, LockReserve, LockFull, Discard, PostPing, Validate, DropDead, PostCreate,
     CreateTask, PostUnpooled, UnpooledConnect, Complete
<1>5. ASSUME NEW b \in Borrower,
             Borrow(b) \/ ReturnStep(b) \/ ReturnClose(b) \/ Tick(b) \/ Stop(b)
      PROVE  UNCHANGED mode
  BY <1>5, Zenon DEF Borrow, ReturnStep, ReturnRetire, ReturnHandoff, ReturnIdle, ReturnClose,
       Tick, Stop
<1>6. CASE Sweep \/ HbStart \/ Heartbeat
  BY <1>1, <1>6, Zenon DEF Sweep, HbStart, Heartbeat, HbCount, HbTake, HbKeep, HbEvict,
       HbRefill, HbRestore, HbExpire, HbWakeClosed, HbWake
<1>7. CASE UNCHANGED vars
  BY <1>1, <1>7, Zenon DEF vars
<1> QED BY <1>1, <1>2, <1>3, <1>4, <1>5, <1>6, <1>7, Zenon DEF Next

\* Every critical section of connection_pool.cpp preserves the inductive
\* invariant.
LEMMA NextInv ==
    ASSUME IInv, ClosedFromStart, [Next]_vars
    PROVE  IInv'
<1>1. ASSUME NEW t \in Thread, BorrowStep(t) PROVE IInv'
  BY <1>1, BorrowStepInv, Zenon
<1>2. ASSUME NEW r \in Request, AsyncStep(r) PROVE IInv'
  BY <1>2, EnterInv, LockFullInv, AsyncStepInv, Zenon DEF AsyncStep, AsyncMove
<1>3. ASSUME NEW r \in Request, Arm(r) \/ FireTimer(r) PROVE IInv'
  BY <1>3, ClockInv, Zenon
<1>4. ASSUME NEW b \in Borrower, Borrow(b) \/ ReturnStep(b) \/ ReturnClose(b) PROVE IInv'
  BY <1>4, RetireInv, ReturnHandoffInv, ReturnIdleInv, Zenon DEF ReturnStep
<1>5. ASSUME NEW b \in Borrower, Tick(b) \/ Stop(b) PROVE IInv'
  BY <1>5, ClockInv, Zenon
<1>6. CASE Sweep \/ Halt
  BY <1>6, ClockInv, Zenon
<1>7. CASE HbStart \/ Heartbeat
  BY <1>7, HeartbeatInv, HbWakeInv, Zenon DEF Heartbeat
<1>8. CASE Shutdown \/ Closedown
  BY <1>8, ShutdownInv, Zenon
<1>9. CASE UNCHANGED vars
  <2>1. DequeOrder'
    BY <1>9, Zenon DEF IInv, TypeOK, DequeOrder, Parked, vars, queue
  <2> QED
    BY <1>9, <2>1, Zenon DEF IInv, TypeOK, Accounting, BorrowedExact, NoConnectionLeak,
         SlotAccounting, Bookkeeping, InHeartbeat, vars, book, queue, clock, heart, mode
<1> QED BY <1>1, <1>2, <1>3, <1>4, <1>5, <1>6, <1>7, <1>8, <1>9, Zenon DEF Next

\* The inductive invariant holds in every reachable state.
THEOREM Invariance == Spec => [](IInv /\ ClosedFromStart)
<1>1. IInv /\ ClosedFromStart /\ [Next]_vars => IInv' /\ ClosedFromStart'
  BY NextInv, ClosedInv, Zenon
<1> QED BY InitInv, <1>1, PTL DEF Spec

\* Every variable keeps its type, and the deque of asynchronous waiters holds exactly
\* the parked requests in one order, whatever takes them out of it.
THEOREM TypeCorrect == Spec => []TypeOK
<1>1. IInv => TypeOK
  BY Zenon DEF IInv
<1> QED BY Invariance, <1>1, PTL

\* For any number of borrowers and connections, State::total of an open pool counts the
\* idle connections, the handles, the connections under check and the reserved slots,
\* and stays within maxConn_.
THEOREM SlotsAccounted == Spec => []SlotAccounting
<1>1. IInv => SlotAccounting
  BY Zenon DEF IInv, Accounting
<1> QED BY Invariance, <1>1, PTL

\* State::borrowed always counts the live handles.
THEOREM BorrowedCorrect == Spec => []BorrowedExact
<1>1. IInv => BorrowedExact
  BY Zenon DEF IInv, Accounting
<1> QED BY Invariance, <1>1, PTL

\* No physical connection is ever lost: each open one is idle, in a handle, or owned by
\* code that will close it or hand it out.
THEOREM NothingLeaks == Spec => []NoConnectionLeak
<1>1. IInv => NoConnectionLeak
  BY Zenon DEF IInv, Accounting
<1> QED BY Invariance, <1>1, PTL

-----------------------------------------------------------------------------
(* What a step does to the handles, and the lease specification.           *)

\* The same borrowers hold a connection.
Kept ==
    /\ closed' = closed /\ pooled' = pooled
    /\ \A c \in Borrower : pc'[c] \in Holding <=> pc[c] \in Holding

\* Some more hold one, and the pool is open.
Gained ==
    /\ ~closed /\ closed' = closed /\ pooled' = pooled
    /\ \A c \in Borrower : pc[c] \in Holding => pc'[c] \in Holding

\* b alone gives its connection up.
Lost(b) ==
    /\ closed' = closed /\ pooled' = pooled /\ pc[b] \in Holding
    /\ \A c \in Borrower : pc'[c] \in Holding <=> pc[c] \in Holding /\ c # b

\* b's connection passes to w.
Passed(b, w) ==
    /\ ~closed /\ closed' = closed /\ pooled' = pooled
    /\ pc[b] \in Holding /\ pc[w] \notin Holding
    /\ \A c \in Borrower : pc'[c] \in Holding <=> (pc[c] \in Holding /\ c # b) \/ c = w

\* shutdown() begins.
Ended ==
    /\ closed' = TRUE /\ pooled' = pooled
    /\ \A c \in Borrower : pc'[c] \in Holding <=> pc[c] \in Holding

\* One borrower moves.
LEMMA GotoKind ==
    ASSUME TypeOK, NEW b \in Borrower, NEW x, Goto(b, x)
    PROVE  \A c \in Borrower : pc'[c] = IF c = b THEN x ELSE pc[c]
BY Zenon DEF TypeOK, Goto

\* Waiters that are expired, refused or dropped neither gain nor lose a handle.
LEMMA ExpireKind ==
    ASSUME NEW q, Expire(q), \A c \in Borrower : q[c] \in Holding <=> pc[c] \in Holding
    PROVE  \A c \in Borrower : pc'[c] \in Holding <=> pc[c] \in Holding
<1>1. \A c \in Borrower : pc'[c] = IF c \in Expirable THEN "refused" ELSE q[c]
  BY Zenon DEF Expire
<1>2. \A c \in Expirable : pc[c] = "parked"
  BY Zenon DEF Expirable, Parked
<1> QED BY <1>1, <1>2, Zenon DEF Holding

\* What one critical section of the pool can do to the set of live handles:
\* nothing, give one, take one back, pass one on, or close the pool.
LEMMA StepKind ==
    ASSUME TypeOK, [Next]_vars
    PROVE  \/ Kept \/ Gained \/ Ended
           \/ \E b \in Borrower : Lost(b)
           \/ \E b, w \in Borrower : Passed(b, w)
<1>1. ASSUME NEW t \in Thread, BorrowStep(t) PROVE Kept \/ Gained
  <2>1. t \in Borrower
    BY Zenon DEF Borrower
  <2> QED BY Zenon, <1>1, <2>1, GotoKind DEF Kept, Gained, Holding, BorrowStep, LoopRefused,
      LoopUnpooled,
        LoopTakeIdle, LoopReserve, LoopFull, Looping, Resume, PingAlive, PingDead, ConnectOk,
        ConnectFail, UnpooledConnect, mode
<1>2. ASSUME NEW r \in Request, AsyncStep(r) PROVE Kept \/ Gained
  <2>1. r \in Borrower
    BY Zenon DEF Borrower
  <2>2. CASE Enter(r)
    <3> DEFINE q == [pc EXCEPT ![r] = IF r \in stopped THEN "refused" ELSE "lock"]
    <3>1. \A c \in Borrower : q[c] \in Holding <=> pc[c] \in Holding
      BY <2>1, <2>2, Zenon DEF TypeOK, Enter, Holding
    <3>2. Expire(q) /\ UNCHANGED <<closed, pooled>>
      BY <2>2, Zenon DEF Enter, mode
    <3> HIDE DEF q
    <3> QED BY <3>1, <3>2, ExpireKind, Zenon DEF Kept
  <2>3. CASE ~Enter(r)
    BY Zenon, <1>2, <2>1, <2>3, GotoKind DEF Kept, Gained, Holding, AsyncStep, LockClosed,
        LockUnpooled,
       LockOld, LockReady, LockStale, LockReserve, LockFull, Locked, Discard, PostPing, Validate,
       DropDead, PostCreate, CreateTask, PostUnpooled, UnpooledConnect, Complete, mode
  <2> QED BY <2>2, <2>3, Zenon
<1>3. ASSUME NEW r \in Request, Arm(r) \/ FireTimer(r) PROVE Kept
  BY Zenon, <1>3, ExpireKind DEF Arm, FireTimer, Kept, mode
<1>4. ASSUME NEW b \in Borrower, Borrow(b) \/ ReturnClose(b) \/ Tick(b) \/ Stop(b) PROVE Kept
  BY <1>4, GotoKind DEF Kept, Holding, Borrow, ReturnClose, Tick, Stop, mode
<1>5. ASSUME NEW b \in Borrower, ReturnRetire(b) PROVE Lost(b)
  <2>1. pc[b] = "held" /\ UNCHANGED <<closed, pooled>> /\ Goto(b, "closing")
    BY <1>5, Zenon DEF ReturnRetire, mode
  <2>2. \A c \in Borrower : pc'[c] = IF c = b THEN "closing" ELSE pc[c]
    BY <2>1, GotoKind, Zenon
  <2> QED BY <2>1, <2>2, Zenon DEF Lost, Holding
<1>6. ASSUME NEW b \in Borrower, ReturnIdle(b) PROVE Lost(b)
  <2>1. /\ pc[b] = "held" /\ UNCHANGED <<closed, pooled>>
        /\ \A x \in Overdue : pc[x] = "parked"
    BY <1>6, Zenon DEF ReturnIdle, Overdue, Parked, mode
  <2>2. \A x \in Borrower : pc'[x] = IF x = b THEN "out"
                                     ELSE IF x \in Overdue THEN "refused" ELSE pc[x]
    BY <1>6, <2>1, Zenon DEF ReturnIdle
  <2> QED BY <2>1, <2>2, Zenon DEF Lost, Holding
<1>7. ASSUME NEW b \in Borrower, ReturnHandoff(b) PROVE \E w \in Borrower : Passed(b, w)
  <2>1. PICK w \in Parked \ Overdue :
          pc' = [x \in Borrower |-> CASE x = b -> "out"
                                       [] x = w -> "granted"
                                       [] x \in Overdue -> "dropped"
                                       [] OTHER -> pc[x]]
    BY <1>7, Zenon DEF ReturnHandoff
  <2>2. /\ pc[b] = "held" /\ pc[w] = "parked" /\ w \in Borrower /\ ~closed /\ UNCHANGED <<closed, pooled>>
        /\ \A x \in Overdue : pc[x] = "parked"
    BY <1>7, <2>1, Zenon DEF ReturnHandoff, Overdue, Parked, Borrower, mode
  <2>3. \A x \in Borrower : pc'[x] = IF x = b THEN "out" ELSE IF x = w THEN "granted"
                                     ELSE IF x \in Overdue THEN "dropped" ELSE pc[x]
    BY <2>1, <2>2
  <2> QED BY <2>2, <2>3, Zenon DEF Passed, Holding
<1>8. CASE Sweep \/ HbStart \/ HbExpire
  BY <1>8, ExpireKind, Zenon DEF Sweep, HbStart, HbExpire, Kept, mode
<1>9. CASE HbCount \/ HbTake \/ HbKeep \/ HbEvict \/ HbRefill \/ HbRestore \/ HbWakeClosed
  BY <1>9, Zenon DEF HbCount, HbTake, HbKeep, HbEvict, HbRefill, HbRestore, HbWakeClosed,
       Kept, mode
<1>10. CASE HbWake
  <2>1. PICK served \in SUBSET Parked, creates \in SUBSET Parked :
          /\ creates \subseteq Parked \ served
          /\ pc' = [x \in Borrower |-> CASE x \in served -> "granted"
                                      [] x \in creates -> "postCreate"
                                      [] OTHER -> pc[x]]
    BY <1>10, Zenon DEF HbWake
  <2>2. \A x \in Borrower : pc'[x] = IF x \in served THEN "granted"
                                     ELSE IF x \in creates THEN "postCreate" ELSE pc[x]
    BY <2>1, Zenon
  <2>3. (\A x \in creates : pc[x] = "parked") /\ ~closed /\ UNCHANGED <<closed, pooled>>
    BY <1>10, <2>1, Zenon DEF HbWake, Parked, mode
  <2> QED BY <2>2, <2>3, Zenon DEF Gained, Holding
<1>11. CASE Shutdown
  BY <1>11, Zenon DEF Shutdown, Ended, Parked, Holding
<1>12. CASE Closedown
  BY <1>12, Zenon DEF Closedown, ShutDrain, ShutWait, ShutFinish, Kept, Holding, mode
<1>13. CASE Halt \/ UNCHANGED vars
  BY <1>13, Zenon DEF Halt, vars, mode, Kept
<1> QED
  BY <1>1, <1>2, <1>3, <1>4, <1>5, <1>6, <1>7, <1>8, <1>9, <1>10, <1>11, <1>12, <1>13,
       Zenon DEF Next, Heartbeat, ReturnStep

\* After shutdown() has begun no step hands a connection out, for any number of threads,
\* requests, tasks and health checks in flight at that moment.
THEOREM NothingGrantedAfterClose == Spec => NoGrantAfterClose
<1>1. TypeOK /\ [Next]_vars =>
        [closed => {b \in Borrower : pc'[b] \in Holding} \subseteq At(Holding)]_vars
  <2> SUFFICES ASSUME TypeOK, [Next]_vars, closed, NEW b \in Borrower, pc'[b] \in Holding
               PROVE  pc[b] \in Holding
    BY Zenon DEF At
  <2>1. CASE Kept \/ Ended
    BY Zenon, <2>1 DEF Kept, Ended
  <2>4. ~Gained
    BY Zenon DEF Gained
  <2>2. ASSUME NEW c \in Borrower, Lost(c) PROVE pc[b] \in Holding
    BY <2>2, Zenon DEF Lost
  <2>3. ASSUME NEW c \in Borrower, NEW w \in Borrower, Passed(c, w) PROVE pc[b] \in Holding
    BY <2>3, Zenon DEF Passed
  <2> QED BY <2>1, <2>2, <2>3, <2>4, StepKind, Zenon
<1> QED BY TypeCorrect, <1>1, PTL DEF Spec, NoGrantAfterClose

\* An open pooled data source has at most maxConn_ handles.
LEMMA HoldersBounded ==
    IInv /\ ~closed /\ pooled => Cardinality(At(Holding)) <= MaxConn
<1> SUFFICES ASSUME IInv, ~closed, pooled
             PROVE  Cardinality(At(Holding)) <= MaxConn
  BY Zenon
<1> DEFINE A == {b \in Borrower : pc[b] \in Holding}
<1> DEFINE B == {b \in Borrower : pc[b] \in Slotted}
<1>1. IsFiniteSet(A) /\ IsFiniteSet(B) /\ A \subseteq B
  BY Zenon, CountType DEF Slotted
<1>2. Cardinality(A) \in Nat /\ Cardinality(B) \in Nat /\ Cardinality(A) <= Cardinality(B)
  BY <1>1, FS_Subset, FS_CardinalityType, Zenon
<1>3. Count(pc, Slotted) = Cardinality(B) /\ At(Holding) = A
  BY Zenon DEF Count, At
<1>4. total = idle + Count(pc, Slotted) + InHeartbeat + hbNeed /\ total <= MaxConn
      /\ InHeartbeat \in Nat /\ idle \in Nat /\ hbNeed \in Nat /\ total \in Int
  BY Zenon DEF IInv, TypeOK, Accounting, SlotAccounting, InHeartbeat
<1> HIDE DEF A, B
<1>5. Cardinality(B) <= total
  BY <1>2, <1>3, <1>4
<1> QED BY <1>2, <1>3, <1>4, <1>5, PoolAssumption

\* PoolLease counts its holders with the same operator.
LEMMA SameCardinality == \A S : Lease!Cardinality(S) = Cardinality(S)
BY Zenon DEF Cardinality, Lease!Cardinality

\* The pool implements PoolLease for every choice of the constants: each step grants
\* handles within the limit while the pool is open, gives one back, passes one on,
\* closes the pool, or leaves the leases alone.
THEOREM PoolImplementsLease == Spec => ImplementsLease
<1>1. Init => Lease!Init
  <2> SUFFICES ASSUME Init PROVE Lease!Init
    BY Zenon
  <2>1. \A b \in Borrower : pc[b] = "out"
    BY Zenon DEF Init
  <2>2. At(Holding) = {}
    BY <2>1, Zenon DEF At, Holding
  <2>3. (~closed) = TRUE /\ pooled \in BOOLEAN
    BY Zenon DEF Init
  <2> QED BY <2>2, <2>3, Zenon DEF Lease!Init
<1>2. IInv /\ IInv' /\ [Next]_vars => [Lease!Next]_<<At(Holding), ~closed, pooled>>
  <2> SUFFICES ASSUME IInv, IInv', [Next]_vars
               PROVE  Lease!Next \/ UNCHANGED <<At(Holding), ~closed, pooled>>
    BY Zenon
  <2>1. TypeOK /\ closed \in BOOLEAN
    BY Zenon DEF IInv, TypeOK
  <2>2. CASE Kept
    BY <2>2, Zenon DEF Kept, At
  <2>3. CASE Gained
    <3> DEFINE new == At(Holding)' \ At(Holding)
    <3>1. new \in SUBSET (Borrower \ At(Holding)) /\ At(Holding)' = At(Holding) \cup new
      BY <2>3, Zenon DEF Gained, At
    <3>2. ~closed /\ (~closed)' = ~closed /\ pooled' = pooled
      BY <2>3, Zenon DEF Gained
    <3>3. pooled => Cardinality(At(Holding)') <= MaxConn
      <4>1. (IInv /\ ~closed /\ pooled => Cardinality(At(Holding)) <= MaxConn)'
        BY HoldersBounded, PTL
      <4> QED BY <3>2, <4>1, Zenon
    <3>4. Lease!Grant
      <4>1. Lease!Cardinality(At(Holding)') = Cardinality(At(Holding)')
        BY SameCardinality, Zenon
      <4> QED BY Zenon, <3>1, <3>2, <3>3, <4>1 DEF Lease!Grant
    <3> QED BY <3>4, Zenon DEF Lease!Next
  <2>4. CASE Ended
    <3>1. (~closed)' = FALSE /\ UNCHANGED <<At(Holding), pooled>>
      BY <2>4, Zenon DEF Ended, At
    <3>2. Lease!Close
      BY <3>1, Zenon DEF Lease!Close
    <3> QED BY <3>2, Zenon DEF Lease!Next
  <2>5. ASSUME NEW b \in Borrower, Lost(b) PROVE Lease!Next
    <3>1. b \in At(Holding) /\ At(Holding)' = At(Holding) \ {b} /\ UNCHANGED <<~closed, pooled>>
      BY <2>5, Zenon DEF Lost, At
    <3>2. Lease!Release
      BY <3>1, Zenon DEF Lease!Release
    <3> QED BY <3>2, Zenon DEF Lease!Next
  <2>6. ASSUME NEW b \in Borrower, NEW w \in Borrower, Passed(b, w) PROVE Lease!Next
    <3>1. /\ b \in At(Holding) /\ w \in Borrower \ At(Holding)
          /\ At(Holding)' = (At(Holding) \ {b}) \cup {w}
      BY <2>6, Zenon DEF Passed, At
    <3>2. ~closed /\ UNCHANGED <<~closed, pooled>>
      BY <2>6, Zenon DEF Passed
    <3>3. Lease!Handover
      BY <3>1, <3>2, Zenon DEF Lease!Handover
    <3> QED BY <3>3, Zenon DEF Lease!Next
  <2> QED BY <2>1, <2>2, <2>3, <2>4, <2>5, <2>6, StepKind, Zenon
<1> QED BY Invariance, <1>1, <1>2, PTL DEF Spec, ImplementsLease, Lease!Spec

=============================================================================
