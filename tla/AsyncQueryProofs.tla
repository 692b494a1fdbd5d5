--------------------------- MODULE AsyncQueryProofs ---------------------------
(***************************************************************************)
(* Proofs about AsyncQuery, for any requests, connections and attempts.    *)
(* The invariant is local: what it says of a request only mentions that    *)
(* request, except that no two requests hold the same connection.          *)
(***************************************************************************)
EXTENDS AsyncQuery, TLAPS

\* The timeout has won resolved.exchange().
Won(r) == timer[r] \in {"won", "cancel"} \/ late[r] # "none"

\* The completion was called once if the request is done, and not before.
Counted(r) == calls[r] = IF place[r] = "done" THEN 1 ELSE 0

\* Who won resolved.exchange() decides who may still complete the request.
Handshake(r) ==
    /\ ~control[r].resolved => ~Won(r) /\ driver[r] \in {"none", "running", "completed"}
    /\ Won(r) => /\ control[r].resolved /\ timer[r] \in {"won", "cancel", "gone"}
                 /\ driver[r] \in {"running", "completed", "late", "release", "gone"}
                 /\ place[r] = IF late[r] \in {"none", "posted", "inline"} THEN "native" ELSE "done"
                 /\ timer[r] = "won" <=> late[r] = "none"
    /\ driver[r] \in {"deliver", "returned", "overruled"} => place[r] = "native" /\ ~Won(r)
    /\ driver[r] \in {"running", "completed"} /\ ~Won(r) => place[r] = "native" /\ ~control[r].resolved
    /\ driver[r] \in {"late", "release"} => Won(r)
    /\ driver[r] \in {"none", "gone"} /\ ~Won(r) => place[r] # "native"
    /\ driver[r] = "none" => timer[r] = "none"

\* A connection is held from the pool's answer to the end of the statement.
Held(r) ==
    /\ place[r] \in {"leased", "bound", "fallback", "checked", "session"} => handle[r] # None
    /\ driver[r] = "running" => handle[r] # None /\ ~control[r].driverCompleted
    /\ late[r] = "release" => control[r].driverCompleted

\* The stop is bound to the connection that is held, and to none outside the attempt.
Leased(r) ==
    /\ bound[r] # None => bound[r] = handle[r]
    /\ place[r] \in {"idle", "posted", "borrowing", "leased", "fallback", "delayed"} => bound[r] = None
    /\ driver[r] \in {"returned", "overruled"} => bound[r] = None

\* Another attempt is left where one is planned; a write that must not be repeated
\* is never planned again, and not executed before its statement starts.
Planned(r) ==
    /\ place[r] = "delayed" => attempt[r] < Attempts
    /\ r \in Write /\ ~RetryWrites =>
          /\ place[r] # "delayed" /\ executed[r] <= 1
          /\ place[r] \in {"idle", "posted", "borrowing", "leased", "bound", "fallback", "checked"}
                => executed[r] = 0

Local(r) == Counted(r) /\ Handshake(r) /\ Held(r) /\ Leased(r) /\ Planned(r)

\* No connection has two holders.
Exclusive ==
    \A r \in Request : handle[r] # None =>
        handle[r] \notin leaving /\ \A q \in Request \ {r} : handle[q] # handle[r]

\* The inductive invariant.
AInv == TypeOK /\ (\A r \in Request : Local(r)) /\ Exclusive

-----------------------------------------------------------------------------
(* What the helpers do.                                                    *)

\* The request is completed.
Ends(r) ==
    /\ place' = [place EXCEPT ![r] = "done"] /\ calls' = [calls EXCEPT ![r] = @ + 1]
    /\ attempt' = attempt
    /\ answer' \in [Request -> {"none", "ok", "error", "timeout", "stopped", "unknown"}]

\* Another attempt is planned.
Plans(r) ==
    /\ place' = [place EXCEPT ![r] = "delayed"] /\ attempt[r] < Attempts
    /\ (r \in Write => RetryWrites) /\ UNCHANGED <<attempt, answer, calls>>

\* Another attempt begins.
Posts(r) ==
    /\ place' = [place EXCEPT ![r] = "posted"] /\ UNCHANGED <<answer, calls>>
    /\ attempt' \in [Request -> 1 .. Attempts]
    /\ \A q \in Request \ {r} : attempt'[q] = attempt[q]

\* The completion of the client ends the request (client.cpp, submitQueryAsync()).
LEMMA CompleteEnds ==
    ASSUME TypeOK, NEW r \in Request, NEW v \in {"ok", "error", "timeout"}, Complete(r, v)
    PROVE  Ends(r)
  BY DEF TypeOK, Complete, Deliver, StopAnswer, Ends

\* The result of an attempt ends the request or plans another attempt (queryLeaf() and
\* executeLeaf()).
LEMMA OutcomeEndsOrPlans ==
    ASSUME TypeOK, NEW r \in Request, NEW v \in {"ok", "retry", "error"}, Outcome(r, v)
    PROVE  Ends(r) \/ Plans(r)
<1>1. CASE IF r \in Read THEN RetriesRead(r, v) ELSE RetriesWrite(r, v)
  BY <1>1, AsyncAssumption, Zenon DEF Outcome, Plans, RetriesRead, RetriesWrite, Request
<1>2. CASE ~IF r \in Read THEN RetriesRead(r, v) ELSE RetriesWrite(r, v)
  <2>1. Complete(r, IF v = "retry" THEN "error" ELSE v)
    BY <1>2, Zenon DEF Outcome
  <2> QED BY <2>1, CompleteEnds, Zenon
<1> QED BY <1>1, <1>2, Zenon

\* run() posts the attempt or ends the request.
LEMMA BeginPostsOrEnds ==
    ASSUME TypeOK, NEW r \in Request, NEW n \in 1 .. Attempts, Begin(r, n)
    PROVE  Posts(r) \/ Ends(r)
<1>1. CASE Complete(r, "error") BY <1>1, CompleteEnds, Zenon
<1>2. CASE ~Complete(r, "error") BY <1>2 DEF Begin, Posts, TypeOK
<1> QED BY <1>1, <1>2, Zenon

\* The two halves of TypeOK: the request's progress, and the rest.
FlowOK ==
    /\ place \in [Request -> {"idle", "posted", "borrowing", "leased", "bound", "native",
                              "fallback", "checked", "session", "delayed", "dropped", "done"}]
    /\ attempt \in [Request -> 1 .. Attempts] /\ calls \in [Request -> Nat]
    /\ answer \in [Request -> {"none", "ok", "error", "timeout", "stopped", "unknown"}]
RestOK ==
    /\ handle \in [Request -> Conn \cup {None}] /\ leaving \subseteq Conn
    /\ bound \in [Request -> Conn \cup {None}]
    /\ control \in [Request -> Flags]
    /\ driver \in [Request -> {"none", "running", "completed", "deliver", "returned", "overruled",
                               "late", "release", "gone"}]
    /\ timer \in [Request -> {"none", "unarmed", "armed", "won", "cancel", "gone"}]
    /\ late \in [Request -> {"none", "posted", "inline", "answered", "stored", "blind", "release",
                             "gone"}]
    /\ stop \in [Request -> {"live", "over", "told"}]
    /\ calling \in [Request -> SUBSET {"caller", "driver"}]
    /\ cancels \in [Request -> BOOLEAN] /\ written \in [Request -> BOOLEAN]
    /\ stopping \in BOOLEAN /\ executed \in [Request -> Nat] /\ struck \subseteq Conn

\* They are the type invariant, before a step and after it.
LEMMA TypeHalves == (TypeOK <=> FlowOK /\ RestOK) /\ (TypeOK' <=> FlowOK' /\ RestOK')
  BY Zenon DEF TypeOK, FlowOK, RestOK

\* A request moves to a place of its type.
Moves(r, p) == place' = [place EXCEPT ![r] = p] /\ UNCHANGED <<attempt, answer, calls>>

\* However a request gets on, its progress keeps its type.
LEMMA FlowTyped ==
    ASSUME FlowOK, NEW r \in Request,
           Ends(r) \/ Plans(r) \/ Posts(r)
             \/ (\E p \in {"borrowing", "dropped", "leased", "checked", "session"} : Moves(r, p))
    PROVE  FlowOK'
<1>1. CASE Ends(r) BY <1>1 DEF FlowOK, Ends
<1>2. CASE Plans(r) BY <1>2, Zenon DEF FlowOK, Plans
<1>3. CASE Posts(r) BY <1>3, Zenon DEF FlowOK, Posts
<1>4. CASE \E p \in {"borrowing", "dropped", "leased", "checked", "session"} : Moves(r, p)
  BY <1>4, Zenon DEF FlowOK, Moves
<1> QED BY <1>1, <1>2, <1>3, <1>4, Zenon

\* A flag that is set leaves the control block well-formed.
LEMMA SetTyped ==
    ASSUME RestOK, NEW r \in Request,
           Set(r, "resolved") \/ Set(r, "driverCompleted") \/ Set(r, "timeoutDelivered")
    PROVE  control' \in [Request -> Flags]
<1>1. control[r] \in Flags BY Zenon DEF RestOK
<1>2. \A f \in {"resolved", "driverCompleted", "timeoutDelivered"} :
         [control[r] EXCEPT ![f] = TRUE] \in Flags
  BY <1>1, Zenon DEF Flags
<1>3. PICK f \in {"resolved", "driverCompleted", "timeoutDelivered"} :
         control' = [control EXCEPT ![r] = [control[r] EXCEPT ![f] = TRUE]]
  BY Zenon DEF Set, RestOK
<1> QED BY <1>2, <1>3, Zenon DEF RestOK

-----------------------------------------------------------------------------
(* Every action of a request keeps the types and what is local to it.      *)

\* submitQueryAsync() and submitExecuteAsync().
LEMMA SubmitKeeps ==
    ASSUME TypeOK, NEW r \in Request, Local(r), Submit(r)
    PROVE  TypeOK' /\ Local(r)'
<1>1. Posts(r) \/ Ends(r)
  BY BeginPostsOrEnds, AsyncAssumption DEF Submit
<1>2. FlowOK'
  BY <1>1, TypeHalves, FlowTyped, Zenon
<1>3. RestOK'
  BY TypeHalves, Zenon DEF RestOK, native, signals, Submit, Local, Held
<1>4. Local(r)'
  BY <1>1, AsyncAssumption DEF TypeOK, Flags, attempts, native, signals, Local, Counted,
      Handshake, Won, Held, Leased, Planned, Ends, Plans, Posts, Moves, Submit
<1> QED BY <1>2, <1>3, <1>4, TypeHalves, Zenon

\* A delayed retry.
LEMMA RetryKeeps ==
    ASSUME TypeOK, NEW r \in Request, Local(r), Retry(r)
    PROVE  TypeOK' /\ Local(r)'
<1>0. attempt[r] + 1 \in 1 .. Attempts
  BY AsyncAssumption DEF TypeOK, Retry, Local, Planned
<1>1. Posts(r) \/ Ends(r)
  BY <1>0, BeginPostsOrEnds, Zenon DEF Retry
<1>2. FlowOK'
  BY <1>1, TypeHalves, FlowTyped, Zenon
<1>3. RestOK'
  BY TypeHalves, Zenon DEF RestOK, native, signals, Retry, Local, Held
<1>4. Local(r)'
  BY <1>1, AsyncAssumption DEF TypeOK, Flags, attempts, native, signals, Local, Counted,
      Handshake, Won, Held, Leased, Planned, Ends, Plans, Posts, Moves, Retry
<1> QED BY <1>2, <1>3, <1>4, TypeHalves, Zenon

\* The posted task of a query.
LEMMA StartReadKeeps ==
    ASSUME TypeOK, NEW r \in Request, Local(r), StartRead(r)
    PROVE  TypeOK' /\ Local(r)'
<1>1. Ends(r) \/ Moves(r, "borrowing")
  BY CompleteEnds, Zenon DEF StartRead, Moves
<1>2. FlowOK'
  BY <1>1, TypeHalves, FlowTyped, Zenon
<1>3. RestOK'
  BY TypeHalves, Zenon DEF RestOK, native, signals, StartRead, Local, Held
<1>4. Local(r)'
  BY <1>1, AsyncAssumption DEF TypeOK, Flags, attempts, native, signals, Local, Counted,
      Handshake, Won, Held, Leased, Planned, Ends, Plans, Posts, Moves, StartRead
<1> QED BY <1>2, <1>3, <1>4, TypeHalves, Zenon

\* The posted task of a write.
LEMMA StartWriteKeeps ==
    ASSUME TypeOK, NEW r \in Request, Local(r), StartWrite(r)
    PROVE  TypeOK' /\ Local(r)'
<1>1. Ends(r) \/ Moves(r, "borrowing")
  BY CompleteEnds, Zenon DEF StartWrite, Moves
<1>2. FlowOK'
  BY <1>1, TypeHalves, FlowTyped, Zenon
<1>3. RestOK'
  BY TypeHalves, Zenon DEF RestOK, native, signals, StartWrite, Local, Held
<1>4. Local(r)'
  BY <1>1, AsyncAssumption DEF TypeOK, Flags, attempts, native, signals, Local, Counted,
      Handshake, Won, Held, Leased, Planned, Ends, Plans, Posts, Moves, StartWrite
<1> QED BY <1>2, <1>3, <1>4, TypeHalves, Zenon

\* An error of the pool.
LEMMA RefusedKeeps ==
    ASSUME TypeOK, NEW r \in Request, Local(r), Refused(r)
    PROVE  TypeOK' /\ Local(r)'
<1>1. Ends(r) \/ Plans(r)
  BY CompleteEnds, OutcomeEndsOrPlans, Zenon DEF Refused
<1>2. FlowOK'
  BY <1>1, TypeHalves, FlowTyped, Zenon
<1>3. RestOK'
  BY TypeHalves, Zenon DEF RestOK, native, signals, Refused, Local, Held
<1>4. Local(r)'
  BY <1>1, AsyncAssumption DEF TypeOK, Flags, attempts, native, signals, Local, Counted,
      Handshake, Won, Held, Leased, Planned, Ends, Plans, Posts, Moves, Refused
<1> QED BY <1>2, <1>3, <1>4, TypeHalves, Zenon

\* The pool drops the completion.
LEMMA ForgottenKeeps ==
    ASSUME TypeOK, NEW r \in Request, Local(r), Forgotten(r)
    PROVE  TypeOK' /\ Local(r)'
<1>1. Moves(r, "dropped")
  BY Zenon DEF Forgotten, Moves
<1>2. FlowOK'
  BY <1>1, TypeHalves, FlowTyped, Zenon
<1>3. RestOK'
  BY TypeHalves, Zenon DEF RestOK, native, signals, Forgotten, Local, Held
<1>4. Local(r)'
  BY <1>1, AsyncAssumption DEF TypeOK, Flags, attempts, native, signals, Local, Counted,
      Handshake, Won, Held, Leased, Planned, Moves, Forgotten
<1> QED BY <1>2, <1>3, <1>4, TypeHalves, Zenon

\* A connection of the pool.
LEMMA GrantedKeeps ==
    ASSUME TypeOK, NEW r \in Request, Local(r), Granted(r)
    PROVE  TypeOK' /\ Local(r)'
<1>1. CASE Stopped(r)
  <2>1. Ends(r) BY <1>1, CompleteEnds, Zenon DEF Granted, Moves
  <2>2. FlowOK' BY <2>1, TypeHalves, FlowTyped, Zenon
  <2>3. RestOK'
    BY <1>1, TypeHalves, Zenon DEF RestOK, native, signals, Granted
  <2>4. Local(r)'
    BY <1>1, <2>1, AsyncAssumption DEF TypeOK, Flags, attempts, native, signals, Local, Counted,
        Handshake, Won, Held, Leased, Planned, Ends, Granted
  <2> QED BY <2>2, <2>3, <2>4, TypeHalves, Zenon
<1>2. CASE ~(Stopped(r))
  <2>1. Moves(r, "leased") BY <1>2, CompleteEnds, Zenon DEF Granted, Moves
  <2>2. FlowOK' BY <2>1, TypeHalves, FlowTyped, Zenon
  <2>3. RestOK'
    BY <1>2, TypeHalves DEF RestOK, native, signals, Granted
  <2>4. Local(r)'
    BY <1>2, <2>1, AsyncAssumption DEF TypeOK, Flags, attempts, native, signals, Local, Counted,
        Handshake, Won, Held, Leased, Planned, Moves, Granted
  <2> QED BY <2>2, <2>3, <2>4, TypeHalves, Zenon
<1> QED BY <1>1, <1>2, Zenon

\* A refusal by an interceptor.
LEMMA InterceptedKeeps ==
    ASSUME TypeOK, NEW r \in Request, Local(r), Intercepted(r)
    PROVE  TypeOK' /\ Local(r)'
<1>1. Ends(r)
  BY CompleteEnds, Zenon DEF Intercepted
<1>2. FlowOK'
  BY <1>1, TypeHalves, FlowTyped, Zenon
<1>3. RestOK'
  BY TypeHalves, Zenon DEF RestOK, native, signals, Intercepted, ReturnAfter, Local, Held
<1>4. Local(r)'
  BY <1>1, AsyncAssumption DEF TypeOK, Flags, attempts, native, signals, Local, Counted,
      Handshake, Won, Held, Leased, Planned, Ends, Plans, Posts, Moves, Intercepted, ReturnAfter
<1> QED BY <1>2, <1>3, <1>4, TypeHalves, Zenon

\* The binding of the stop.
LEMMA BindKeeps ==
    ASSUME TypeOK, NEW r \in Request, Local(r), Bind(r)
    PROVE  TypeOK' /\ Local(r)'
<1>1. TypeOK'
  BY AsyncAssumption, Zenon DEF TypeOK, Flags, attempts, native, signals, Bind, BindStop
<1>2. Local(r)'
  BY AsyncAssumption DEF TypeOK, Flags, attempts, native, signals, Local, Counted, Handshake,
      Won, Held, Leased, Planned, Bind, BindStop
<1> QED BY <1>1, <1>2, Zenon

\* The native start.
LEMMA StartNativeKeeps ==
    ASSUME TypeOK, NEW r \in Request, Local(r), StartNative(r)
    PROVE  TypeOK' /\ Local(r)'
<1>1. TypeOK'
  BY AsyncAssumption DEF TypeOK, Flags, attempts, native, signals, StartNative, NewControl
<1>2. Local(r)'
  BY AsyncAssumption DEF TypeOK, Flags, attempts, native, signals, Local, Counted, Handshake,
      Won, Held, Leased, Planned, StartNative, NewControl
<1> QED BY <1>1, <1>2, Zenon

\* The driver declines.
LEMMA DeclineKeeps ==
    ASSUME TypeOK, NEW r \in Request, Local(r), Decline(r)
    PROVE  TypeOK' /\ Local(r)'
<1>1. TypeOK'
  BY AsyncAssumption, Zenon DEF TypeOK, Flags, attempts, native, signals, Decline, ReleaseStop
<1>2. Local(r)'
  BY AsyncAssumption DEF TypeOK, Flags, attempts, native, signals, Local, Counted, Handshake,
      Won, Held, Leased, Planned, Decline, ReleaseStop
<1> QED BY <1>1, <1>2, Zenon

\* There is no native interface.
LEMMA NotNativeKeeps ==
    ASSUME TypeOK, NEW r \in Request, Local(r), NotNative(r)
    PROVE  TypeOK' /\ Local(r)'
<1>1. TypeOK'
  BY AsyncAssumption, Zenon DEF TypeOK, Flags, attempts, native, signals, NotNative
<1>2. Local(r)'
  BY AsyncAssumption, Zenon DEF TypeOK, Flags, attempts, native, signals, Local, Counted,
       Handshake, Won, Held, Leased, Planned, NotNative
<1> QED BY <1>1, <1>2, Zenon

\* The compatibility path begins.
LEMMA FallbackKeeps ==
    ASSUME TypeOK, NEW r \in Request, Local(r), Fallback(r)
    PROVE  TypeOK' /\ Local(r)'
<1>1. CASE r \in NativeOnly \/ Stopped(r)
  <2>0. handle[r] \in Conn BY TypeHalves DEF RestOK, Fallback, Local, Held
  <2>5. ReturnAfter(r, TRUE) BY <1>1, Zenon DEF Fallback
  <2>1. Ends(r) BY <1>1, CompleteEnds, Zenon DEF Fallback, Moves
  <2>2. FlowOK' BY <2>1, TypeHalves, FlowTyped, Zenon
  <2>3. RestOK'
    BY <1>1, <2>0, <2>5, TypeHalves, Zenon DEF RestOK, native, signals, Fallback, ReturnAfter,
         BindStop
  <2>4. Local(r)'
    BY <1>1, <2>1, AsyncAssumption DEF TypeOK, Flags, attempts, native, signals, Local, Counted,
        Handshake, Won, Held, Leased, Planned, Ends, Fallback, ReturnAfter, BindStop
  <2> QED BY <2>2, <2>3, <2>4, TypeHalves, Zenon
<1>2. CASE ~(r \in NativeOnly \/ Stopped(r))
  <2>1. Moves(r, "checked") BY <1>2, CompleteEnds, Zenon DEF Fallback, Moves
  <2>2. FlowOK' BY <2>1, TypeHalves, FlowTyped, Zenon
  <2>5. /\ BindStop(r) /\ handle[r] \in Conn
        /\ UNCHANGED <<handle, leaving, struck, native, stop, calling, stopping, executed>>
    BY <1>2, TypeHalves DEF RestOK, Fallback, Local, Held
  <2>3. RestOK' BY <2>5, TypeHalves, Zenon DEF RestOK, native, BindStop
  <2>4. Local(r)'
    BY <1>2, <2>1, AsyncAssumption DEF TypeOK, Flags, attempts, native, signals, Local, Counted,
        Handshake, Won, Held, Leased, Planned, Moves, Fallback, ReturnAfter, BindStop
  <2> QED BY <2>2, <2>3, <2>4, TypeHalves, Zenon
<1> QED BY <1>1, <1>2, Zenon

\* The session looks at the stop again.
LEMMA SessionKeeps ==
    ASSUME TypeOK, NEW r \in Request, Local(r), Session(r)
    PROVE  TypeOK' /\ Local(r)'
<1>1. CASE Stopped(r)
  <2>0. handle[r] \in Conn BY TypeHalves DEF RestOK, Session, Local, Held
  <2>5. ReturnAfter(r, TRUE) BY <1>1, Zenon DEF Session
  <2>6. ReleaseStop(r) BY <1>1, Zenon DEF Session
  <2>1. Ends(r) BY <1>1, CompleteEnds, Zenon DEF Session, Moves
  <2>2. FlowOK' BY <2>1, TypeHalves, FlowTyped, Zenon
  <2>3. RestOK'
    BY <1>1, <2>0, <2>5, <2>6, TypeHalves, Zenon DEF RestOK, native, signals, Session,
         ReturnAfter, ReleaseStop
  <2>4. Local(r)'
    BY <1>1, <2>1, AsyncAssumption DEF TypeOK, Flags, attempts, native, signals, Local, Counted,
        Handshake, Won, Held, Leased, Planned, Ends, Session, ReturnAfter, ReleaseStop
  <2> QED BY <2>2, <2>3, <2>4, TypeHalves, Zenon
<1>2. CASE ~(Stopped(r))
  <2>1. Moves(r, "session") BY <1>2, CompleteEnds, Zenon DEF Session, Moves
  <2>2. FlowOK' BY <2>1, TypeHalves, FlowTyped, Zenon
  <2>3. RestOK'
    BY <1>2, TypeHalves DEF RestOK, native, signals, Session, ReturnAfter, ReleaseStop
  <2>4. Local(r)'
    BY <1>2, <2>1, AsyncAssumption DEF TypeOK, Flags, attempts, native, signals, Local, Counted,
        Handshake, Won, Held, Leased, Planned, Moves, Session, ReturnAfter, ReleaseStop
  <2> QED BY <2>2, <2>3, <2>4, TypeHalves, Zenon
<1> QED BY <1>1, <1>2, Zenon

\* The end of a session.
LEMMA SessionEndKeeps ==
    ASSUME TypeOK, NEW r \in Request, Local(r), SessionEnd(r)
    PROVE  TypeOK' /\ Local(r)'
<1>1. Ends(r) \/ Plans(r)
  BY CompleteEnds, OutcomeEndsOrPlans, Zenon DEF SessionEnd
<1>2. FlowOK'
  BY <1>1, TypeHalves, FlowTyped, Zenon
<1>3. RestOK'
  BY TypeHalves DEF RestOK, native, signals, SessionEnd, ReturnAfter, ReleaseStop, Local, Held
<1>4. Local(r)'
  BY <1>1, AsyncAssumption DEF TypeOK, Flags, attempts, native, signals, Local, Counted,
      Handshake, Won, Held, Leased, Planned, Ends, Plans, Posts, Moves, SessionEnd, ReturnAfter,
      ReleaseStop
<1> QED BY <1>2, <1>3, <1>4, TypeHalves, Zenon

\* The driver's callback.
LEMMA DriverDoneKeeps ==
    ASSUME TypeOK, NEW r \in Request, Local(r), DriverDone(r)
    PROVE  TypeOK' /\ Local(r)'
<1>1. FlowOK' /\ RestOK'
  BY SetTyped, TypeHalves, Zenon DEF FlowOK, RestOK, attempts, signals, DriverDone, DriverAt,
       TimerAt, LateAt
<1>2. Local(r)'
  BY AsyncAssumption DEF TypeOK, Flags, attempts, native, signals, Local, Counted, Handshake,
      Won, Held, Leased, Planned, DriverDone, DriverAt, Set
<1> QED BY <1>1, <1>2, TypeHalves, Zenon

\* The callback's resolved.exchange().
LEMMA DriverResolveKeeps ==
    ASSUME TypeOK, NEW r \in Request, Local(r), DriverResolve(r)
    PROVE  TypeOK' /\ Local(r)'
<1>1. FlowOK' /\ RestOK'
  BY SetTyped, TypeHalves, Zenon DEF FlowOK, RestOK, attempts, signals, DriverResolve,
       DriverAt, TimerAt, LateAt
<1>2. Local(r)'
  BY AsyncAssumption DEF TypeOK, Flags, attempts, native, signals, Local, Counted, Handshake,
      Won, Held, Leased, Planned, DriverResolve, DriverAt, Set
<1> QED BY <1>1, <1>2, TypeHalves, Zenon

\* The delivery returns the connection.
LEMMA DeliverBackKeeps ==
    ASSUME TypeOK, NEW r \in Request, Local(r), DeliverBack(r)
    PROVE  TypeOK' /\ Local(r)'
<1>1. TypeOK'
  BY AsyncAssumption, Zenon DEF TypeOK, Flags, attempts, native, signals, DeliverBack,
       DriverAt, Return, ReleaseStop
<1>2. Local(r)'
  BY AsyncAssumption DEF TypeOK, Flags, attempts, native, signals, Local, Counted, Handshake,
      Won, Held, Leased, Planned, DeliverBack, DriverAt, Return, ReleaseStop
<1> QED BY <1>1, <1>2, Zenon

\* The delivery of a query's result.
LEMMA DeliverReadKeeps ==
    ASSUME TypeOK, NEW r \in Request, Local(r), DeliverRead(r)
    PROVE  TypeOK' /\ Local(r)'
<1>1. Ends(r) \/ Plans(r)
  BY CompleteEnds, OutcomeEndsOrPlans, Zenon DEF DeliverRead
<1>2. FlowOK'
  BY <1>1, TypeHalves, FlowTyped, Zenon
<1>3. RestOK'
  BY TypeHalves, Zenon DEF RestOK, native, signals, DeliverRead, DriverAt, Local, Held
<1>4. Local(r)'
  BY <1>1, AsyncAssumption DEF TypeOK, Flags, attempts, native, signals, Local, Counted,
      Handshake, Won, Held, Leased, Planned, Ends, Plans, Posts, Moves, DeliverRead, DriverAt
<1> QED BY <1>2, <1>3, <1>4, TypeHalves, Zenon

\* The delivery of a write's result.
LEMMA DeliverWriteKeeps ==
    ASSUME TypeOK, NEW r \in Request, Local(r), DeliverWrite(r)
    PROVE  TypeOK' /\ Local(r)'
<1>1. Ends(r) \/ Plans(r)
  BY CompleteEnds, OutcomeEndsOrPlans, Zenon DEF DeliverWrite
<1>2. FlowOK'
  BY <1>1, TypeHalves, FlowTyped, Zenon
<1>3. RestOK'
  BY TypeHalves, Zenon DEF RestOK, native, signals, DeliverWrite, DriverAt, Local, Held
<1>4. Local(r)'
  BY <1>1, AsyncAssumption DEF TypeOK, Flags, attempts, native, signals, Local, Counted,
      Handshake, Won, Held, Leased, Planned, Ends, Plans, Posts, Moves, DeliverWrite, DriverAt
<1> QED BY <1>2, <1>3, <1>4, TypeHalves, Zenon

\* A callback after the timeout.
LEMMA DriverLateKeeps ==
    ASSUME TypeOK, NEW r \in Request, Local(r), DriverLate(r)
    PROVE  TypeOK' /\ Local(r)'
<1>1. TypeOK'
  BY AsyncAssumption, Zenon DEF TypeOK, Flags, attempts, native, signals, DriverLate, DriverAt
<1>2. Local(r)'
  BY AsyncAssumption DEF TypeOK, Flags, attempts, native, signals, Local, Counted, Handshake,
      Won, Held, Leased, Planned, DriverLate, DriverAt
<1> QED BY <1>1, <1>2, Zenon

\* A late callback returns the connection.
LEMMA LateReleaseKeeps ==
    ASSUME TypeOK, NEW r \in Request, Local(r), LateRelease(r)
    PROVE  TypeOK' /\ Local(r)'
<1>1. TypeOK'
  BY AsyncAssumption, Zenon DEF TypeOK, Flags, attempts, native, signals, LateRelease,
       DriverAt, Return, ReleaseStop
<1>2. Local(r)'
  BY AsyncAssumption DEF TypeOK, Flags, attempts, native, signals, Local, Counted, Handshake,
      Won, Held, Leased, Planned, LateRelease, DriverAt, Return, ReleaseStop
<1> QED BY <1>1, <1>2, Zenon

\* The timer is set.
LEMMA ArmKeeps ==
    ASSUME TypeOK, NEW r \in Request, Local(r), Arm(r)
    PROVE  TypeOK' /\ Local(r)'
<1>1. TypeOK'
  BY AsyncAssumption, Zenon DEF TypeOK, Flags, attempts, native, signals, Arm, TimerAt
<1>2. Local(r)'
  BY AsyncAssumption, Zenon DEF TypeOK, Flags, attempts, native, signals, Local, Counted,
       Handshake, Won, Held, Leased, Planned, Arm, TimerAt
<1> QED BY <1>1, <1>2, Zenon

\* The timeout's resolved.exchange().
LEMMA FireKeeps ==
    ASSUME TypeOK, NEW r \in Request, Local(r), Fire(r)
    PROVE  TypeOK' /\ Local(r)'
<1>1. FlowOK' /\ RestOK'
  BY SetTyped, TypeHalves, Zenon DEF FlowOK, RestOK, attempts, signals, Fire, DriverAt,
       TimerAt, LateAt
<1>2. Local(r)'
  BY AsyncAssumption DEF TypeOK, Flags, attempts, native, signals, Local, Counted, Handshake,
      Won, Held, Leased, Planned, Fire, TimerAt, Set
<1> QED BY <1>1, <1>2, TypeHalves, Zenon

\* deliverTimeout() is posted.
LEMMA PostTimeoutKeeps ==
    ASSUME TypeOK, NEW r \in Request, Local(r), PostTimeout(r)
    PROVE  TypeOK' /\ Local(r)'
<1>1. TypeOK'
  BY AsyncAssumption, Zenon DEF TypeOK, Flags, attempts, native, signals, PostTimeout,
       TimerAt, LateAt
<1>2. Local(r)'
  BY AsyncAssumption DEF TypeOK, Flags, attempts, native, signals, Local, Counted, Handshake,
      Won, Held, Leased, Planned, PostTimeout, TimerAt, LateAt
<1> QED BY <1>1, <1>2, Zenon

\* The timeout cancels the statement.
LEMMA CancelKeeps ==
    ASSUME TypeOK, NEW r \in Request, Local(r), Cancel(r)
    PROVE  TypeOK' /\ Local(r)'
<1>1. TypeOK'
  BY AsyncAssumption, Zenon DEF TypeOK, Flags, attempts, native, signals, Cancel, TimerAt,
       LateAt
<1>2. Local(r)'
  BY AsyncAssumption DEF TypeOK, Flags, attempts, native, signals, Local, Counted, Handshake,
      Won, Held, Leased, Planned, Cancel, TimerAt, LateAt
<1> QED BY <1>1, <1>2, Zenon

\* deliverTimeout() completes the request.
LEMMA TimeoutAnswerKeeps ==
    ASSUME TypeOK, NEW r \in Request, Local(r), TimeoutAnswer(r)
    PROVE  TypeOK' /\ Local(r)'
<1>1. Ends(r)
  BY CompleteEnds, Zenon DEF TimeoutAnswer
<1>2. FlowOK'
  BY <1>1, TypeHalves, FlowTyped, Zenon
<1>3. RestOK'
  BY TypeHalves, Zenon DEF RestOK, native, signals, TimeoutAnswer, LateAt, Local, Held
<1>4. Local(r)'
  BY <1>1, AsyncAssumption DEF TypeOK, Flags, attempts, native, signals, Local, Counted,
       Handshake, Won, Held, Leased, Planned, Ends, Plans, Posts, Moves, TimeoutAnswer, LateAt
<1> QED BY <1>2, <1>3, <1>4, TypeHalves, Zenon

\* The store of timeoutDelivered.
LEMMA TimeoutStoreKeeps ==
    ASSUME TypeOK, NEW r \in Request, Local(r), TimeoutStore(r)
    PROVE  TypeOK' /\ Local(r)'
<1>1. FlowOK' /\ RestOK'
  BY SetTyped, TypeHalves, Zenon DEF FlowOK, RestOK, attempts, signals, TimeoutStore,
       DriverAt, TimerAt, LateAt
<1>2. Local(r)'
  BY AsyncAssumption DEF TypeOK, Flags, attempts, native, signals, Local, Counted, Handshake,
      Won, Held, Leased, Planned, TimeoutStore, LateAt, Set
<1> QED BY <1>1, <1>2, TypeHalves, Zenon

\* The load of driverCompleted.
LEMMA TimeoutLoadKeeps ==
    ASSUME TypeOK, NEW r \in Request, Local(r), TimeoutLoad(r)
    PROVE  TypeOK' /\ Local(r)'
<1>1. TypeOK'
  BY AsyncAssumption, Zenon DEF TypeOK, Flags, attempts, native, signals, TimeoutLoad, LateAt,
       Set
<1>2. Local(r)'
  BY AsyncAssumption DEF TypeOK, Flags, attempts, native, signals, Local, Counted, Handshake,
      Won, Held, Leased, Planned, TimeoutLoad, LateAt, Set
<1> QED BY <1>1, <1>2, Zenon

\* The load, done before the store.
LEMMA TimeoutLoadEarlyKeeps ==
    ASSUME TypeOK, NEW r \in Request, Local(r), TimeoutLoadEarly(r)
    PROVE  TypeOK' /\ Local(r)'
<1>1. TypeOK'
  BY AsyncAssumption, Zenon DEF TypeOK, Flags, attempts, native, signals, TimeoutLoadEarly,
       LateAt, Set
<1>2. Local(r)'
  BY AsyncAssumption DEF TypeOK, Flags, attempts, native, signals, Local, Counted, Handshake,
      Won, Held, Leased, Planned, TimeoutLoadEarly, LateAt, Set
<1> QED BY <1>1, <1>2, Zenon

\* The store, done after the load.
LEMMA TimeoutStoreLateKeeps ==
    ASSUME TypeOK, NEW r \in Request, Local(r), TimeoutStoreLate(r)
    PROVE  TypeOK' /\ Local(r)'
<1>1. FlowOK' /\ RestOK'
  BY SetTyped, TypeHalves, Zenon DEF FlowOK, RestOK, attempts, signals, TimeoutStoreLate,
       DriverAt, TimerAt, LateAt
<1>2. Local(r)'
  BY AsyncAssumption DEF TypeOK, Flags, attempts, native, signals, Local, Counted, Handshake,
      Won, Held, Leased, Planned, TimeoutStoreLate, LateAt, Set
<1> QED BY <1>1, <1>2, TypeHalves, Zenon

\* deliverTimeout() returns the connection.
LEMMA TimeoutReleaseKeeps ==
    ASSUME TypeOK, NEW r \in Request, Local(r), TimeoutRelease(r)
    PROVE  TypeOK' /\ Local(r)'
<1>1. TypeOK'
  BY AsyncAssumption, Zenon DEF TypeOK, Flags, attempts, native, signals, TimeoutRelease,
       LateAt, Return, ReleaseStop
<1>2. Local(r)'
  BY AsyncAssumption DEF TypeOK, Flags, attempts, native, signals, Local, Counted, Handshake,
      Won, Held, Leased, Planned, TimeoutRelease, LateAt, Return, ReleaseStop
<1> QED BY <1>1, <1>2, Zenon

\* The last callback lets go of the connection.
LEMMA DropKeeps ==
    ASSUME TypeOK, NEW r \in Request, Local(r), Drop(r)
    PROVE  TypeOK' /\ Local(r)'
<1>1. TypeOK'
  BY AsyncAssumption, Zenon DEF TypeOK, Flags, attempts, native, signals, Drop, Return,
       ReleaseStop
<1>2. Local(r)'
  BY AsyncAssumption, Zenon DEF TypeOK, Flags, attempts, native, signals, Local, Counted,
       Handshake, Won, Held, Leased, Planned, Drop, Return, ReleaseStop
<1> QED BY <1>1, <1>2, Zenon

\* The stop takes effect.
LEMMA StopBeginsKeeps ==
    ASSUME TypeOK, NEW r \in Request, Local(r), StopBegins(r)
    PROVE  TypeOK' /\ Local(r)'
<1>1. TypeOK'
  BY AsyncAssumption, Zenon DEF TypeOK, Flags, attempts, native, signals, StopBegins
<1>2. Local(r)'
  BY AsyncAssumption DEF TypeOK, Flags, attempts, native, signals, Local, Counted, Handshake,
      Won, Held, Leased, Planned, StopBegins
<1> QED BY <1>1, <1>2, Zenon

\* StopSignal::request().
LEMMA StopRequestKeeps ==
    ASSUME TypeOK, NEW r \in Request, Local(r), StopRequest(r)
    PROVE  TypeOK' /\ Local(r)'
<1>1. TypeOK'
  BY AsyncAssumption, Zenon DEF TypeOK, Flags, attempts, native, signals, StopRequest
<1>2. Local(r)'
  BY AsyncAssumption DEF TypeOK, Flags, attempts, native, signals, Local, Counted, Handshake,
      Won, Held, Leased, Planned, StopRequest
<1> QED BY <1>1, <1>2, Zenon

\* The stop posts a cancellation.
LEMMA StopDriverKeeps ==
    ASSUME TypeOK, NEW r \in Request, Local(r), StopDriver(r)
    PROVE  TypeOK' /\ Local(r)'
<1>1. TypeOK'
  BY AsyncAssumption, Zenon DEF TypeOK, Flags, attempts, native, signals, StopDriver
<1>2. Local(r)'
  BY AsyncAssumption DEF TypeOK, Flags, attempts, native, signals, Local, Counted, Handshake,
      Won, Held, Leased, Planned, StopDriver
<1> QED BY <1>1, <1>2, Zenon

\* The stop reaches the caller.
LEMMA StopCallerKeeps ==
    ASSUME TypeOK, NEW r \in Request, Local(r), StopCaller(r)
    PROVE  TypeOK' /\ Local(r)'
<1>1. TypeOK'
  BY AsyncAssumption, Zenon DEF TypeOK, Flags, attempts, native, signals, StopCaller, Deliver,
       StopAnswer
<1>2. Local(r)'
  BY AsyncAssumption DEF TypeOK, Flags, attempts, native, signals, Local, Counted, Handshake,
      Won, Held, Leased, Planned, StopCaller, Deliver, StopAnswer
<1> QED BY <1>1, <1>2, Zenon

-----------------------------------------------------------------------------
(* What a step of one request leaves alone.                                *)

\* Nothing that is local to a request changes.
Same(q) ==
    /\ place'[q] = place[q] /\ attempt'[q] = attempt[q] /\ calls'[q] = calls[q]
    /\ handle'[q] = handle[q] /\ bound'[q] = bound[q] /\ executed'[q] = executed[q]
    /\ control'[q] = control[q] /\ driver'[q] = driver[q]
    /\ timer'[q] = timer[q] /\ late'[q] = late[q]

\* What a step may do to the connections: nothing, take a free one, or give one back.
HandsOver(r) ==
    \/ handle' = handle /\ leaving' \subseteq leaving
    \/ handle' = handle /\ \E c \in Conn : /\ leaving' = leaving \cup {c}
                                           /\ \A q \in Request : handle[q] # c
    \/ \E c \in Conn \ leaving : /\ handle' = [handle EXCEPT ![r] = c] /\ leaving' = leaving
                                 /\ \A q \in Request : handle[q] # c
    \/ handle' = [handle EXCEPT ![r] = None] /\ leaving' \subseteq leaving \cup {handle[r]}

\* A step of one request as a disjunction.
Step(r) ==
    \/ Submit(r) \/ Attempt(r) \/ Database(r) \/ Callback(r) \/ Expiry(r) \/ Drop(r)
    \/ StopBegins(r) \/ Signal(r)

\* What is local to another request is left alone, and so are its connections.
LEMMA StepFrame ==
    ASSUME TypeOK, NEW r \in Request, Step(r), Local(r)
    PROVE  (\A q \in Request \ {r} : Same(q)) /\ HandsOver(r)
<1>1. CASE Submit(r)
  <2>1. Posts(r) \/ Ends(r) BY <1>1, BeginPostsOrEnds, AsyncAssumption DEF Submit
  <2>2. \A q \in Request \ {r} : Same(q)
    BY <1>1, <2>1 DEF TypeOK, Same, native, signals, Ends, Posts, Submit
  <2>3. HandsOver(r) BY <1>1, Zenon DEF TypeOK, HandsOver, Submit
  <2> QED BY <2>2, <2>3, Zenon
<1>2. CASE Retry(r)
  <2>0. attempt[r] + 1 \in 1 .. Attempts
    BY <1>2, AsyncAssumption DEF TypeOK, Retry, Local, Planned
  <2>1. Posts(r) \/ Ends(r) BY <1>2, <2>0, BeginPostsOrEnds, Zenon DEF Retry
  <2>2. \A q \in Request \ {r} : Same(q)
    BY <1>2, <2>1 DEF TypeOK, Same, native, signals, Ends, Posts, Retry
  <2>3. HandsOver(r) BY <1>2, Zenon DEF TypeOK, HandsOver, Retry
  <2> QED BY <2>2, <2>3, Zenon
<1>3. CASE StartRead(r)
  <2>1. Ends(r) \/ Moves(r, "borrowing") BY <1>3, CompleteEnds, Zenon DEF StartRead, Moves
  <2>2. \A q \in Request \ {r} : Same(q)
    BY <1>3, <2>1 DEF TypeOK, Same, native, signals, Ends, Moves, StartRead
  <2>3. HandsOver(r) BY <1>3, Zenon DEF TypeOK, HandsOver, StartRead
  <2> QED BY <2>2, <2>3, Zenon
<1>4. CASE StartWrite(r)
  <2>1. Ends(r) \/ Moves(r, "borrowing") BY <1>4, CompleteEnds, Zenon DEF StartWrite, Moves
  <2>2. \A q \in Request \ {r} : Same(q)
    BY <1>4, <2>1 DEF TypeOK, Same, native, signals, Ends, Moves, StartWrite
  <2>3. HandsOver(r) BY <1>4, Zenon DEF TypeOK, HandsOver, StartWrite
  <2> QED BY <2>2, <2>3, Zenon
<1>5. CASE Refused(r)
  <2>1. Ends(r) \/ Plans(r) BY <1>5, CompleteEnds, OutcomeEndsOrPlans, Zenon DEF Refused
  <2>2. \A q \in Request \ {r} : Same(q)
    BY <1>5, <2>1 DEF TypeOK, Same, native, signals, Ends, Plans, Refused
  <2>3. HandsOver(r) BY <1>5, Zenon DEF TypeOK, HandsOver, Refused
  <2> QED BY <2>2, <2>3, Zenon
<1>6. CASE Granted(r)
  <2>1. Ends(r) \/ Moves(r, "leased") BY <1>6, CompleteEnds, Zenon DEF Granted, Moves
  <2>a. \A q \in Request \ {r} : handle'[q] = handle[q] BY <1>6, Zenon DEF TypeOK, Granted
  <2>b. UNCHANGED <<native, signals, executed>> BY <1>6, Zenon DEF Granted
  <2>2. \A q \in Request \ {r} : Same(q)
    BY <2>1, <2>a, <2>b DEF TypeOK, Same, native, signals, Ends, Moves
  <2>3. HandsOver(r)
    <3>1. PICK c \in Conn \ leaving :
             /\ \A q \in Request : handle[q] # c
             /\ \/ handle' = handle /\ leaving' = leaving \cup {c}
                \/ handle' = [handle EXCEPT ![r] = c] /\ leaving' = leaving
      BY <1>6, Zenon DEF Granted
    <3> QED BY <3>1, Zenon DEF HandsOver
  <2> QED BY <2>2, <2>3, Zenon
<1>7. CASE Intercepted(r)
  <2>1. Ends(r) BY <1>7, CompleteEnds, Zenon DEF Intercepted
  <2>2. \A q \in Request \ {r} : Same(q)
    BY <1>7, <2>1 DEF TypeOK, Same, native, signals, Ends, Intercepted, ReturnAfter
  <2>3. HandsOver(r) BY <1>7, Zenon DEF TypeOK, HandsOver, Intercepted, ReturnAfter
  <2> QED BY <2>2, <2>3, Zenon
<1>8. CASE Bind(r)
  BY <1>8, Zenon DEF TypeOK, Same, HandsOver, attempts, native, signals, Bind, BindStop
<1>9. CASE StartNative(r)
  BY <1>9 DEF TypeOK, Same, HandsOver, attempts, native, signals, StartNative
<1>10. CASE Decline(r)
  BY <1>10, Zenon DEF TypeOK, Same, HandsOver, attempts, native, signals, Decline, ReleaseStop
<1>11. CASE NotNative(r)
  BY <1>11, Zenon DEF TypeOK, Same, HandsOver, attempts, native, signals, NotNative
<1>12. CASE Fallback(r)
  <2>1. Ends(r) \/ Moves(r, "checked") BY <1>12, CompleteEnds, Zenon DEF Fallback, Moves
  <2>2. \A q \in Request \ {r} : Same(q)
    BY <1>12, <2>1 DEF TypeOK, Same, native, signals, Ends, Moves, Fallback, ReturnAfter,
        BindStop
  <2>3. HandsOver(r) BY <1>12 DEF TypeOK, HandsOver, Fallback, ReturnAfter
  <2> QED BY <2>2, <2>3, Zenon
<1>13. CASE Session(r)
  <2>1. Ends(r) \/ Moves(r, "session") BY <1>13, CompleteEnds, Zenon DEF Session, Moves
  <2>2. \A q \in Request \ {r} : Same(q)
    BY <1>13, <2>1 DEF TypeOK, Same, native, signals, Ends, Moves, Session, ReturnAfter,
        ReleaseStop
  <2>3. HandsOver(r) BY <1>13 DEF TypeOK, HandsOver, Session, ReturnAfter
  <2> QED BY <2>2, <2>3, Zenon
<1>14. CASE SessionEnd(r)
  <2>1. Ends(r) \/ Plans(r) BY <1>14, CompleteEnds, OutcomeEndsOrPlans, Zenon DEF SessionEnd
  <2>2. \A q \in Request \ {r} : Same(q)
    BY <1>14, <2>1 DEF TypeOK, Same, native, signals, Ends, Plans, SessionEnd, ReturnAfter,
        ReleaseStop
  <2>3. HandsOver(r) BY <1>14, Zenon DEF TypeOK, HandsOver, SessionEnd, ReturnAfter
  <2> QED BY <2>2, <2>3, Zenon
<1>15. CASE DriverDone(r)
  BY <1>15, Zenon DEF TypeOK, Same, HandsOver, attempts, native, signals, DriverDone,
       DriverAt, Set
<1>16. CASE DriverResolve(r)
  BY <1>16, Zenon DEF TypeOK, Same, HandsOver, attempts, native, signals, DriverResolve,
       DriverAt, Set
<1>17. CASE DeliverBack(r)
  BY <1>17 DEF TypeOK, Same, HandsOver, attempts, native, signals, DeliverBack, DriverAt,
      Return, ReleaseStop
<1>18. CASE DeliverRead(r)
  <2>1. Ends(r) \/ Plans(r) BY <1>18, CompleteEnds, OutcomeEndsOrPlans, Zenon DEF DeliverRead
  <2>2. \A q \in Request \ {r} : Same(q)
    BY <1>18, <2>1 DEF TypeOK, Same, native, signals, Ends, Plans, DeliverRead, DriverAt
  <2>3. HandsOver(r) BY <1>18, Zenon DEF TypeOK, HandsOver, DeliverRead
  <2> QED BY <2>2, <2>3, Zenon
<1>19. CASE DeliverWrite(r)
  <2>1. Ends(r) \/ Plans(r) BY <1>19, CompleteEnds, OutcomeEndsOrPlans, Zenon DEF DeliverWrite
  <2>2. \A q \in Request \ {r} : Same(q)
    BY <1>19, <2>1 DEF TypeOK, Same, native, signals, Ends, Plans, DeliverWrite, DriverAt
  <2>3. HandsOver(r) BY <1>19, Zenon DEF TypeOK, HandsOver, DeliverWrite
  <2> QED BY <2>2, <2>3, Zenon
<1>20. CASE DriverLate(r)
  BY <1>20, Zenon DEF TypeOK, Same, HandsOver, attempts, native, signals, DriverLate, DriverAt
<1>21. CASE LateRelease(r)
  BY <1>21 DEF TypeOK, Same, HandsOver, attempts, native, signals, LateRelease, DriverAt,
       Return, ReleaseStop
<1>22. CASE Arm(r)
  BY <1>22, Zenon DEF TypeOK, Same, HandsOver, attempts, native, signals, Arm, TimerAt
<1>23. CASE Fire(r)
  BY <1>23 DEF TypeOK, Same, HandsOver, attempts, native, signals, Fire, TimerAt, Set
<1>24. CASE PostTimeout(r)
  BY <1>24, Zenon DEF TypeOK, Same, HandsOver, attempts, native, signals, PostTimeout,
       TimerAt, LateAt
<1>25. CASE Cancel(r)
  BY <1>25 DEF TypeOK, Same, HandsOver, attempts, native, signals, Cancel, TimerAt, LateAt
<1>26. CASE TimeoutAnswer(r)
  <2>1. Ends(r) BY <1>26, CompleteEnds, Zenon DEF TimeoutAnswer
  <2>2. \A q \in Request \ {r} : Same(q)
    BY <1>26, <2>1 DEF TypeOK, Same, native, signals, Ends, TimeoutAnswer, LateAt
  <2>3. HandsOver(r) BY <1>26, Zenon DEF TypeOK, HandsOver, TimeoutAnswer
  <2> QED BY <2>2, <2>3, Zenon
<1>27. CASE TimeoutStore(r)
  BY <1>27 DEF TypeOK, Same, HandsOver, attempts, native, signals, TimeoutStore, LateAt, Set
<1>28. CASE TimeoutLoad(r)
  BY <1>28 DEF TypeOK, Same, HandsOver, attempts, native, signals, TimeoutLoad, LateAt
<1>29. CASE TimeoutLoadEarly(r)
  BY <1>29 DEF TypeOK, Same, HandsOver, attempts, native, signals, TimeoutLoadEarly, LateAt
<1>30. CASE TimeoutStoreLate(r)
  BY <1>30 DEF TypeOK, Same, HandsOver, attempts, native, signals, TimeoutStoreLate, LateAt, Set
<1>31. CASE TimeoutRelease(r)
  BY <1>31 DEF TypeOK, Same, HandsOver, attempts, native, signals, TimeoutRelease, LateAt,
       Return, ReleaseStop
<1>32. CASE Drop(r)
  BY <1>32, Zenon DEF TypeOK, Same, HandsOver, attempts, native, signals, Drop, Return,
       ReleaseStop
<1>33. CASE StopBegins(r)
  BY <1>33, Zenon DEF TypeOK, Same, HandsOver, attempts, native, signals, StopBegins
<1>34. CASE StopRequest(r)
  BY <1>34, Zenon DEF TypeOK, Same, HandsOver, attempts, native, signals, StopRequest
<1>35. CASE StopCaller(r)
  BY <1>35, Zenon DEF TypeOK, Same, HandsOver, attempts, native, signals, StopCaller
<1>36. CASE StopDriver(r)
  BY <1>36, Zenon DEF TypeOK, Same, HandsOver, attempts, native, signals, StopDriver
<1>41. CASE Forgotten(r)
  BY <1>41, Zenon DEF TypeOK, Same, HandsOver, attempts, native, signals, Forgotten
<1>37. CASE Attempt(r)
  BY <1>37, <1>2, <1>3, <1>4, <1>5, <1>6, <1>7, <1>8, <1>9, <1>10, <1>11, <1>12, <1>13, <1>41,
      Zenon DEF Attempt
<1>42. CASE Database(r) BY <1>42, <1>14, <1>15, Zenon DEF Database
<1>38. CASE Callback(r)
  BY <1>38, <1>16, <1>17, <1>18, <1>19, <1>20, <1>21, Zenon DEF Callback
<1>39. CASE Expiry(r)
  BY <1>39, <1>22, <1>23, <1>24, <1>25, <1>26, <1>27, <1>28, <1>29, <1>30, <1>31, Zenon
  DEF Expiry
<1>40. CASE Signal(r) BY <1>40, <1>34, <1>35, <1>36, Zenon DEF Signal
<1> QED BY <1>1, <1>42, <1>32, <1>33, <1>37, <1>38, <1>39, <1>40, Zenon DEF Step

\* A step of one request keeps the types and what is local to it.
LEMMA StepKeeps ==
    ASSUME TypeOK, NEW r \in Request, Step(r), Local(r)
    PROVE  TypeOK' /\ Local(r)'
<1>1. CASE Attempt(r)
  BY <1>1, RetryKeeps, StartReadKeeps, StartWriteKeeps, RefusedKeeps, ForgottenKeeps, GrantedKeeps,
      InterceptedKeeps, BindKeeps, StartNativeKeeps, DeclineKeeps, NotNativeKeeps,
      FallbackKeeps, SessionKeeps, Zenon DEF Attempt
<1>2. CASE Callback(r)
  BY <1>2, DriverResolveKeeps, DeliverBackKeeps, DeliverReadKeeps, DeliverWriteKeeps,
      DriverLateKeeps, LateReleaseKeeps, Zenon DEF Callback
<1>3. CASE Expiry(r)
  BY <1>3, ArmKeeps, FireKeeps, PostTimeoutKeeps, CancelKeeps, TimeoutAnswerKeeps,
      TimeoutStoreKeeps, TimeoutLoadKeeps, TimeoutLoadEarlyKeeps, TimeoutStoreLateKeeps,
      TimeoutReleaseKeeps, Zenon DEF Expiry
<1>4. CASE Signal(r)
  BY <1>4, StopRequestKeeps, StopCallerKeeps, StopDriverKeeps, Zenon DEF Signal
<1> QED
  BY <1>1, <1>2, <1>3, <1>4, SubmitKeeps, DriverDoneKeeps, SessionEndKeeps, DropKeeps,
     StopBeginsKeeps, Zenon DEF Step, Database

\* What is left alone stays true.
LEMMA SameLocal == ASSUME NEW q \in Request, Local(q), Same(q) PROVE Local(q)'
<1>1. Counted(q)' BY Zenon DEF Local, Counted, Same
<1>2. Handshake(q)' BY Zenon DEF Local, Handshake, Won, Same
<1>3. Held(q)' BY Zenon DEF Local, Held, Same
<1>4. Leased(q)' BY Zenon DEF Local, Leased, Same
<1>5. Planned(q)' BY Zenon DEF Local, Planned, Same
<1> QED BY <1>1, <1>2, <1>3, <1>4, <1>5, Zenon DEF Local

\* No hand-over gives a connection two holders.
LEMMA HandsOverExclusive ==
    ASSUME TypeOK, Exclusive, NEW r \in Request, HandsOver(r)
    PROVE  Exclusive'
<1>1. CASE handle' = handle /\ leaving' \subseteq leaving
  BY <1>1, Zenon DEF Exclusive
<1>2. CASE handle' = handle /\ \E c \in Conn : /\ leaving' = leaving \cup {c}
                                               /\ \A q \in Request : handle[q] # c
  BY <1>2, Zenon DEF Exclusive
<1>3. CASE \E c \in Conn \ leaving : /\ handle' = [handle EXCEPT ![r] = c] /\ leaving' = leaving
                                     /\ \A q \in Request : handle[q] # c
  BY <1>3 DEF Exclusive, TypeOK
<1>4. CASE handle' = [handle EXCEPT ![r] = None] /\ leaving' \subseteq leaving \cup {handle[r]}
  BY <1>4 DEF Exclusive, TypeOK
<1> QED BY <1>1, <1>2, <1>3, <1>4, Zenon DEF HandsOver

-----------------------------------------------------------------------------
(* The invariant.                                                          *)

\* Nothing has been submitted at first.
LEMMA InitAInv == Init => AInv
<1> SUFFICES ASSUME Init PROVE AInv BY Zenon
<1>0. NewControl \in Flags /\ 1 \in 1 .. Attempts
  BY AsyncAssumption DEF NewControl, Flags
<1>1. TypeOK BY <1>0, Zenon DEF Init, TypeOK
<1>2. \A r \in Request : Local(r)
  BY DEF Init, NewControl, Local, Counted, Handshake, Won, Held, Leased, Planned
<1>3. Exclusive BY Zenon DEF Init, Exclusive
<1> QED BY <1>1, <1>2, <1>3, Zenon DEF AInv

\* Every step keeps the invariant.
LEMMA NextAInv == AInv /\ [Next]_vars => AInv'
<1> SUFFICES ASSUME AInv, [Next]_vars PROVE AInv' BY Zenon
<1> USE DEF AInv
<1>1. ASSUME NEW r \in Request, Step(r) PROVE AInv'
  <2>1. TypeOK' /\ Local(r)' BY <1>1, StepKeeps, Zenon
  <2>2. (\A q \in Request \ {r} : Same(q)) /\ HandsOver(r) BY <1>1, StepFrame, Zenon
  <2>3. \A q \in Request : Local(q)' BY <2>1, <2>2, SameLocal, Zenon
  <2>4. Exclusive' BY <2>2, HandsOverExclusive, Zenon
  <2> QED BY <2>1, <2>3, <2>4, Zenon
<1>2. ASSUME NEW r \in Request, StopCancel(r) PROVE AInv'
  <2>1. struck' \subseteq Conn
    BY <1>2 DEF StopCancel, Running, TypeOK, Local, Held
  <2>2. TypeOK'
    <3>1. FlowOK' BY <1>2, TypeHalves, Zenon DEF FlowOK, StopCancel, attempts
    <3>2. RestOK' BY <1>2, <2>1, TypeHalves, Zenon DEF RestOK, StopCancel, attempts, native
    <3> QED BY <3>1, <3>2, TypeHalves, Zenon
  <2>3. \A q \in Request : Same(q) BY <1>2, Zenon DEF StopCancel, attempts, native, Same
  <2>4. Exclusive' BY <1>2, Zenon DEF StopCancel, attempts, Exclusive
  <2> QED BY <2>2, <2>3, <2>4, SameLocal, Zenon
<1>3. ASSUME NEW c \in Conn, Leave(c) PROVE AInv'
  <2>1. TypeOK'
    <3>1. FlowOK' BY <1>3, TypeHalves, Zenon DEF FlowOK, Leave
    <3>2. RestOK' BY <1>3, TypeHalves, Zenon DEF RestOK, Leave, native, signals
    <3> QED BY <3>1, <3>2, TypeHalves, Zenon
  <2>2. \A q \in Request : Same(q) BY <1>3, Zenon DEF Leave, native, signals, Same
  <2>3. Exclusive' BY <1>3, Zenon DEF Leave, Exclusive
  <2> QED BY <2>1, <2>2, <2>3, SameLocal, Zenon
<1>4. CASE Shutdown \/ UNCHANGED vars
  <2>1. TypeOK'
    <3>1. FlowOK' BY <1>4, TypeHalves, Zenon DEF FlowOK, Shutdown, vars, attempts
    <3>2. stopping' \in BOOLEAN
      BY <1>4, TypeHalves, Zenon DEF RestOK, Shutdown, vars
    <3>3. UNCHANGED <<handle, leaving, native, signals, executed, struck>>
      BY <1>4, Zenon DEF Shutdown, vars, attempts, native, signals
    <3>4. RestOK' BY <3>2, <3>3, TypeHalves, Zenon DEF RestOK, native, signals
    <3> QED BY <3>1, <3>4, TypeHalves, Zenon
  <2>2. \A q \in Request : Same(q)
    BY <1>4, Zenon DEF Shutdown, vars, attempts, native, signals, Same
  <2>3. Exclusive' BY <1>4, Zenon DEF Shutdown, vars, attempts, Exclusive
  <2> QED BY <2>1, <2>2, <2>3, SameLocal, Zenon
<1> QED BY <1>1, <1>2, <1>3, <1>4, Zenon DEF Next, Step

\* The invariant holds in every reachable state.
THEOREM AsyncInvariant == Spec => []AInv
  BY InitAInv, NextAInv, PTL DEF Spec

\* Every variable keeps its type; in particular no retry exceeds max_attempts
\* (queryLeaf() and executeLeaf()).
THEOREM AsyncTyped == Spec => []TypeOK
<1>1. AInv => TypeOK BY Zenon DEF AInv
<1> QED BY <1>1, AsyncInvariant, PTL

\* However driver, timeout, stop and shutdown interleave, the completion of a request is
\* called at most once (resolved.exchange() in queryOne()).
THEOREM CompletedOnce == Spec => []CompletesOnce
<1>1. AInv => CompletesOnce BY DEF AInv, Local, Counted, CompletesOnce
<1> QED BY <1>1, AsyncInvariant, PTL

\* A connection with a running statement is held by its request alone (queryOne(),
\* executeOne() and the compatibility path).
THEOREM BorrowedThroughout == Spec => []BorrowedWhileRunning
<1>1. AInv => BorrowedWhileRunning
  BY Zenon DEF AInv, Local, Held, Exclusive, BorrowedWhileRunning, Running
<1> QED BY <1>1, AsyncInvariant, PTL

\* A cancellation of a stop never reaches a connection that its request has given back
\* (OperationState::bind() and the release of its lease).
THEOREM CancelsOnlyOwn == Spec => []CancelsOwnConnection
<1>1. AInv => CancelsOwnConnection BY Zenon DEF AInv, Local, Leased, CancelsOwnConnection
<1> QED BY <1>1, AsyncInvariant, PTL

\* A write that must not be repeated is executed at most once (executeLeaf()).
THEOREM WritesNotRepeated == Spec => []WriteNotRepeated
<1>1. AInv => WriteNotRepeated
  BY Zenon DEF AInv, Local, Planned, WriteNotRepeated, Request
<1> QED BY <1>1, AsyncInvariant, PTL
===============================================================================
