------------------------------- MODULE Lifecycle -------------------------------
(***************************************************************************)
(* Client and DatabaseManager: init, reload, adding and removing sources    *)
(* and groups at run time, shutdown and destruction, against asynchronous   *)
(* requests, the heartbeat thread, the statistics thread and readers of the *)
(* pool metrics.                                                            *)
(*                                                                         *)
(* A leaf source and its pool are one object, named by a number; a group    *)
(* and its write buffer likewise.  One action is one critical section of    *)
(* DatabaseManager::mtx_ or one access to other shared state.  mtx is a     *)
(* variable because one section joins a thread while it holds the lock.     *)
(* A call that is refused before it changes anything is left out; so are    *)
(* the settings of the runtime services and the rate limiters that init()   *)
(* hands out.                                                               *)
(***************************************************************************)
EXTENDS Naturals, Sequences, FiniteSets

CONSTANTS
    Caller,    \* threads that administer the client
    Request,   \* asynchronous statements
    Leaf,      \* names of plain data sources
    Group,     \* names of groups
    NoName,    \* the empty name
    Configs,   \* configurations for init() and reload()
    Additions, \* group configurations for addGroup()
    MaxCalls,  \* bound on administrative calls
    MaxPools   \* bound on pools ever built

Sampler == {"reporter", "reader"}

\* What a configuration says, once it has been parsed: a group refers to plain
\* sources, its shadow is a name yet to be looked up.
GroupConfig ==
    [name : Group, primary : Leaf, replicas : SUBSET Leaf, failover : SUBSET Leaf,
     shadow : Leaf \cup Group \cup {NoName}, buffer : BOOLEAN, acknowledged : BOOLEAN,
     readOnly : BOOLEAN]
Config ==
    [leaves : Seq(Leaf), groups : Seq(GroupConfig), def : Leaf \cup Group,
     heartbeat : BOOLEAN, stats : BOOLEAN, async : BOOLEAN]

\* the calls that change the client
Call == {"init", "shutdown", "destroy", "add", "remove", "addGroup", "removeGroup"}

ASSUME LifecycleAssumption ==
    /\ Caller \cap Sampler = {}
    /\ NoName \notin Caller \cup Sampler \cup Call
    /\ Configs \subseteq Config /\ Additions \subseteq GroupConfig

VARIABLES
    state,     \* Client::Impl::state
    lifecycle, \* holder of lifecycleMutex, or NoName
    mtx,       \* holder of DatabaseManager::mtx_, or NoName
    man,       \* pools_, datasources_, defaultName_, writeBuffers_, heartbeat_
    open,      \* pools that are not shut down
    replica,   \* sources whose readReplica_ is set
    flushing,  \* write buffers whose thread runs
    hb,        \* the heartbeat managers ever built
    sampler,   \* the statistics thread and a reader of the metrics
    reporting, \* StatsReporter::running_
    lease,     \* PoolCollectorLease: owner set?, holder of its mutex
    collector, \* Observability has a collector
    exec,      \* asyncExecutor, and the executors that still accept tasks
    req,       \* the requests
    op,        \* the calls in progress
    made,      \* numbers given to objects so far; calls made
    alive,     \* the manager exists
    undone     \* a reload was rolled back, or an addGroup() erased another's group

vars == <<state, lifecycle, mtx, man, open, replica, flushing, hb, sampler, reporting, lease,
          collector, exec, req, op, made, alive, undone>>

threads == <<hb, sampler, reporting, lease, collector>>
client == <<state, lifecycle, exec, req>>

NoGroup == [id |-> 0, primary |-> 0, replicas |-> {}, failover |-> {}, shadowName |-> NoName,
            shadow |-> 0, buffer |-> FALSE]
NoMaps == [leaf |-> [n \in Leaf |-> 0], group |-> [g \in Group |-> NoGroup], def |-> NoName,
           bufs |-> {}, hb |-> 0]
NoOp == [at |-> "idle", what |-> NoName, arg |-> NoName, new |-> NoMaps, old |-> NoMaps,
         ex |-> 0, id |-> 0, last |-> FALSE]
NoRequest == [at |-> "idle", pool |-> 0, ex |-> 0]
\* spared (history): the pools published beside its own with attach_heartbeat off
NotStarted == [at |-> "off", stop |-> FALSE, pools |-> {}, spared |-> {}]

Init ==
    /\ state = "Empty" /\ lifecycle = NoName /\ mtx = NoName
    /\ man = NoMaps /\ open = {} /\ replica = {} /\ flushing = {} /\ hb = <<>>
    /\ sampler = [s \in Sampler |-> "off"] /\ reporting = FALSE
    /\ lease = [owner |-> TRUE, by |-> NoName] /\ collector = FALSE
    /\ exec = [cur |-> 0, open |-> {}, n |-> 0]
    /\ req = [r \in Request |-> NoRequest]
    /\ op = [c \in Caller |-> NoOp]
    /\ made = [pool |-> 0, group |-> 0, calls |-> 0]
    /\ alive = TRUE /\ undone = FALSE

Free == mtx = NoName
At(c, place) == op[c].at = place
Go(c, place) == op' = [op EXCEPT ![c].at = place]
Return(c) == op' = [op EXCEPT ![c] = NoOp]

Pools(m) == {m.leaf[n] : n \in Leaf} \ {0}
Replicas(m) == UNION {m.group[g].replicas : g \in Group}
Published(m, name) ==
    \/ name \in Leaf /\ m.leaf[name] # 0
    \/ name \in Group /\ m.group[name].id # 0

\* A call begins; a client that is being destroyed is not called any more.
Begin(c) ==
    /\ alive /\ op[c] = NoOp
    /\ made.calls < MaxCalls
    /\ \A d \in Caller : op[d].what # "destroy"

-----------------------------------------------------------------------------
(* DatabaseManager::init(), called by Client::init() and Client::reload().  *)

\* buildSingleDataSourceGroup(): references become the objects themselves
BuildGroup(g, leaf, id) ==
    [id |-> id, primary |-> leaf[g.primary],
     replicas |-> {leaf[n] : n \in g.replicas}, failover |-> {leaf[n] : n \in g.failover},
     shadowName |-> g.shadow, shadow |-> 0, buffer |-> g.buffer]

\* validateGroupRefs() and the acknowledgements
ValidGroup(g, leaf) ==
    /\ leaf[g.primary] # 0
    /\ \A n \in g.replicas \cup g.failover : leaf[n] # 0
    /\ (g.failover # {} \/ g.buffer) => g.acknowledged
    /\ ~(g.readOnly /\ g.buffer)

BuildLeaves(cfg) ==
    [n \in Leaf |-> IF \E i \in DOMAIN cfg.leaves : cfg.leaves[i] = n
                    THEN made.pool + (CHOOSE i \in DOMAIN cfg.leaves : cfg.leaves[i] = n)
                    ELSE 0]

BuildGroups(cfg, leaf) ==
    [g \in Group |->
        IF \E i \in DOMAIN cfg.groups : cfg.groups[i].name = g
        THEN LET i == CHOOSE k \in DOMAIN cfg.groups : cfg.groups[k].name = g
             IN  BuildGroup(cfg.groups[i], leaf, made.group + i)
        ELSE NoGroup]

ValidConfig(cfg, leaf) ==
    /\ cfg.leaves # <<>>
    /\ \A i, j \in DOMAIN cfg.leaves : cfg.leaves[i] = cfg.leaves[j] => i = j
    /\ \A i \in DOMAIN cfg.groups : ValidGroup(cfg.groups[i], leaf)

\* the buffer an addGroup() in progress still refers to
Staged == {op[c].id : c \in {d \in Caller : op[d].what = "addGroup"}}

Buffers(m) == {m.group[g].id : g \in {x \in Group : m.group[x].buffer}}

\* initResolved(), reloadResolved() and the part of init() that builds the new
\* topology and touches nothing shared
InitCall(c) ==
    /\ Begin(c)
    /\ lifecycle = NoName /\ state \in {"Empty", "Running"}
    /\ \E cfg \in Configs :
          LET leaf == BuildLeaves(cfg)
              new == [leaf |-> leaf, group |-> BuildGroups(cfg, leaf), def |-> cfg.def,
                      bufs |-> {}, hb |-> Len(hb) + 1]
          IN  /\ made.pool + Len(cfg.leaves) <= MaxPools
              /\ ValidConfig(cfg, leaf) /\ Published(new, cfg.def)
              /\ made' = [pool |-> made.pool + Len(cfg.leaves),
                          group |-> made.group + Len(cfg.groups), calls |-> made.calls + 1]
              /\ open' = open \cup Pools(new)
              /\ replica' = replica \cup Replicas(new)
              /\ hb' = Append(hb, [NotStarted EXCEPT !.pools = Pools(new)])
              /\ op' = [op EXCEPT ![c] = [NoOp EXCEPT
                          !.at = "start", !.what = "init", !.arg = cfg,
                          !.new = [new EXCEPT !.bufs = Buffers(new)]]]
    /\ lifecycle' = c
    /\ UNCHANGED <<state, mtx, man, flushing, sampler, reporting, lease, collector, exec, req,
                   alive, undone>>

\* newHeartbeat->start() and the start of the new write buffers
StartNew(c) ==
    /\ At(c, "start")
    /\ hb' = IF op[c].arg.heartbeat THEN [hb EXCEPT ![op[c].new.hb].at = "asleep"] ELSE hb
    /\ flushing' = flushing \cup op[c].new.bufs
    /\ Go(c, "publish")
    /\ UNCHANGED <<state, lifecycle, mtx, man, open, replica, sampler, reporting, lease, collector, exec,
                   req, made, alive, undone>>

\* the new maps replace the old ones
Publish(c) ==
    /\ At(c, "publish") /\ Free
    /\ man' = op[c].new
    /\ op' = [op EXCEPT ![c].at = "shadows", ![c].old = man, ![c].new = NoMaps]
    /\ UNCHANGED <<client, mtx, open, replica, flushing, threads, made, alive, undone>>

\* resolveShadows(): what is wrong with a group's shadow
ShadowOk(m, g) ==
    LET grp == m.group[g]
    IN  /\ grp.shadowName \in Leaf
        /\ m.leaf[grp.shadowName] # 0
        /\ m.leaf[grp.shadowName] # grp.primary
        /\ m.leaf[grp.shadowName] \notin grp.replicas
Shadowed(m) == {g \in Group : m.group[g].id # 0 /\ m.group[g].shadowName # NoName}
Resolve(m, some) ==
    [m EXCEPT !.group = [g \in Group |->
        IF g \in some THEN [m.group[g] EXCEPT !.shadow = m.leaf[m.group[g].shadowName]]
        ELSE m.group[g]]]

\* The loop runs over an unordered map and stops at the first bad group: some
\* of the good ones have been resolved by then.
ResolveShadows(c, good, bad) ==
    /\ Free
    /\ LET ok == {g \in Shadowed(man) : ShadowOk(man, g)}
       IN  IF ok = Shadowed(man)
           THEN man' = Resolve(man, ok) /\ Go(c, good)
           ELSE (\E some \in SUBSET ok : man' = Resolve(man, some)) /\ Go(c, bad)
    /\ UNCHANGED <<client, mtx, open, replica, flushing, threads, made, alive, undone>>

InitShadows(c) == At(c, "shadows") /\ ResolveShadows(c, "lease", "undo")

\* The shadows are refused: the old maps come back, what is published now goes
\* - whoever put it there - and the default name stays the new one.  The new
\* heartbeat manager is destroyed, and its thread joined, under the lock.
UndoInit(c) ==
    /\ At(c, "undo") /\ Free
    /\ mtx' = c
    /\ man' = [op[c].old EXCEPT !.def = man.def]
    /\ flushing' = flushing \ ((man.bufs \cup Buffers(man)) \ Staged)
    /\ op' = [op EXCEPT ![c].at = "undoStop", ![c].old = man]
    /\ undone' = TRUE
    /\ UNCHANGED <<client, open, replica, threads, made, alive>>

\* HeartbeatManager::stop(): the flag is set without the mutex of the wait, so
\* the notification may be lost; the thread then wakes when its interval ends.
StopHeartbeat(c, h, next) ==
    /\ hb' = IF h = 0 THEN hb ELSE [hb EXCEPT ![h].stop = hb[h].at # "off"]
    /\ Go(c, next)
    /\ UNCHANGED <<client, mtx, man, open, replica, flushing, sampler, reporting, lease, collector, made,
                   alive, undone>>
\* Mutant: stop() returns without joining the thread.
JoinedNever(h) == h = h
Joined(h) == h # 0 => hb[h].at \in {"off", "done"}

UndoStop(c) == At(c, "undoStop") /\ StopHeartbeat(c, op[c].old.hb, "undoJoin")

\* the error is returned; the last reference to the new pools is gone
UndoJoin(c) ==
    /\ At(c, "undoJoin") /\ Joined(op[c].old.hb)
    /\ open' = open \ Pools(op[c].old)
    /\ mtx' = NoName /\ lifecycle' = NoName
    /\ Return(c)
    /\ UNCHANGED <<state, man, replica, flushing, threads, exec, req, made, alive, undone>>

ReporterJoined == sampler["reporter"] \in {"off", "done"}

\* The collector lease names this manager, the collector is installed, and
\* StatsReporter::start() begins by stopping the thread that runs.
TakeLease(c) ==
    /\ At(c, "lease") /\ lease.by = NoName
    /\ lease' = [lease EXCEPT !.owner = TRUE]
    /\ collector' = TRUE /\ reporting' = FALSE
    /\ Go(c, "statsStart")
    /\ UNCHANGED <<client, mtx, man, open, replica, flushing, hb, sampler, made, alive, undone>>

\* StatsReporter::start(), after the join
StatsStart(c) ==
    /\ At(c, "statsStart") /\ ReporterJoined
    /\ reporting' = op[c].arg.stats
    /\ sampler' = [sampler EXCEPT !["reporter"] = IF op[c].arg.stats THEN "wait" ELSE "off"]
    /\ Go(c, "hbStop")
    /\ UNCHANGED <<client, mtx, man, open, replica, flushing, hb, lease, collector, made, alive, undone>>

\* The old heartbeat manager, write buffers and pools are taken down, by
\* init() and by shutdown().
RetireStop(c) == At(c, "hbStop") /\ StopHeartbeat(c, op[c].old.hb, "retire")

Retire(c) ==
    /\ At(c, "retire") /\ Joined(op[c].old.hb)
    /\ flushing' = flushing \ op[c].old.bufs
    /\ open' = open \ Pools(op[c].old)
    /\ Go(c, CASE op[c].what = "init" -> "async"
               [] op[c].what = "shutdown" -> "unlock"
               [] op[c].what = "destroy" -> IF op[c].last THEN "gone" ELSE "again")
    /\ UNCHANGED <<client, mtx, man, replica, threads, made, alive, undone>>

\* Mutant: only the tasks that run are waited for, not those in the queue.
DrainedRunning(ex) == \A r \in Request : req[r].ex = ex => req[r].at # "running"

\* IExecutor::shutdown() returns when every task it had accepted has run
Drained(ex) == \A r \in Request : req[r].ex = ex => req[r].at \notin {"queued", "running"}

\* init() is over: the client runs and the lifecycle mutex is released
Running(c) == state' = "Running" /\ lifecycle' = NoName /\ Return(c)

\* configureAsync(): an executor is made if there is none, or is retired
ConfigureAsync(c) ==
    /\ At(c, "async")
    /\ \/ /\ op[c].arg.async /\ exec.cur # 0 /\ Running(c) /\ UNCHANGED exec
       \/ /\ op[c].arg.async /\ exec.cur = 0 /\ Running(c)
          /\ exec' = [cur |-> exec.n + 1, open |-> exec.open \cup {exec.n + 1}, n |-> exec.n + 1]
       \/ /\ ~op[c].arg.async
          /\ exec' = [exec EXCEPT !.cur = 0, !.open = @ \ {exec.cur}]
          /\ op' = [op EXCEPT ![c].at = "asyncJoin", ![c].ex = exec.cur]
          /\ UNCHANGED <<state, lifecycle>>
    /\ UNCHANGED <<req, mtx, man, open, replica, flushing, threads, made, alive, undone>>

AsyncJoin(c) ==
    /\ At(c, "asyncJoin") /\ Drained(op[c].ex) /\ Running(c)
    /\ UNCHANGED <<exec, req, mtx, man, open, replica, flushing, threads, made, alive, undone>>

-----------------------------------------------------------------------------
(* Client::shutdown() and ~Client().                                        *)

\* state.exchange(Closed); stopAsync() and DatabaseManager::shutdown() follow
\* if the client was running.  The destructor's manager shuts down again.
ShutdownCall(c) ==
    /\ Begin(c)
    /\ lifecycle = NoName /\ state = "Running"
    /\ \E what \in {"shutdown", "destroy"} :
          /\ what = "destroy" => /\ \A d \in Caller : op[d] = NoOp
                                 /\ \A r \in Request : req[r].at \notin {"resolved", "post"}
          /\ op' = [op EXCEPT ![c] = [NoOp EXCEPT !.at = "stopAsync", !.what = what]]
    /\ state' = "Closed" /\ lifecycle' = c
    /\ made' = [made EXCEPT !.calls = @ + 1]
    /\ UNCHANGED <<exec, req, mtx, man, open, replica, flushing, threads, alive, undone>>

\* A client that does not run is only marked closed; ~Client() destroys its
\* manager as well.
ShutdownIdle(c) ==
    /\ Begin(c)
    /\ lifecycle = NoName /\ state # "Running"
    /\ state' = "Closed"
    /\ \/ state = "Empty" /\ UNCHANGED op
       \/ /\ \A d \in Caller : op[d] = NoOp
          /\ \A r \in Request : req[r].at \notin {"resolved", "post"}
          /\ op' = [op EXCEPT ![c] = [NoOp EXCEPT !.at = "again", !.what = "destroy"]]
    /\ made' = [made EXCEPT !.calls = @ + 1]
    /\ UNCHANGED <<lifecycle, exec, req, mtx, man, open, replica, flushing, threads, alive, undone>>

\* stopAsync(): the executor is taken and stopped
StopAsync(c) ==
    /\ At(c, "stopAsync")
    /\ exec' = [exec EXCEPT !.cur = 0, !.open = @ \ {exec.cur}]
    /\ op' = [op EXCEPT ![c].at = "drain", ![c].ex = exec.cur]
    /\ UNCHANGED <<state, lifecycle, req, mtx, man, open, replica, flushing, threads, made, alive, undone>>

Drain(c) ==
    /\ At(c, "drain") /\ (op[c].ex # 0 => Drained(op[c].ex))
    /\ op' = [op EXCEPT ![c].at = "stats", ![c].ex = 0]
    /\ UNCHANGED <<client, mtx, man, open, replica, flushing, threads, made, alive, undone>>

\* Mutant: shutdown() takes mtx_ before it stops the reporter.
ShutStatsLocked(c) ==
    /\ At(c, "stats") /\ Free
    /\ reporting' = FALSE /\ mtx' = c
    /\ Go(c, "clear")
    /\ UNCHANGED <<client, man, open, replica, flushing, hb, sampler, lease, collector, made, alive,
                   undone>>

\* StatsReporter::stop(), first half
ShutStats(c) ==
    /\ At(c, "stats")
    /\ reporting' = FALSE
    /\ Go(c, "clear")
    /\ UNCHANGED <<client, mtx, man, open, replica, flushing, hb, sampler, lease, collector, made, alive,
                   undone>>

\* the reporter is joined, the collector removed
ShutClear(c) ==
    /\ At(c, "clear") /\ ReporterJoined
    /\ collector' = FALSE
    /\ sampler' = [sampler EXCEPT !["reporter"] = "off"]
    /\ Go(c, "disown")
    /\ UNCHANGED <<client, mtx, man, open, replica, flushing, hb, reporting, lease, made, alive, undone>>

\* Mutant: the owner is cleared without the lease's mutex.
DisownUnlocked(c) ==
    /\ At(c, "disown")
    /\ lease' = [lease EXCEPT !.owner = FALSE]
    /\ Go(c, "take")
    /\ UNCHANGED <<client, mtx, man, open, replica, flushing, hb, sampler, reporting, collector, made,
                   alive, undone>>

\* a reader inside the collector holds the lease's mutex
Disown(c) ==
    /\ At(c, "disown") /\ lease.by = NoName
    /\ lease' = [lease EXCEPT !.owner = FALSE]
    /\ Go(c, "take")
    /\ UNCHANGED <<client, mtx, man, open, replica, flushing, hb, sampler, reporting, collector, made,
                   alive, undone>>

TakeMaps(c) ==
    /\ At(c, "take") /\ Free
    /\ man' = NoMaps
    /\ op' = [op EXCEPT ![c].at = "hbStop", ![c].old = man]
    /\ UNCHANGED <<client, mtx, open, replica, flushing, threads, made, alive, undone>>

ShutdownReturns(c) ==
    /\ At(c, "unlock")
    /\ lifecycle' = NoName
    /\ Return(c)
    /\ UNCHANGED <<state, exec, req, mtx, man, open, replica, flushing, threads, made, alive, undone>>

\* ~DatabaseManager() calls shutdown() once more
ShutAgain(c) ==
    /\ At(c, "again")
    /\ op' = [op EXCEPT ![c].at = "stats", ![c].last = TRUE, ![c].old = NoMaps]
    /\ UNCHANGED <<client, mtx, man, open, replica, flushing, threads, made, alive, undone>>

Gone(c) ==
    /\ At(c, "gone")
    /\ alive' = FALSE /\ lifecycle' = NoName
    /\ Return(c)
    /\ UNCHANGED <<state, exec, req, mtx, man, open, replica, flushing, threads, made, undone>>

-----------------------------------------------------------------------------
(* Sources and groups at run time.  The client checks its state without the *)
(* lifecycle mutex and then calls the manager.                              *)

RuntimeCall(c) ==
    /\ Begin(c) /\ state = "Running"
    /\ \E at \in {"add", "remove", "addGroup", "removeGroup"} :
          \E arg \in IF at \in {"add", "remove"} THEN Leaf
                     ELSE IF at = "addGroup" THEN Additions ELSE Group :
             LET n == made.pool + (IF at = "add" THEN 1 ELSE 0)
             IN  /\ n <= MaxPools
                 /\ op' = [op EXCEPT ![c] = [NoOp EXCEPT !.at = at, !.what = at, !.arg = arg,
                                                         !.id = IF at = "add" THEN n ELSE 0]]
                 /\ made' = [made EXCEPT !.calls = @ + 1, !.pool = n]
    /\ UNCHANGED <<client, mtx, man, open, replica, flushing, threads, alive, undone>>

\* A call the manager refuses changes nothing.
Refused(c, place, accepted) ==
    /\ At(c, place) /\ Free /\ ~accepted
    /\ Return(c)
    /\ UNCHANGED <<client, mtx, man, open, replica, flushing, threads, made, alive, undone>>

\* addDataSource(): the name is free, and the pool is built outside the lock
AddCheck(c) ==
    \/ Refused(c, "add", ~Published(man, op[c].arg))
    \/ /\ At(c, "add") /\ Free /\ ~Published(man, op[c].arg)
       /\ open' = open \cup {op[c].id}
       /\ Go(c, "insert")
       /\ UNCHANGED <<client, mtx, man, replica, flushing, threads, made, alive, undone>>

\* the second look: another thread may have taken the name; opts.attach_heartbeat says
\* whether the pool is watched
AddInsert(c) ==
    /\ At(c, "insert") /\ Free
    /\ IF Published(man, op[c].arg)
       THEN /\ open' = open \ {op[c].id}
            /\ UNCHANGED <<man, hb>>
       ELSE /\ man' = [man EXCEPT !.leaf[op[c].arg] = op[c].id]
            /\ \/ man.hb # 0 /\ hb' = [hb EXCEPT ![man.hb].pools = @ \cup {op[c].id}]
               \/ man.hb # 0 /\ hb' = [hb EXCEPT ![man.hb].spared = @ \cup {op[c].id}]
               \/ man.hb = 0 /\ hb' = hb
            /\ UNCHANGED open
    /\ Return(c)
    /\ UNCHANGED <<client, mtx, replica, flushing, sampler, reporting, lease, collector, made, alive,
                   undone>>

\* Mutant: the shadow is not looked at.
RefersToUnshadowed(grp, p) == grp.id # 0 /\ (p = grp.primary \/ p \in grp.replicas \cup grp.failover)

\* removeDataSource(): not the default, and no group refers to it
RefersTo(grp, p) ==
    grp.id # 0 /\ (p \in {grp.primary, grp.shadow} \/ p \in grp.replicas \cup grp.failover)

MayRemove(n) ==
    /\ man.leaf[n] # 0 /\ n # man.def
    /\ \A g \in Group : ~RefersTo(man.group[g], man.leaf[n])

RemoveLeaf(c) ==
    \/ Refused(c, "remove", MayRemove(op[c].arg))
    \/ /\ At(c, "remove") /\ Free /\ MayRemove(op[c].arg)
       /\ man' = [man EXCEPT !.leaf[op[c].arg] = 0]
       /\ op' = [op EXCEPT ![c].at = "close", ![c].id = man.leaf[op[c].arg]]
       /\ UNCHANGED <<client, mtx, open, replica, flushing, threads, made, alive, undone>>

CloseLeaf(c) ==
    /\ At(c, "close")
    /\ open' = open \ {op[c].id}
    /\ Return(c)
    /\ UNCHANGED <<client, mtx, man, replica, flushing, threads, made, alive, undone>>

\* addGroup(): the group is published, its buffer registered ...
MayAddGroup(g) == ~Published(man, g.name) /\ ValidGroup(g, man.leaf)

AddGroup(c) ==
    \/ Refused(c, "addGroup", MayAddGroup(op[c].arg))
    \/ LET g == op[c].arg  id == made.group + 1
       IN  /\ At(c, "addGroup") /\ Free /\ MayAddGroup(g)
           /\ man' = [man EXCEPT !.group[g.name] = BuildGroup(g, man.leaf, id),
                                 !.bufs = IF g.buffer THEN @ \cup {id} ELSE @]
           /\ replica' = replica \cup {man.leaf[n] : n \in g.replicas}
           /\ made' = [made EXCEPT !.group = id]
           /\ op' = [op EXCEPT ![c].at = "startBuffer", ![c].id = id]
           /\ UNCHANGED <<client, mtx, open, flushing, threads, alive, undone>>

\* ... the buffer started, unless that throws ...
StartBuffer(c) ==
    /\ At(c, "startBuffer")
    /\ \/ /\ flushing' = IF op[c].arg.buffer THEN flushing \cup {op[c].id} ELSE flushing
          /\ Go(c, "resolve")
       \/ op[c].arg.buffer /\ Go(c, "undoGroup") /\ UNCHANGED flushing
    /\ UNCHANGED <<client, mtx, man, open, replica, threads, made, alive, undone>>

\* ... and only then are the shadows of all groups validated.
GroupShadows(c) == At(c, "resolve") /\ ResolveShadows(c, "groupReturns", "undoGroup")

\* The name is erased, whatever group has it now; the replicas stay marked.
UndoGroup(c) ==
    /\ At(c, "undoGroup") /\ Free
    /\ man' = [man EXCEPT !.group[op[c].arg.name] = NoGroup, !.bufs = @ \ {op[c].id}]
    /\ flushing' = flushing \ {op[c].id}
    /\ undone' = (undone \/ man.group[op[c].arg.name].id \notin {0, op[c].id})
    /\ Return(c)
    /\ UNCHANGED <<client, mtx, open, replica, threads, made, alive>>

\* A buffer whose group was removed meanwhile is destroyed with the last
\* reference to it.
GroupReturns(c) ==
    /\ At(c, "groupReturns")
    /\ flushing' = IF op[c].id \in man.bufs THEN flushing ELSE flushing \ {op[c].id}
    /\ Return(c)
    /\ UNCHANGED <<client, mtx, man, open, replica, threads, made, alive, undone>>

RemoveGroup(c) ==
    \/ Refused(c, "removeGroup", man.group[op[c].arg].id # 0 /\ op[c].arg # man.def)
    \/ LET grp == man.group[op[c].arg]
       IN  /\ At(c, "removeGroup") /\ Free /\ grp.id # 0 /\ op[c].arg # man.def
           /\ man' = [man EXCEPT !.group[op[c].arg] = NoGroup,
                                 !.bufs = IF grp.buffer THEN @ \ {grp.id} ELSE @]
           /\ replica' = (replica \ Pools(man)) \cup Replicas([man EXCEPT !.group[op[c].arg] = NoGroup])
           /\ op' = [op EXCEPT ![c].at = "stopBuffer", ![c].id = grp.id]
           /\ UNCHANGED <<client, mtx, open, flushing, threads, made, alive, undone>>

StopBuffer(c) ==
    /\ At(c, "stopBuffer")
    /\ flushing' = flushing \ {op[c].id}
    /\ Return(c)
    /\ UNCHANGED <<client, mtx, man, open, replica, threads, made, alive, undone>>

-----------------------------------------------------------------------------
(* HeartbeatManager::loop().                                                *)

\* woken by stop() or by the interval: the end, or a snapshot of the pools
\* whose health is checked; after the sweep the flag is looked at again
Heartbeat(h) ==
    /\ \/ /\ hb[h].at \in {"asleep", "sweep"} /\ hb[h].stop
          /\ hb' = [hb EXCEPT ![h].at = "done"]
       \/ /\ hb[h].at = "asleep" /\ ~hb[h].stop
          /\ hb' = [hb EXCEPT ![h].at = "sweep"]
       \/ /\ hb[h].at = "sweep" /\ ~hb[h].stop
          /\ hb' = [hb EXCEPT ![h].at = "asleep", ![h].pools = @ \cap open]
    /\ UNCHANGED <<client, mtx, man, open, replica, flushing, sampler, reporting, lease, collector, op,
                   made, alive, undone>>

(* StatsReporter::run() and writeOnce(); a reader calls samplePoolMetrics() *)
(* from any thread.                                                         *)

Samples(s, place) == sampler' = [sampler EXCEPT ![s] = place]
Sampled(s) == Samples(s, IF s = "reporter" THEN "wait" ELSE "done")

\* The reporter ends, or calls allPoolStats() itself and then copies the
\* collector as every reader does.
Sample(s) ==
    /\ \/ s = "reporter" /\ sampler[s] = "wait" /\ ~reporting /\ Samples(s, "done")
       \/ s = "reporter" /\ sampler[s] = "wait" /\ reporting /\ Free /\ Samples(s, "copied")
       \/ s = "reader" /\ sampler[s] = "off" /\ collector /\ Samples(s, "copied")
    /\ UNCHANGED <<client, mtx, man, open, replica, flushing, hb, reporting, lease, collector, op, made,
                   alive, undone>>

\* the collector locks the lease and looks for the owner
LockLease(s) ==
    /\ sampler[s] = "copied" /\ lease.by = NoName
    /\ IF lease.owner THEN lease' = [lease EXCEPT !.by = s] /\ Samples(s, "read")
       ELSE Sampled(s) /\ UNCHANGED lease
    /\ UNCHANGED <<client, mtx, man, open, replica, flushing, hb, reporting, collector, op, made, alive,
                   undone>>

\* owner->allPoolStats(), and the lease is unlocked
ReadStats(s) ==
    /\ sampler[s] = "read" /\ Free
    /\ Sampled(s)
    /\ lease' = [lease EXCEPT !.by = NoName]
    /\ UNCHANGED <<client, mtx, man, open, replica, flushing, hb, reporting, collector, op, made, alive,
                   undone>>

-----------------------------------------------------------------------------
(* An asynchronous statement on a plain source: queryAsync() and            *)
(* executeAsync() offer it to the engine, and what the engine declines, and *)
(* every other asynchronous call, becomes a task of the executor, which is  *)
(* then looked up once more (here: TakeExecutor comes later).               *)

Set(r, at, pool, ex) == req' = [req EXCEPT ![r] = [at |-> at, pool |-> pool, ex |-> ex]]
quiet == <<state, lifecycle, mtx, man, open, replica, flushing, threads, exec, op, made, alive, undone>>

\* resolve()
FindSource(r) ==
    /\ alive /\ \A c \in Caller : op[c].what # "destroy"
    /\ req[r].at = "idle" /\ state = "Running" /\ Free
    /\ \E n \in Leaf : man.leaf[n] # 0 /\ Set(r, "resolved", man.leaf[n], 0)
    /\ UNCHANGED quiet

TakeExecutor(r) ==
    /\ req[r].at = "resolved"
    /\ IF exec.cur = 0 THEN Set(r, "done", 0, 0) ELSE Set(r, "post", req[r].pool, exec.cur)
    /\ UNCHANGED quiet

\* tryPost(): refused by an executor that is stopped or full
Post(r) ==
    /\ req[r].at = "post"
    /\ \/ req[r].ex \in exec.open /\ Set(r, "queued", req[r].pool, req[r].ex)
       \/ Set(r, "done", 0, 0)
    /\ UNCHANGED quiet

\* a worker runs the task: the pool lends a connection, or is closed
RunTask(r) ==
    /\ \/ req[r].at = "queued" /\ req[r].pool \in open /\ Set(r, "running", 0, req[r].ex)
       \/ req[r].at = "queued" /\ req[r].pool \notin open /\ Set(r, "done", 0, 0)
       \/ req[r].at = "running" /\ Set(r, "done", 0, 0)
    /\ UNCHANGED quiet

\* AsyncEngine::query() and execute() have accepted it: it waits in the queue of the pool
\* or is with the driver, and is no task of the executor
EngineAccepts(r) ==
    /\ req[r].at = "post"
    /\ Set(r, "engine", 0, req[r].ex)
    /\ UNCHANGED quiet

\* It ends on the thread of the pool or of the driver, refused when the pool is closed
\* under it; or the engine goes on with a task of the executor.
EngineRuns(r) ==
    /\ req[r].at = "engine"
    /\ \/ Set(r, "done", 0, 0)
       \/ req[r].ex \in exec.open /\ Set(r, "running", 0, req[r].ex)
    /\ UNCHANGED quiet

-----------------------------------------------------------------------------
ManagerCall(c) ==
    \/ StartNew(c) \/ Publish(c) \/ InitShadows(c) \/ UndoInit(c) \/ UndoStop(c) \/ UndoJoin(c)
    \/ TakeLease(c) \/ StatsStart(c) \/ RetireStop(c) \/ Retire(c)
    \/ ConfigureAsync(c) \/ AsyncJoin(c)
    \/ StopAsync(c) \/ Drain(c) \/ ShutStats(c) \/ ShutClear(c) \/ Disown(c) \/ TakeMaps(c)
    \/ ShutdownReturns(c) \/ ShutAgain(c) \/ Gone(c)
    \/ AddCheck(c) \/ AddInsert(c) \/ RemoveLeaf(c) \/ CloseLeaf(c)
    \/ AddGroup(c) \/ StartBuffer(c) \/ GroupShadows(c) \/ UndoGroup(c) \/ GroupReturns(c)
    \/ RemoveGroup(c) \/ StopBuffer(c)
Metrics == \E s \in Sampler : Sample(s) \/ LockLease(s) \/ ReadStats(s)
Statement(r) == TakeExecutor(r) \/ Post(r) \/ RunTask(r) \/ EngineAccepts(r) \/ EngineRuns(r)

Next ==
    \/ \E c \in Caller : InitCall(c) \/ ShutdownCall(c) \/ ShutdownIdle(c) \/ RuntimeCall(c)
    \/ \E c \in Caller : ManagerCall(c)
    \/ \E h \in DOMAIN hb : Heartbeat(h)
    \/ Metrics
    \/ \E r \in Request : FindSource(r) \/ Statement(r)

Spec == Init /\ [][Next]_vars

-----------------------------------------------------------------------------
Quiet == \A c \in Caller : op[c] = NoOp

References(grp) == ({grp.primary, grp.shadow} \cup grp.replicas \cup grp.failover) \ {0}

(* removeDataSource() and removeGroup() check references under the lock under *)
(* which addGroup() and init() make them: what a published group refers to    *)
(* stays published, so no group is left with a source whose pool is closed.   *)
(* Every published pool is open and watched by the current heartbeat manager, *)
(* also one added while a reload replaces that manager, unless it was added   *)
(* with attach_heartbeat off; and the sources that some group reads from are  *)
(* marked as replicas, whatever groups have gone.                            *)
(* A running client has a default source or group: no call removes it, and a  *)
(* reload changes the name together with the maps.  (Not after a reload or an *)
(* addGroup() was rolled back: init() does not restore defaultName_, and      *)
(* addGroup() erases by name.)                                               *)
RefsServed ==
    /\ \A g \in Group : References(man.group[g]) \subseteq Pools(man)
    /\ Pools(man) \subseteq open
    /\ man.hb # 0 => Pools(man) \subseteq hb[man.hb].pools \cup hb[man.hb].spared
    /\ Replicas(man) \subseteq replica
    /\ (state = "Running" /\ ~undone) => Published(man, man.def)

(* When no administrative call is in progress, whatever calls have raced or   *)
(* failed half-way: every open pool is published, no flush thread runs for a  *)
(* buffer nobody owns, every replaced heartbeat thread has been joined, and so *)
(* has the statistics thread if it was stopped.                              *)
NothingLeftRunning ==
    Quiet => /\ open = Pools(man)
             /\ flushing \subseteq man.bufs
             /\ \A h \in DOMAIN hb : h # man.hb => hb[h].at \in {"off", "done"}
             /\ ~reporting => ReporterJoined

(* The collector is copied out of the observability settings and called       *)
(* later: it never reads a manager that has given up the lease or is gone,    *)
(* because the lease is locked while it reads and shutdown() clears the owner *)
(* under that lock.                                                          *)
SampledAlive == \A s \in Sampler : sampler[s] = "read" => lease.owner /\ alive

(* stopAsync() comes before the pools: shutdown() closes no pool while a task *)
(* that the executor accepted is queued or runs, though requests take the     *)
(* executor before it is retired and post to it afterwards.  (Statements that *)
(* only the engine holds are no tasks: AcceptedDrained.)                      *)
DrainsFirst ==
    \A c \in Caller : op[c].what \in {"shutdown", "destroy"} /\ At(c, "retire") =>
        \A r \in Request : req[r].at \notin {"queued", "running"}

(* Stated by docs/guide_en.md:982 ("shutdown() rejects new operations, drains *)
(* submitted work, then closes this client's executor and pools"): when the   *)
(* pools are about to be closed no accepted request is under way, wherever it *)
(* waits or runs.                                                            *)
AcceptedDrained ==
    \A c \in Caller : op[c].what \in {"shutdown", "destroy"} /\ At(c, "retire") =>
        \A r \in Request : req[r].at \notin {"queued", "running", "engine"}

\* the places at which a call locks mtx_
Locking == {"publish", "shadows", "undo", "take", "add", "insert", "remove", "addGroup", "resolve",
            "undoGroup", "removeGroup"}

\* x waits for a lock that y holds, or for the end of the thread y
WaitsFor(x, y) ==
    \/ /\ y = mtx
       /\ x \in Caller => op[x].at \in Locking
       /\ x \in Sampler => sampler[x] = "read" \/ (sampler[x] = "wait" /\ reporting)
    \/ /\ y = lease.by
       /\ x \in Caller => op[x].at \in {"lease", "disown"}
       /\ x \in Sampler => sampler[x] = "copied"
    \/ y = "reporter" /\ x \in Caller /\ op[x].at \in {"statsStart", "clear"} /\ ~ReporterJoined

(* The lifecycle calls, the statistics thread and a reader of the metrics     *)
(* never wait for each other in a circle: shutdown() and a reload join the    *)
(* reporter and take the lease without holding mtx_, which both need to read  *)
(* the pools, and the rollback of init() joins a thread under mtx_.           *)
NoCircularWait ==
    \A some \in SUBSET (Caller \cup Sampler) :
        some # {} => \E x \in some : \A y \in some : ~WaitsFor(x, y)
================================================================================
