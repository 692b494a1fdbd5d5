---------------------------- MODULE LifecycleProofs ----------------------------
(***************************************************************************)
(* Proofs about Lifecycle, for any callers, requests, configurations and   *)
(* names, and any number of calls.                                         *)
(***************************************************************************)
EXTENDS Lifecycle, TLAPS

\* Leaves are for Zenon, unless they say otherwise.
USE Zenon

-----------------------------------------------------------------------------
(* Types.                                                                  *)

Names == Leaf \cup Group \cup {NoName}
GroupType ==
    [id : Nat, primary : Nat, replicas : SUBSET (Nat \ {0}), failover : SUBSET Nat,
     shadowName : Names, shadow : Nat, buffer : BOOLEAN]
Maps ==
    [leaf : [Leaf -> Nat], group : [Group -> GroupType], def : Names,
     bufs : SUBSET (Nat \ {0}), hb : Nat]

InitPlaces == {"start", "publish", "shadows", "undo", "undoStop", "undoJoin", "lease",
               "statsStart", "hbStop", "retire", "async", "asyncJoin"}
\* what remains of a shutdown when the executor is gone
Drains == {"stats", "clear", "disown", "take", "hbStop", "retire", "unlock", "again", "gone"}
AddGroupPlaces == {"addGroup", "startBuffer", "resolve", "undoGroup", "groupReturns"}
Places == {"idle", "stopAsync", "drain", "add", "insert", "remove", "close", "removeGroup",
           "stopBuffer"} \cup InitPlaces \cup Drains \cup AddGroupPlaces

Ops ==
    [at : Places, what : Call \cup {NoName},
     arg : {NoName} \cup Configs \cup Additions \cup Leaf \cup Group,
     new : Maps, old : Maps, ex : Nat, id : Nat, last : BOOLEAN]
Heartbeats == [at : {"off", "asleep", "sweep", "done"}, stop : BOOLEAN, pools : SUBSET Nat,
               spared : SUBSET Nat]
RequestPlaces == {"idle", "resolved", "post", "engine", "queued", "running", "done"}

\* the client, its threads and its requests
ClientOK ==
    /\ state \in {"Empty", "Running", "Closed"}
    /\ lifecycle \in Caller \cup {NoName} /\ mtx \in Caller \cup {NoName}
    /\ sampler \in [Sampler -> {"off", "wait", "copied", "read", "done"}]
    /\ reporting \in BOOLEAN /\ collector \in BOOLEAN
    /\ lease \in [owner : BOOLEAN, by : Sampler \cup {NoName}]
    /\ exec \in [cur : Nat, open : SUBSET Nat, n : Nat]
    /\ req \in [Request -> [at : RequestPlaces, pool : Nat, ex : Nat]]
    /\ alive \in BOOLEAN /\ undone \in BOOLEAN

\* the objects of the manager
ObjectsOK ==
    /\ open \subseteq Nat /\ replica \subseteq Nat /\ flushing \subseteq Nat \ {0}
    /\ hb \in Seq(Heartbeats)
    /\ made \in [pool : Nat, group : Nat, calls : Nat]

TypeOK == ClientOK /\ ObjectsOK /\ man \in Maps /\ op \in [Caller -> Ops]

-----------------------------------------------------------------------------
(* The inductive invariant.                                                *)

\* Where a call is, and what it was given.
Placed(c) ==
    /\ op[c].what = NoName => op[c] = NoOp
    /\ op[c].what = "init" => op[c].at \in InitPlaces /\ op[c].arg \in Configs
    /\ op[c].what = "shutdown" => op[c].at \in ({"stopAsync", "drain"} \cup Drains) \ {"again", "gone"}
    /\ op[c].what = "destroy" => op[c].at \in ({"stopAsync", "drain"} \cup Drains) \ {"unlock"}
    /\ op[c].what = "add" => op[c].at \in {"add", "insert"} /\ op[c].arg \in Leaf
    /\ op[c].what = "remove" => op[c].at \in {"remove", "close"} /\ op[c].arg \in Leaf
    /\ op[c].what = "addGroup" => op[c].at \in AddGroupPlaces /\ op[c].arg \in Additions
    /\ op[c].what = "removeGroup" => op[c].at \in {"removeGroup", "stopBuffer"} /\ op[c].arg \in Group
    /\ op[c].last => op[c].what = "destroy"
    /\ op[c].at = "gone" => op[c].last
    /\ op[c].what = "addGroup" => (op[c].id = 0 <=> op[c].at = "addGroup")

\* init() and shutdown() hold lifecycleMutex; a client that is destroyed is used by
\* nobody else.
Alone(c) ==
    /\ op[c].what \in {"init", "shutdown"} => lifecycle = c
    /\ op[c].what = "destroy" => \A d \in Caller \ {c} : op[d] = NoOp
    /\ op[c].what \in {"shutdown", "destroy"} => state = "Closed"

\* mtx_ outlives a step only in the rollback of init().
Locks ==
    /\ mtx # NoName => op[mtx].at \in {"undoStop", "undoJoin"}
    /\ lease.by # NoName => sampler[lease.by] = "read"
    /\ \A s \in Sampler : sampler[s] = "read" => lease.by = s /\ lease.owner

\* The owner of the lease is cleared before the manager is destroyed.
Disowned ==
    /\ ~alive => ~lease.owner /\ Quiet
    /\ \A c \in Caller : op[c].last /\ op[c].at \in {"take", "hbStop", "retire", "gone"} => ~lease.owner

Active(r) == req[r].at \in {"queued", "running"}

\* A request that was accepted is with the executor, or with the one that is being
\* retired; a client that does not run has none.
Accepted ==
    /\ exec.open \subseteq {exec.cur} \ {0}
    /\ \A r \in Request : Active(r) =>
          /\ req[r].ex # 0
          /\ req[r].ex \in exec.open
               \/ \E c \in Caller : op[c].at \in {"asyncJoin", "drain"} /\ op[c].ex = req[r].ex
    /\ state # "Running" => exec.cur = 0 \/ \E c \in Caller : op[c].at = "stopAsync"
    /\ \A c \in Caller : op[c].what \in {"shutdown", "destroy"} /\ op[c].at \in Drains =>
          \A r \in Request : ~Active(r)

Control ==
    /\ TypeOK
    /\ \A c \in Caller : Placed(c) /\ Alone(c)
    /\ Locks /\ Disowned /\ Accepted

-----------------------------------------------------------------------------
(* Types are kept.                                                         *)

\* The empty maps and the call that is none are well-formed.
LEMMA EmptyTyped == NoGroup \in GroupType /\ NoMaps \in Maps /\ NoOp \in Ops
<1>1. NoGroup \in GroupType BY DEF NoGroup, GroupType, Names
<1>2. NoMaps \in Maps BY <1>1 DEF NoMaps, Maps, Names
<1>3. NoOp \in Ops BY <1>2 DEF NoOp, Ops, Places
<1> QED BY <1>1, <1>2, <1>3

\* A call in progress moves on: its place, maps, executor, object and mode may change.
Turns(c, at, new, old, ex, id, last) ==
    /\ op' \in [Caller -> Ops]
    /\ op'[c].at = at /\ op'[c].what = op[c].what /\ op'[c].arg = op[c].arg
    /\ op'[c].new = new /\ op'[c].old = old /\ op'[c].ex = ex /\ op'[c].id = id
    /\ op'[c].last = last
    /\ \A d \in Caller \ {c} : op'[d] = op[d]
Goes(c, at) == Turns(c, at, op[c].new, op[c].old, op[c].ex, op[c].id, op[c].last)
\* A call begins or ends.
Becomes(c, r) ==
    /\ op' \in [Caller -> Ops] /\ op'[c] = r /\ \A d \in Caller \ {c} : op'[d] = op[d]

\* The parts of a call have their types.
LEMMA OpParts ==
    ASSUME TypeOK, NEW c \in Caller
    PROVE  /\ op[c] \in Ops /\ op[c].at \in Places /\ op[c].what \in Call \cup {NoName}
           /\ op[c].new \in Maps /\ op[c].old \in Maps /\ op[c].ex \in Nat /\ op[c].id \in Nat
           /\ op[c].last \in BOOLEAN
<1>1. op[c] \in Ops BY DEF TypeOK
<1> QED BY <1>1 DEF Ops

\* A call turns into another record, or goes to another place, or returns.
LEMMA OpBecomes ==
    ASSUME TypeOK, NEW c \in Caller, NEW r \in Ops, op' = [op EXCEPT ![c] = r]
    PROVE  Becomes(c, r)
  BY DEF TypeOK, Becomes
LEMMA GoGoes == ASSUME TypeOK, NEW c \in Caller, NEW p \in Places, Go(c, p) PROVE Goes(c, p)
<1> DEFINE r == [op[c] EXCEPT !.at = p]
<1>1. /\ r \in Ops /\ r.at = p /\ r.what = op[c].what /\ r.arg = op[c].arg
      /\ r.new = op[c].new /\ r.old = op[c].old /\ r.ex = op[c].ex /\ r.id = op[c].id
      /\ r.last = op[c].last
  BY OpParts DEF Ops
<1> HIDE DEF r
<1>2. op' = [op EXCEPT ![c] = r] BY DEF Go, r
<1> QED BY <1>1, <1>2, OpBecomes DEF Becomes, Goes, Turns
LEMMA ReturnEnds == ASSUME TypeOK, NEW c \in Caller, Return(c) PROVE Becomes(c, NoOp)
  BY EmptyTyped, OpBecomes DEF Return
\* The updates of several parts: maps are kept aside, an executor, an object.
LEMMA KeepMaps ==
    ASSUME TypeOK, NEW c \in Caller, NEW at \in Places, NEW m \in Maps,
           op' = [op EXCEPT ![c].at = at, ![c].old = m]
    PROVE  Turns(c, at, op[c].new, m, op[c].ex, op[c].id, op[c].last)
<1> DEFINE r == [op[c] EXCEPT !.at = at, !.old = m]
<1>1. /\ r \in Ops /\ r.at = at /\ r.what = op[c].what /\ r.arg = op[c].arg
      /\ r.new = op[c].new /\ r.old = m /\ r.ex = op[c].ex /\ r.id = op[c].id
      /\ r.last = op[c].last
  BY OpParts, EmptyTyped DEF Ops
<1>2. op' = [op EXCEPT ![c] = r] BY DEF TypeOK
<1> HIDE DEF r
<1> QED BY <1>1, <1>2, OpBecomes DEF Becomes, Turns

LEMMA SwapMaps ==
    ASSUME TypeOK, NEW c \in Caller, NEW at \in Places, NEW m \in Maps,
           op' = [op EXCEPT ![c].at = at, ![c].old = m, ![c].new = NoMaps]
    PROVE  Turns(c, at, NoMaps, m, op[c].ex, op[c].id, op[c].last)
<1> DEFINE r == [op[c] EXCEPT !.at = at, !.old = m, !.new = NoMaps]
<1>1. /\ r \in Ops /\ r.at = at /\ r.what = op[c].what /\ r.arg = op[c].arg
      /\ r.new = NoMaps /\ r.old = m /\ r.ex = op[c].ex /\ r.id = op[c].id
      /\ r.last = op[c].last
  BY OpParts, EmptyTyped DEF Ops
<1>2. op' = [op EXCEPT ![c] = r] BY DEF TypeOK
<1> HIDE DEF r
<1> QED BY <1>1, <1>2, OpBecomes DEF Becomes, Turns

LEMMA DropMaps ==
    ASSUME TypeOK, NEW c \in Caller, NEW at \in Places,
           op' = [op EXCEPT ![c].at = at, ![c].last = TRUE, ![c].old = NoMaps]
    PROVE  Turns(c, at, op[c].new, NoMaps, op[c].ex, op[c].id, TRUE)
<1> DEFINE r == [op[c] EXCEPT !.at = at, !.last = TRUE, !.old = NoMaps]
<1>1. /\ r \in Ops /\ r.at = at /\ r.what = op[c].what /\ r.arg = op[c].arg
      /\ r.new = op[c].new /\ r.old = NoMaps /\ r.ex = op[c].ex /\ r.id = op[c].id
      /\ r.last = TRUE
  BY OpParts, EmptyTyped DEF Ops
<1>2. op' = [op EXCEPT ![c] = r] BY DEF TypeOK
<1> HIDE DEF r
<1> QED BY <1>1, <1>2, OpBecomes DEF Becomes, Turns

LEMMA KeepExecutor ==
    ASSUME TypeOK, NEW c \in Caller, NEW at \in Places, NEW x \in Nat,
           op' = [op EXCEPT ![c].at = at, ![c].ex = x]
    PROVE  Turns(c, at, op[c].new, op[c].old, x, op[c].id, op[c].last)
<1> DEFINE r == [op[c] EXCEPT !.at = at, !.ex = x]
<1>1. /\ r \in Ops /\ r.at = at /\ r.what = op[c].what /\ r.arg = op[c].arg
      /\ r.new = op[c].new /\ r.old = op[c].old /\ r.ex = x /\ r.id = op[c].id
      /\ r.last = op[c].last
  BY OpParts, EmptyTyped DEF Ops
<1>2. op' = [op EXCEPT ![c] = r] BY DEF TypeOK
<1> HIDE DEF r
<1> QED BY <1>1, <1>2, OpBecomes DEF Becomes, Turns

LEMMA KeepObject ==
    ASSUME TypeOK, NEW c \in Caller, NEW at \in Places, NEW x \in Nat,
           op' = [op EXCEPT ![c].at = at, ![c].id = x]
    PROVE  Turns(c, at, op[c].new, op[c].old, op[c].ex, x, op[c].last)
<1> DEFINE r == [op[c] EXCEPT !.at = at, !.id = x]
<1>1. /\ r \in Ops /\ r.at = at /\ r.what = op[c].what /\ r.arg = op[c].arg
      /\ r.new = op[c].new /\ r.old = op[c].old /\ r.ex = op[c].ex /\ r.id = x
      /\ r.last = op[c].last
  BY OpParts, EmptyTyped DEF Ops
<1>2. op' = [op EXCEPT ![c] = r] BY DEF TypeOK
<1> HIDE DEF r
<1> QED BY <1>1, <1>2, OpBecomes DEF Becomes, Turns


-----------------------------------------------------------------------------
(* Maps.                                                                   *)

\* The parts of maps and of a group have their types.
LEMMA MapParts ==
    ASSUME NEW m \in Maps
    PROVE  /\ m.leaf \in [Leaf -> Nat] /\ m.group \in [Group -> GroupType] /\ m.def \in Names
           /\ m.bufs \subseteq Nat \ {0} /\ m.hb \in Nat
  BY SMT DEF Maps
LEMMA GroupParts ==
    ASSUME NEW g \in GroupType
    PROVE  /\ g.id \in Nat /\ g.primary \in Nat /\ g.replicas \subseteq Nat \ {0}
           /\ g.failover \subseteq Nat /\ g.shadowName \in Names /\ g.shadow \in Nat
           /\ g.buffer \in BOOLEAN
  BY SMT DEF GroupType
LEMMA MapsAre ==
    ASSUME NEW leaf \in [Leaf -> Nat], NEW group \in [Group -> GroupType], NEW def \in Names,
           NEW bufs \in SUBSET (Nat \ {0}), NEW h \in Nat
    PROVE  [leaf |-> leaf, group |-> group, def |-> def, bufs |-> bufs, hb |-> h] \in Maps
  BY SMT DEF Maps

\* A group that is built from a valid configuration.
LEMMA BuildGroupTyped ==
    ASSUME NEW g \in GroupConfig, NEW leaf \in [Leaf -> Nat], NEW id \in Nat, ValidGroup(g, leaf)
    PROVE  BuildGroup(g, leaf, id) \in GroupType
<1>1. /\ g.primary \in Leaf /\ g.replicas \subseteq Leaf /\ g.failover \subseteq Leaf
      /\ g.shadow \in Names /\ g.buffer \in BOOLEAN
  BY SMT DEF GroupConfig, Names
<1>2. leaf[g.primary] \in Nat
  BY <1>1
<1>3. {leaf[n] : n \in g.replicas} \subseteq Nat \ {0}
  BY <1>1, SMT DEF ValidGroup
<1>4. {leaf[n] : n \in g.failover} \subseteq Nat
  BY <1>1
<1> QED
  BY <1>1, <1>2, <1>3, <1>4, SMT DEF BuildGroup, GroupType

\* What init() builds from a configuration, before it publishes anything.
LEMMA BuildTyped ==
    ASSUME ObjectsOK, NEW cfg \in Configs, ValidConfig(cfg, BuildLeaves(cfg))
    PROVE  /\ BuildLeaves(cfg) \in [Leaf -> Nat]
           /\ BuildGroups(cfg, BuildLeaves(cfg)) \in [Group -> GroupType]
           /\ cfg.def \in Names /\ Len(cfg.leaves) \in Nat /\ Len(cfg.groups) \in Nat
           /\ cfg.heartbeat \in BOOLEAN /\ cfg.stats \in BOOLEAN /\ cfg.async \in BOOLEAN
<1> DEFINE leaf == BuildLeaves(cfg)
<1>0. cfg \in Config
  BY LifecycleAssumption
<1>1. /\ cfg.leaves \in Seq(Leaf) /\ cfg.groups \in Seq(GroupConfig) /\ cfg.def \in Leaf \cup Group
      /\ cfg.heartbeat \in BOOLEAN /\ cfg.stats \in BOOLEAN /\ cfg.async \in BOOLEAN
  BY <1>0, SMT DEF Config
<1>2. made.pool \in Nat /\ made.group \in Nat
  BY SMT DEF ObjectsOK
<1>3. ASSUME NEW n \in Leaf PROVE leaf[n] \in Nat
  <2>1. CASE \E i \in DOMAIN cfg.leaves : cfg.leaves[i] = n
    <3> DEFINE k == CHOOSE i \in DOMAIN cfg.leaves : cfg.leaves[i] = n
    <3>1. k \in DOMAIN cfg.leaves
      BY <2>1
    <3> HIDE DEF k
    <3>2. k \in Nat
      BY <1>1, <3>1, SMT
    <3>3. leaf[n] = made.pool + k
      BY <2>1 DEF BuildLeaves, k
    <3> QED
      BY <1>2, <3>2, <3>3, SMT
  <2>2. CASE ~ \E i \in DOMAIN cfg.leaves : cfg.leaves[i] = n
    <3>1. leaf[n] = 0
      BY <2>2 DEF BuildLeaves
    <3> QED
      BY <3>1, SMT
  <2> QED
    BY <2>1, <2>2
<1>4. leaf \in [Leaf -> Nat]
  <2>1. leaf = [n \in Leaf |-> leaf[n]]
    BY DEF BuildLeaves
  <2> HIDE DEF leaf
  <2> QED
    BY <1>3, <2>1
<1> HIDE DEF leaf
<1>5. ASSUME NEW g \in Group PROVE BuildGroups(cfg, leaf)[g] \in GroupType
  <2>1. CASE \E i \in DOMAIN cfg.groups : cfg.groups[i].name = g
    <3> DEFINE k == CHOOSE i \in DOMAIN cfg.groups : cfg.groups[i].name = g
    <3>1. k \in DOMAIN cfg.groups
      BY <2>1
    <3> HIDE DEF k
    <3>2. k \in Nat /\ cfg.groups[k] \in GroupConfig
      BY <1>1, <3>1, SMT
    <3>3. BuildGroups(cfg, leaf)[g] = BuildGroup(cfg.groups[k], leaf, made.group + k)
      BY <2>1 DEF BuildGroups, k
    <3>4. ValidGroup(cfg.groups[k], leaf)
      BY <3>1 DEF ValidConfig, leaf
    <3>5. made.group + k \in Nat
      BY <1>2, <3>2, SMT
    <3> QED
      BY <1>4, <3>2, <3>3, <3>4, <3>5, BuildGroupTyped
  <2>2. CASE ~ \E i \in DOMAIN cfg.groups : cfg.groups[i].name = g
    <3>1. BuildGroups(cfg, leaf)[g] = NoGroup
      BY <2>2 DEF BuildGroups
    <3> QED
      BY <3>1, EmptyTyped
  <2> QED
    BY <2>1, <2>2
<1>6. BuildGroups(cfg, leaf) \in [Group -> GroupType]
  <2> DEFINE groups == BuildGroups(cfg, leaf)
  <2>1. groups = [g \in Group |-> groups[g]]
    BY DEF BuildGroups
  <2> HIDE DEF groups
  <2>2. \A g \in Group : groups[g] \in GroupType
    BY <1>5 DEF groups
  <2> QED
    BY <2>1, <2>2 DEF groups
<1>7. cfg.def \in Names /\ Len(cfg.leaves) \in Nat /\ Len(cfg.groups) \in Nat
  BY <1>1, SMT DEF Names
<1> QED
  BY <1>1, <1>4, <1>6, <1>7 DEF leaf

\* resolveShadows() sets the shadows of groups whose shadow is a plain source.
LEMMA ResolveTyped ==
    ASSUME NEW m \in Maps, NEW some \in SUBSET Group,
           \A g \in some : m.group[g].shadowName \in Leaf
    PROVE  Resolve(m, some) \in Maps
<1>1. ASSUME NEW g \in some
      PROVE  [m.group[g] EXCEPT !.shadow = m.leaf[m.group[g].shadowName]] \in GroupType
  <2>1. m.group[g] \in GroupType /\ m.leaf[m.group[g].shadowName] \in Nat
    BY MapParts
  <2> QED
    BY <2>1, SMT DEF GroupType
<1> DEFINE group == [g \in Group |->
              IF g \in some THEN [m.group[g] EXCEPT !.shadow = m.leaf[m.group[g].shadowName]]
              ELSE m.group[g]]
<1>2. \A g \in Group : group[g] \in GroupType
  BY <1>1, MapParts
<1>3. group \in [Group -> GroupType]
  BY <1>2
<1>4. Resolve(m, some) = [m EXCEPT !.group = group]
  BY DEF Resolve
<1> HIDE DEF group
<1> QED
  BY <1>3, <1>4, SMT DEF Maps

\* The updates of published maps: one name, one group, the default, the buffers.
WithLeaf(m, n, p) == [m EXCEPT !.leaf[n] = p]
WithGroup(m, g, x, b) == [m EXCEPT !.group[g] = x, !.bufs = b]
WithDefault(m, d) == [m EXCEPT !.def = d]
WithBuffers(m) == [m EXCEPT !.bufs = Buffers(m)]

LEMMA SetLeaf ==
    ASSUME NEW m \in Maps, NEW n \in Leaf, NEW p \in Nat
    PROVE  /\ WithLeaf(m, n, p) \in Maps /\ WithLeaf(m, n, p).leaf[n] = p
           /\ \A a \in Leaf \ {n} : WithLeaf(m, n, p).leaf[a] = m.leaf[a]
           /\ WithLeaf(m, n, p).group = m.group /\ WithLeaf(m, n, p).def = m.def
           /\ WithLeaf(m, n, p).bufs = m.bufs /\ WithLeaf(m, n, p).hb = m.hb
  BY DEF Maps, WithLeaf
LEMMA SetGroup ==
    ASSUME NEW m \in Maps, NEW g \in Group, NEW x \in GroupType, NEW b \in SUBSET (Nat \ {0})
    PROVE  /\ WithGroup(m, g, x, b) \in Maps /\ WithGroup(m, g, x, b).group[g] = x
           /\ \A a \in Group \ {g} : WithGroup(m, g, x, b).group[a] = m.group[a]
           /\ WithGroup(m, g, x, b).leaf = m.leaf /\ WithGroup(m, g, x, b).def = m.def
           /\ WithGroup(m, g, x, b).bufs = b /\ WithGroup(m, g, x, b).hb = m.hb
  BY DEF Maps, WithGroup
LEMMA SetDefault ==
    ASSUME NEW m \in Maps, NEW d \in Names
    PROVE  /\ WithDefault(m, d) \in Maps /\ WithDefault(m, d).def = d
           /\ WithDefault(m, d).leaf = m.leaf /\ WithDefault(m, d).group = m.group
           /\ WithDefault(m, d).bufs = m.bufs /\ WithDefault(m, d).hb = m.hb
  BY DEF Maps, WithDefault
LEMMA SetBuffers ==
    ASSUME NEW m \in Maps, Buffers(m) \in SUBSET (Nat \ {0})
    PROVE  /\ WithBuffers(m) \in Maps /\ WithBuffers(m).bufs = Buffers(m)
           /\ WithBuffers(m).leaf = m.leaf /\ WithBuffers(m).group = m.group
           /\ WithBuffers(m).def = m.def /\ WithBuffers(m).hb = m.hb
  BY DEF Maps, WithBuffers

\* The pools and the buffers of maps.
LEMMA PoolsTyped == ASSUME NEW m \in Maps PROVE Pools(m) \subseteq Nat \ {0} /\ Replicas(m) \subseteq Nat \ {0}
<1>0. m.leaf \in [Leaf -> Nat] /\ m.group \in [Group -> GroupType]
  BY MapParts
<1>1. Pools(m) \subseteq Nat \ {0}
  BY <1>0, SMT DEF Pools
<1>2. \A g \in Group : m.group[g].replicas \subseteq Nat \ {0}
  BY <1>0, GroupParts
<1>3. Replicas(m) \subseteq Nat \ {0}
  BY <1>2 DEF Replicas
<1> QED
  BY <1>1, <1>3

\* One heartbeat manager of the list changes.
LEMMA HbTyped ==
    ASSUME hb \in Seq(Heartbeats), NEW h, NEW at \in {"off", "asleep", "sweep", "done"},
           NEW stop \in BOOLEAN, NEW pools \in SUBSET Nat
    PROVE  /\ [hb EXCEPT ![h].at = at] \in Seq(Heartbeats)
           /\ [hb EXCEPT ![h].stop = stop] \in Seq(Heartbeats)
           /\ [hb EXCEPT ![h].pools = pools] \in Seq(Heartbeats)
           /\ [hb EXCEPT ![h].spared = pools] \in Seq(Heartbeats)
           /\ [hb EXCEPT ![h].at = at, ![h].pools = pools] \in Seq(Heartbeats)
           /\ h \in DOMAIN hb => hb[h].pools \subseteq Nat /\ hb[h].spared \subseteq Nat
<1>1. hb \in [1 .. Len(hb) -> Heartbeats] /\ Len(hb) \in Nat
  BY SMT
<1>2. ASSUME NEW f \in [1 .. Len(hb) -> Heartbeats] PROVE f \in Seq(Heartbeats)
  BY <1>1, SMT
<1>3. ASSUME NEW f \in [1 .. Len(hb) -> Heartbeats], NEW r, h \in 1 .. Len(hb) => r \in Heartbeats
      PROVE  [f EXCEPT ![h] = r] \in [1 .. Len(hb) -> Heartbeats]
  BY <1>3
<1>4. ASSUME NEW r \in Heartbeats
      PROVE  /\ [r EXCEPT !.at = at] \in Heartbeats
             /\ [r EXCEPT !.stop = stop] \in Heartbeats
             /\ [r EXCEPT !.pools = pools] \in Heartbeats
             /\ [r EXCEPT !.spared = pools] \in Heartbeats
  BY SMT DEF Heartbeats
<1>5. ASSUME NEW f \in [1 .. Len(hb) -> Heartbeats]
      PROVE  /\ [f EXCEPT ![h].at = at] \in [1 .. Len(hb) -> Heartbeats]
             /\ [f EXCEPT ![h].stop = stop] \in [1 .. Len(hb) -> Heartbeats]
             /\ [f EXCEPT ![h].pools = pools] \in [1 .. Len(hb) -> Heartbeats]
             /\ [f EXCEPT ![h].spared = pools] \in [1 .. Len(hb) -> Heartbeats]
  <2>1. h \in 1 .. Len(hb) => f[h] \in Heartbeats
    OBVIOUS
  <2> QED
    BY <2>1, <1>3, <1>4
<1>6. [[hb EXCEPT ![h].at = at] EXCEPT ![h].pools = pools] \in [1 .. Len(hb) -> Heartbeats]
  BY <1>1, <1>5
<1>7. h \in DOMAIN hb => hb[h].pools \subseteq Nat /\ hb[h].spared \subseteq Nat
  BY <1>1 DEF Heartbeats
<1> QED
  BY <1>1, <1>2, <1>5, <1>6, <1>7

-----------------------------------------------------------------------------
(* What a step does to its call, and that it keeps the types.              *)

\* The types of the next state, part by part.
LEMMA TypesKept ==
    ASSUME ClientOK', ObjectsOK', man' \in Maps, op' \in [Caller -> Ops]
    PROVE  TypeOK'
  BY DEF TypeOK

\* The variables of each part.
clientVars == <<state, lifecycle, mtx, sampler, reporting, collector, lease, exec, req, alive, undone>>
objectVars == <<open, replica, flushing, hb, made>>
LEMMA ClientSame == ASSUME TypeOK, UNCHANGED clientVars PROVE ClientOK'
  BY DEF TypeOK, clientVars, ClientOK
LEMMA ObjectsSame == ASSUME TypeOK, UNCHANGED objectVars PROVE ObjectsOK'
  BY DEF TypeOK, objectVars, ObjectsOK

\* Maps with the same names have the same pools, and with the same groups the same
\* replicas and buffers.
LEMMA SameLeaves == ASSUME NEW m, NEW k, m.leaf = k.leaf PROVE Pools(m) = Pools(k)
  BY DEF Pools
LEMMA SameGroups ==
    ASSUME NEW m, NEW k, m.group = k.group
    PROVE  Replicas(m) = Replicas(k) /\ Buffers(m) = Buffers(k)
<1>1. Replicas(m) = Replicas(k)
  BY DEF Replicas
<1>2. Buffers(m) = Buffers(k)
  BY DEF Buffers
<1> QED
  BY <1>1, <1>2

\* The numbers that have been given.
LEMMA MadeParts ==
    ASSUME ObjectsOK
    PROVE  made.pool \in Nat /\ made.group \in Nat /\ made.calls \in Nat
  BY SMT DEF ObjectsOK

\* The buffers of what init() has built are numbered from 1.
LEMMA BuffersTyped ==
    ASSUME NEW m \in Maps, \A g \in Group : m.group[g].buffer => m.group[g].id # 0
    PROVE  Buffers(m) \subseteq Nat \ {0}
<1>1. \A g \in Group : m.group[g].id \in Nat
  BY MapParts, GroupParts
<1> QED
  BY <1>1 DEF Buffers

\* StartNew() starts threads and publishes nothing.
LEMMA StartNewStep ==
    ASSUME TypeOK, NEW c \in Caller, StartNew(c)
    PROVE  TypeOK' /\ Goes(c, "publish")
<1>1. Goes(c, "publish")
  BY GoGoes DEF StartNew, Places, InitPlaces
<1>2. ClientOK'
  BY ClientSame DEF clientVars, StartNew
<1>3. hb' \in Seq(Heartbeats)
  BY HbTyped DEF TypeOK, ObjectsOK, StartNew
<1>4. op[c].new.bufs \subseteq Nat \ {0}
  BY OpParts, MapParts
<1>5. ObjectsOK'
  BY <1>3, <1>4 DEF TypeOK, ObjectsOK, StartNew
<1> QED
  BY <1>1, <1>2, <1>5, TypesKept DEF TypeOK, StartNew, Goes, Turns

\* init() publishes its maps and keeps the old ones.
LEMMA PublishStep ==
    ASSUME TypeOK, NEW c \in Caller, Publish(c)
    PROVE  TypeOK' /\ Turns(c, "shadows", NoMaps, man, op[c].ex, op[c].id, op[c].last)
<1>1. Turns(c, "shadows", NoMaps, man, op[c].ex, op[c].id, op[c].last)
  BY SwapMaps DEF Publish, Places, InitPlaces, TypeOK
<1>2. ClientOK'
  BY ClientSame DEF clientVars, Publish, client, threads
<1>3. ObjectsOK'
  BY ObjectsSame DEF objectVars, Publish, threads
<1>4. man' \in Maps
  BY OpParts DEF Publish
<1> QED
  BY <1>1, <1>2, <1>3, <1>4, TypesKept DEF Turns

\* resolveShadows() sets shadows in the published maps and goes one way or the other.
LEMMA ResolveStep ==
    ASSUME TypeOK, NEW c \in Caller, NEW good \in Places, NEW bad \in Places,
           ResolveShadows(c, good, bad)
    PROVE  /\ TypeOK' /\ (Goes(c, good) \/ Goes(c, bad))
           /\ \E some \in SUBSET Shadowed(man) :
                 (\A g \in some : ShadowOk(man, g)) /\ man' = Resolve(man, some)
<1>1. Goes(c, good) \/ Goes(c, bad)
  BY GoGoes DEF ResolveShadows
<1>2. ClientOK'
  BY ClientSame DEF clientVars, ResolveShadows, client, threads
<1>3. ObjectsOK'
  BY ObjectsSame DEF objectVars, ResolveShadows, threads
<1>4. \E some \in SUBSET Shadowed(man) :
         (\A g \in some : ShadowOk(man, g)) /\ man' = Resolve(man, some)
  BY DEF ResolveShadows
<1>5. man' \in Maps
  BY <1>4, ResolveTyped DEF TypeOK, Shadowed, ShadowOk
<1> QED
  BY <1>1, <1>2, <1>3, <1>4, <1>5, TypesKept DEF Turns, Goes

\* A rejected reload puts the old maps back, under the lock.
LEMMA UndoInitStep ==
    ASSUME TypeOK, NEW c \in Caller, UndoInit(c)
    PROVE  TypeOK' /\ Turns(c, "undoStop", op[c].new, man, op[c].ex, op[c].id, op[c].last)
<1>1. Turns(c, "undoStop", op[c].new, man, op[c].ex, op[c].id, op[c].last)
  BY KeepMaps DEF UndoInit, Places, InitPlaces, TypeOK
<1>2. ClientOK'
  BY DEF TypeOK, ClientOK, UndoInit, client, threads
<1>3. ObjectsOK'
  BY DEF TypeOK, ObjectsOK, UndoInit, threads
<1>4. man' = WithDefault(op[c].old, man.def) /\ man' \in Maps
  <2>1. man' = WithDefault(op[c].old, man.def)
    BY DEF UndoInit, WithDefault
  <2> QED
    BY <2>1, OpParts, MapParts, SetDefault DEF TypeOK
<1> QED
  BY <1>1, <1>2, <1>3, <1>4, TypesKept DEF Turns

\* HeartbeatManager::stop() sets the flag of one manager.
LEMMA StopHeartbeatStep ==
    ASSUME TypeOK, NEW c \in Caller, NEW h, NEW p \in Places, StopHeartbeat(c, h, p)
    PROVE  TypeOK' /\ Goes(c, p)
<1>1. Goes(c, p)
  BY GoGoes DEF StopHeartbeat
<1>2. ClientOK'
  BY ClientSame DEF clientVars, StopHeartbeat, client
<1>3. hb' \in Seq(Heartbeats)
  BY HbTyped DEF TypeOK, ObjectsOK, StopHeartbeat
<1>4. ObjectsOK'
  BY <1>3 DEF TypeOK, ObjectsOK, StopHeartbeat
<1> QED
  BY <1>1, <1>2, <1>4, TypesKept DEF TypeOK, StopHeartbeat, Goes, Turns

\* The rollback of init() returns the error and releases both locks.
LEMMA UndoJoinStep == ASSUME TypeOK, NEW c \in Caller, UndoJoin(c) PROVE TypeOK' /\ Becomes(c, NoOp)
<1>1. Becomes(c, NoOp)
  BY ReturnEnds DEF UndoJoin
<1>2. ClientOK'
  BY DEF TypeOK, ClientOK, UndoJoin, threads
<1>3. ObjectsOK'
  BY DEF TypeOK, ObjectsOK, UndoJoin, threads
<1> QED
  BY <1>1, <1>2, <1>3, TypesKept DEF TypeOK, UndoJoin, Becomes

\* The call that is none.
LEMMA NoOpParts ==
    /\ NoOp.at = "idle" /\ NoOp.what = NoName /\ NoOp.arg = NoName /\ NoOp.new = NoMaps
    /\ NoOp.old = NoMaps /\ NoOp.ex = 0 /\ NoOp.id = 0 /\ NoOp.last = FALSE
  BY SMT DEF NoOp

\* The place of a call tells what call it is.
LEMMA CallOf ==
    ASSUME TypeOK, NEW c \in Caller, Placed(c)
    PROVE  /\ op[c].at \in InitPlaces \ {"hbStop", "retire"} => op[c].what = "init" /\ op[c].arg \in Configs
           /\ op[c].at \in {"hbStop", "retire"} => op[c].what \in {"init", "shutdown", "destroy"}
           /\ op[c].at \in {"stopAsync", "drain", "stats", "clear", "disown", "take"} =>
                 op[c].what \in {"shutdown", "destroy"}
           /\ op[c].at = "unlock" => op[c].what = "shutdown"
           /\ op[c].at \in {"again", "gone"} => op[c].what = "destroy"
           /\ op[c].at \in {"add", "insert"} => op[c].what = "add" /\ op[c].arg \in Leaf
           /\ op[c].at \in {"remove", "close"} => op[c].what = "remove" /\ op[c].arg \in Leaf
           /\ op[c].at \in AddGroupPlaces => op[c].what = "addGroup" /\ op[c].arg \in Additions
           /\ op[c].at \in {"removeGroup", "stopBuffer"} => op[c].what = "removeGroup" /\ op[c].arg \in Group
           /\ op[c].at # "idle" => op[c].what # NoName
<1>1. op[c].what \in Call \cup {NoName} /\ NoName \notin Call
  BY OpParts, LifecycleAssumption
<1>2. CASE op[c].what = NoName
  <2>1. op[c].at = "idle"
    <3>1. op[c] = NoOp
      BY <1>2 DEF Placed
    <3> QED
      BY <3>1, NoOpParts
  <2> QED
    BY <2>1, SMT DEF InitPlaces, AddGroupPlaces
<1>3. CASE op[c].what \in Call
  <2>1. op[c].what # NoName
    BY <1>1, <1>3
  <2>2. CASE op[c].what = "init"
    BY <2>1, <2>2, SMT DEF Placed, InitPlaces, Drains, AddGroupPlaces
  <2>3. CASE op[c].what \in {"shutdown", "destroy"}
    BY <2>1, <2>3, SMT DEF Placed, InitPlaces, Drains, AddGroupPlaces
  <2>4. CASE op[c].what \in {"add", "remove", "addGroup", "removeGroup"}
    BY <2>1, <2>4, SMT DEF Placed, InitPlaces, Drains, AddGroupPlaces
  <2> QED
    BY <1>3, <2>2, <2>3, <2>4 DEF Call
<1> QED
  BY <1>1, <1>2, <1>3

\* An executor is retired.
LEMMA ExecStops ==
    ASSUME TypeOK, exec' = [exec EXCEPT !.cur = 0, !.open = @ \ {exec.cur}]
    PROVE  /\ exec' \in [cur : Nat, open : SUBSET Nat, n : Nat]
           /\ exec'.cur = 0 /\ exec'.open = exec.open \ {exec.cur} /\ exec.cur \in Nat
<1>1. exec \in [cur : Nat, open : SUBSET Nat, n : Nat]
  BY DEF TypeOK, ClientOK
<1> QED
  BY <1>1

\* The lease is taken by init(), given up by shutdown(); the reporter is stopped,
\* joined, started.
LEMMA TakeLeaseStep == ASSUME TypeOK, NEW c \in Caller, TakeLease(c) PROVE TypeOK' /\ Goes(c, "statsStart")
<1>1. Goes(c, "statsStart")
  BY GoGoes DEF TakeLease, Places, InitPlaces
<1>2. lease' \in [owner : BOOLEAN, by : Sampler \cup {NoName}]
  BY DEF TypeOK, ClientOK, TakeLease
<1>3. ClientOK'
  BY <1>2 DEF TypeOK, ClientOK, TakeLease, client
<1>4. ObjectsOK'
  BY ObjectsSame DEF objectVars, TakeLease
<1> QED
  BY <1>1, <1>3, <1>4, TypesKept DEF TypeOK, TakeLease, Goes, Turns

LEMMA StatsStartStep ==
    ASSUME TypeOK, NEW c \in Caller, Placed(c), StatsStart(c)
    PROVE  TypeOK' /\ Goes(c, "hbStop") /\ op[c].what = "init"
<1>1. Goes(c, "hbStop")
  BY GoGoes DEF StatsStart, Places, InitPlaces
<1>2. op[c].what = "init" /\ op[c].arg \in Configs
  BY CallOf DEF StatsStart, At, InitPlaces
<1>3. op[c].arg.stats \in BOOLEAN
  BY <1>2, LifecycleAssumption DEF Config
<1>4. ClientOK'
  BY <1>3 DEF TypeOK, ClientOK, StatsStart, client
<1>5. ObjectsOK'
  BY ObjectsSame DEF objectVars, StatsStart
<1> QED
  BY <1>1, <1>2, <1>4, <1>5, TypesKept DEF TypeOK, StatsStart, Goes, Turns

\* Old buffers and pools are taken down; what follows depends on the call.
LEMMA RetireStep ==
    ASSUME TypeOK, NEW c \in Caller, Placed(c), Retire(c)
    PROVE  /\ TypeOK' /\ op[c].what \in {"init", "shutdown", "destroy"}
           /\ op[c].what = "init" => Goes(c, "async")
           /\ op[c].what = "shutdown" => Goes(c, "unlock")
           /\ op[c].what = "destroy" => IF op[c].last THEN Goes(c, "gone") ELSE Goes(c, "again")
<1>1. op[c].what \in {"init", "shutdown", "destroy"}
  BY CallOf DEF Retire, At
<1>2. /\ op[c].what = "init" => Go(c, "async")
      /\ op[c].what = "shutdown" => Go(c, "unlock")
      /\ op[c].what = "destroy" => IF op[c].last THEN Go(c, "gone") ELSE Go(c, "again")
  BY DEF Retire
<1>3. /\ op[c].what = "init" => Goes(c, "async")
      /\ op[c].what = "shutdown" => Goes(c, "unlock")
      /\ op[c].what = "destroy" => IF op[c].last THEN Goes(c, "gone") ELSE Goes(c, "again")
  BY <1>2, GoGoes DEF Places, InitPlaces, Drains
<1>4. ClientOK'
  BY ClientSame DEF clientVars, Retire, client, threads
<1>5. ObjectsOK'
  BY DEF TypeOK, ObjectsOK, Retire, threads
<1> QED
  BY <1>1, <1>3, <1>4, <1>5, TypesKept DEF TypeOK, Retire, Goes, Turns

\* The executor is made, kept or retired at the end of init().
LEMMA ConfigureAsyncStep ==
    ASSUME TypeOK, NEW c \in Caller, ConfigureAsync(c)
    PROVE  /\ TypeOK'
           /\ \/ Becomes(c, NoOp) /\ Running(c)
                 /\ \/ exec.cur # 0 /\ UNCHANGED exec
                    \/ exec.cur = 0 /\ exec'.cur = exec.n + 1 /\ exec'.open = exec.open \cup {exec.n + 1}
              \/ /\ Turns(c, "asyncJoin", op[c].new, op[c].old, exec.cur, op[c].id, op[c].last)
                 /\ exec'.cur = 0 /\ exec'.open = exec.open \ {exec.cur} /\ UNCHANGED <<state, lifecycle>>
<1>1. exec.cur \in Nat /\ exec.open \subseteq Nat /\ exec.n \in Nat /\ exec.n + 1 \in Nat
  BY SMT DEF TypeOK, ClientOK
<1>2. ObjectsOK' /\ man' \in Maps
  BY ObjectsSame DEF objectVars, ConfigureAsync, threads, TypeOK
<1>3. CASE Running(c) /\ exec.cur # 0 /\ UNCHANGED exec
  <2>1. Becomes(c, NoOp)
    BY <1>3, ReturnEnds DEF Running
  <2>2. ClientOK'
    BY <1>3 DEF TypeOK, ClientOK, ConfigureAsync, Running, threads
  <2> QED
    BY <1>2, <1>3, <2>1, <2>2, TypesKept DEF Becomes
<1>4. CASE /\ Running(c) /\ exec.cur = 0
           /\ exec' = [cur |-> exec.n + 1, open |-> exec.open \cup {exec.n + 1}, n |-> exec.n + 1]
  <2>1. Becomes(c, NoOp)
    BY <1>4, ReturnEnds DEF Running
  <2>2. exec' \in [cur : Nat, open : SUBSET Nat, n : Nat] /\ exec'.cur = exec.n + 1
        /\ exec'.open = exec.open \cup {exec.n + 1}
    BY <1>1, <1>4
  <2>3. ClientOK'
    BY <1>4, <2>2 DEF TypeOK, ClientOK, ConfigureAsync, Running, threads
  <2> QED
    BY <1>2, <1>4, <2>1, <2>2, <2>3, TypesKept DEF Becomes
<1>5. CASE /\ exec' = [exec EXCEPT !.cur = 0, !.open = @ \ {exec.cur}]
           /\ op' = [op EXCEPT ![c].at = "asyncJoin", ![c].ex = exec.cur]
           /\ UNCHANGED <<state, lifecycle>>
  <2>1. Turns(c, "asyncJoin", op[c].new, op[c].old, exec.cur, op[c].id, op[c].last)
    BY <1>1, <1>5, KeepExecutor DEF Places, InitPlaces
  <2>2. exec' \in [cur : Nat, open : SUBSET Nat, n : Nat] /\ exec'.cur = 0
        /\ exec'.open = exec.open \ {exec.cur}
    BY <1>5, ExecStops
  <2>3. ClientOK'
    BY <1>5, <2>2 DEF TypeOK, ClientOK, ConfigureAsync, threads
  <2> QED
    BY <1>2, <1>5, <2>1, <2>2, <2>3, TypesKept DEF Turns
<1> QED
  BY <1>3, <1>4, <1>5 DEF ConfigureAsync

LEMMA AsyncJoinStep == ASSUME TypeOK, NEW c \in Caller, AsyncJoin(c) PROVE TypeOK' /\ Becomes(c, NoOp)
<1>1. Becomes(c, NoOp)
  BY ReturnEnds DEF AsyncJoin, Running
<1>2. ClientOK'
  BY DEF TypeOK, ClientOK, AsyncJoin, Running, threads
<1>3. ObjectsOK'
  BY ObjectsSame DEF objectVars, AsyncJoin, threads
<1> QED
  BY <1>1, <1>2, <1>3, TypesKept DEF TypeOK, AsyncJoin, Becomes

\* Client::shutdown() and ~Client() step by step.
LEMMA StopAsyncStep ==
    ASSUME TypeOK, NEW c \in Caller, StopAsync(c)
    PROVE  /\ TypeOK' /\ Turns(c, "drain", op[c].new, op[c].old, exec.cur, op[c].id, op[c].last)
           /\ exec'.cur = 0 /\ exec'.open = exec.open \ {exec.cur}
<1>1. exec.cur \in Nat /\ exec' \in [cur : Nat, open : SUBSET Nat, n : Nat] /\ exec'.cur = 0
      /\ exec'.open = exec.open \ {exec.cur}
  BY ExecStops DEF StopAsync
<1>2. Turns(c, "drain", op[c].new, op[c].old, exec.cur, op[c].id, op[c].last)
  BY <1>1, KeepExecutor DEF Places, StopAsync
<1>3. ClientOK'
  BY <1>1 DEF TypeOK, ClientOK, StopAsync, threads
<1>4. ObjectsOK'
  BY ObjectsSame DEF objectVars, StopAsync, threads
<1> QED
  BY <1>1, <1>2, <1>3, <1>4, TypesKept DEF TypeOK, StopAsync, Turns

LEMMA DrainStep ==
    ASSUME TypeOK, NEW c \in Caller, Drain(c)
    PROVE  TypeOK' /\ Turns(c, "stats", op[c].new, op[c].old, 0, op[c].id, op[c].last)
<1>1. Turns(c, "stats", op[c].new, op[c].old, 0, op[c].id, op[c].last)
  BY KeepExecutor DEF Places, Drains, Drain
<1>2. ClientOK'
  BY ClientSame DEF clientVars, Drain, client, threads
<1>3. ObjectsOK'
  BY ObjectsSame DEF objectVars, Drain, threads
<1> QED
  BY <1>1, <1>2, <1>3, TypesKept DEF TypeOK, Drain, Turns

LEMMA ShutStatsStep == ASSUME TypeOK, NEW c \in Caller, ShutStats(c) PROVE TypeOK' /\ Goes(c, "clear")
<1>1. Goes(c, "clear")
  BY GoGoes DEF ShutStats, Places, Drains
<1>2. ClientOK'
  BY DEF TypeOK, ClientOK, ShutStats, client
<1>3. ObjectsOK'
  BY ObjectsSame DEF objectVars, ShutStats
<1> QED
  BY <1>1, <1>2, <1>3, TypesKept DEF TypeOK, ShutStats, Goes, Turns

LEMMA ShutClearStep == ASSUME TypeOK, NEW c \in Caller, ShutClear(c) PROVE TypeOK' /\ Goes(c, "disown")
<1>1. Goes(c, "disown")
  BY GoGoes DEF ShutClear, Places, Drains
<1>2. ClientOK'
  BY DEF TypeOK, ClientOK, ShutClear, client
<1>3. ObjectsOK'
  BY ObjectsSame DEF objectVars, ShutClear
<1> QED
  BY <1>1, <1>2, <1>3, TypesKept DEF TypeOK, ShutClear, Goes, Turns

LEMMA DisownStep == ASSUME TypeOK, NEW c \in Caller, Disown(c) PROVE TypeOK' /\ Goes(c, "take")
<1>1. Goes(c, "take")
  BY GoGoes DEF Disown, Places, Drains
<1>2. lease' \in [owner : BOOLEAN, by : Sampler \cup {NoName}]
  BY DEF TypeOK, ClientOK, Disown
<1>3. ClientOK'
  BY <1>2 DEF TypeOK, ClientOK, Disown, client
<1>4. ObjectsOK'
  BY ObjectsSame DEF objectVars, Disown
<1> QED
  BY <1>1, <1>3, <1>4, TypesKept DEF TypeOK, Disown, Goes, Turns

LEMMA TakeMapsStep ==
    ASSUME TypeOK, NEW c \in Caller, TakeMaps(c)
    PROVE  TypeOK' /\ Turns(c, "hbStop", op[c].new, man, op[c].ex, op[c].id, op[c].last)
<1>1. Turns(c, "hbStop", op[c].new, man, op[c].ex, op[c].id, op[c].last)
  BY KeepMaps DEF TakeMaps, Places, Drains, TypeOK
<1>2. ClientOK'
  BY ClientSame DEF clientVars, TakeMaps, client, threads
<1>3. ObjectsOK'
  BY ObjectsSame DEF objectVars, TakeMaps, threads
<1> QED
  BY <1>1, <1>2, <1>3, EmptyTyped, TypesKept DEF TakeMaps, Turns

LEMMA ShutdownReturnsStep ==
    ASSUME TypeOK, NEW c \in Caller, ShutdownReturns(c)
    PROVE  TypeOK' /\ Becomes(c, NoOp)
<1>1. Becomes(c, NoOp)
  BY ReturnEnds DEF ShutdownReturns
<1>2. ClientOK'
  BY DEF TypeOK, ClientOK, ShutdownReturns, threads
<1>3. ObjectsOK'
  BY ObjectsSame DEF objectVars, ShutdownReturns, threads
<1> QED
  BY <1>1, <1>2, <1>3, TypesKept DEF TypeOK, ShutdownReturns, Becomes

LEMMA ShutAgainStep ==
    ASSUME TypeOK, NEW c \in Caller, ShutAgain(c)
    PROVE  TypeOK' /\ Turns(c, "stats", op[c].new, NoMaps, op[c].ex, op[c].id, TRUE)
<1>1. Turns(c, "stats", op[c].new, NoMaps, op[c].ex, op[c].id, TRUE)
  BY DropMaps DEF ShutAgain, Places, Drains
<1>2. ClientOK'
  BY ClientSame DEF clientVars, ShutAgain, client, threads
<1>3. ObjectsOK'
  BY ObjectsSame DEF objectVars, ShutAgain, threads
<1> QED
  BY <1>1, <1>2, <1>3, TypesKept DEF TypeOK, ShutAgain, Turns

LEMMA GoneStep == ASSUME TypeOK, NEW c \in Caller, Gone(c) PROVE TypeOK' /\ Becomes(c, NoOp)
<1>1. Becomes(c, NoOp)
  BY ReturnEnds DEF Gone
<1>2. ClientOK'
  BY DEF TypeOK, ClientOK, Gone, threads
<1>3. ObjectsOK'
  BY ObjectsSame DEF objectVars, Gone, threads
<1> QED
  BY <1>1, <1>2, <1>3, TypesKept DEF TypeOK, Gone, Becomes

\* A call of the manager that is refused.
LEMMA RefusedStep ==
    ASSUME TypeOK, NEW c \in Caller, NEW place, NEW accepted, Refused(c, place, accepted)
    PROVE  TypeOK' /\ Becomes(c, NoOp)
<1>1. Becomes(c, NoOp)
  BY ReturnEnds DEF Refused
<1>2. ClientOK'
  BY ClientSame DEF clientVars, Refused, client, threads
<1>3. ObjectsOK'
  BY ObjectsSame DEF objectVars, Refused, threads
<1> QED
  BY <1>1, <1>2, <1>3, TypesKept DEF TypeOK, Refused, Becomes

\* addDataSource() and removeDataSource().
LEMMA AddCheckStep ==
    ASSUME TypeOK, NEW c \in Caller, AddCheck(c), ~Refused(c, "add", ~Published(man, op[c].arg))
    PROVE  TypeOK' /\ Goes(c, "insert")
<1>1. Goes(c, "insert")
  BY GoGoes DEF AddCheck, Places
<1>2. ClientOK'
  BY ClientSame DEF clientVars, AddCheck, client, threads
<1>3. ObjectsOK'
  BY OpParts DEF TypeOK, ObjectsOK, AddCheck, threads
<1> QED
  BY <1>1, <1>2, <1>3, TypesKept DEF TypeOK, AddCheck, Goes, Turns

LEMMA AddInsertStep ==
    ASSUME TypeOK, NEW c \in Caller, Placed(c), AddInsert(c)
    PROVE  TypeOK' /\ Becomes(c, NoOp)
<1>1. Becomes(c, NoOp)
  BY ReturnEnds DEF AddInsert
<1>2. ClientOK'
  BY ClientSame DEF clientVars, AddInsert, client
<1>3. op[c].id \in Nat /\ op[c].arg \in Leaf
  BY OpParts, CallOf DEF AddInsert, At
<1>4. man' \in Maps
  <2>1. man' = man \/ man' = WithLeaf(man, op[c].arg, op[c].id)
    BY DEF AddInsert, WithLeaf
  <2>2. WithLeaf(man, op[c].arg, op[c].id) \in Maps
    BY <1>3, SetLeaf DEF TypeOK
  <2> QED
    BY <2>1, <2>2 DEF TypeOK
<1>5. hb' \in Seq(Heartbeats)
  <2>1. hb \in Seq(Heartbeats) /\ open \subseteq Nat
    BY DEF TypeOK, ObjectsOK
  <2>2. CASE man.hb \in DOMAIN hb
    <3> DEFINE pools == hb[man.hb].pools \cup {op[c].id}
    <3> DEFINE spared == hb[man.hb].spared \cup {op[c].id}
    <3>1. pools \in SUBSET Nat /\ spared \in SUBSET Nat
      BY <1>3, <2>1, <2>2, HbTyped
    <3>2. \/ hb' = hb
          \/ hb' = [hb EXCEPT ![man.hb].pools = pools]
          \/ hb' = [hb EXCEPT ![man.hb].spared = spared]
      BY DEF AddInsert
    <3> HIDE DEF pools, spared
    <3>3. /\ [hb EXCEPT ![man.hb].pools = pools] \in Seq(Heartbeats)
          /\ [hb EXCEPT ![man.hb].spared = spared] \in Seq(Heartbeats)
      BY <2>1, <3>1, HbTyped
    <3> QED
      BY <2>1, <3>2, <3>3
  <2>3. CASE man.hb \notin DOMAIN hb
    <3>1. hb' = hb
      BY <2>1, <2>3, SMT DEF AddInsert
    <3> QED
      BY <2>1, <3>1
  <2> QED
    BY <2>2, <2>3
<1>6. ObjectsOK'
  BY <1>3, <1>5 DEF TypeOK, ObjectsOK, AddInsert
<1> QED
  BY <1>1, <1>2, <1>4, <1>6, TypesKept DEF Becomes

LEMMA RemoveLeafStep ==
    ASSUME TypeOK, NEW c \in Caller, Placed(c), RemoveLeaf(c), ~Refused(c, "remove", MayRemove(op[c].arg))
    PROVE  TypeOK' /\ Turns(c, "close", op[c].new, op[c].old, op[c].ex, man.leaf[op[c].arg], op[c].last)
<1>1. op[c].arg \in Leaf /\ man.leaf[op[c].arg] \in Nat
  BY CallOf, MapParts DEF RemoveLeaf, At, TypeOK
<1>2. Turns(c, "close", op[c].new, op[c].old, op[c].ex, man.leaf[op[c].arg], op[c].last)
  BY <1>1, KeepObject DEF RemoveLeaf, Places
<1>3. ClientOK'
  BY ClientSame DEF clientVars, RemoveLeaf, client, threads
<1>4. ObjectsOK'
  BY ObjectsSame DEF objectVars, RemoveLeaf, threads
<1>5. man' \in Maps
  <2>1. man' = WithLeaf(man, op[c].arg, 0)
    BY DEF RemoveLeaf, WithLeaf
  <2> QED
    BY <1>1, <2>1, SetLeaf DEF TypeOK
<1> QED
  BY <1>2, <1>3, <1>4, <1>5, TypesKept DEF Turns

LEMMA CloseLeafStep == ASSUME TypeOK, NEW c \in Caller, CloseLeaf(c) PROVE TypeOK' /\ Becomes(c, NoOp)
<1>1. Becomes(c, NoOp)
  BY ReturnEnds DEF CloseLeaf
<1>2. ClientOK'
  BY ClientSame DEF clientVars, CloseLeaf, client, threads
<1>3. ObjectsOK'
  BY DEF TypeOK, ObjectsOK, CloseLeaf, threads
<1> QED
  BY <1>1, <1>2, <1>3, TypesKept DEF TypeOK, CloseLeaf, Becomes

\* addGroup() and removeGroup().
LEMMA AddGroupStep ==
    ASSUME TypeOK, NEW c \in Caller, Placed(c), AddGroup(c),
           ~Refused(c, "addGroup", MayAddGroup(op[c].arg))
    PROVE  /\ TypeOK'
           /\ Turns(c, "startBuffer", op[c].new, op[c].old, op[c].ex, made.group + 1, op[c].last)
           /\ op[c].arg \in GroupConfig /\ MayAddGroup(op[c].arg)
           /\ BuildGroup(op[c].arg, man.leaf, made.group + 1) \in GroupType
           /\ \E b \in SUBSET (Nat \ {0}) :
                 /\ b = IF op[c].arg.buffer THEN man.bufs \cup {made.group + 1} ELSE man.bufs
                 /\ man' = WithGroup(man, op[c].arg.name, BuildGroup(op[c].arg, man.leaf, made.group + 1), b)
<1> DEFINE g == op[c].arg
           b == IF g.buffer THEN man.bufs \cup {made.group + 1} ELSE man.bufs
           x == BuildGroup(g, man.leaf, made.group + 1)
<1>1. op[c].arg \in Additions /\ g \in GroupConfig
  BY CallOf, LifecycleAssumption DEF AddGroup, At, AddGroupPlaces
<1>2. made.group + 1 \in Nat \ {0} /\ man \in Maps
  BY MadeParts, SMT DEF TypeOK
<1>3. ValidGroup(g, man.leaf) /\ MayAddGroup(g)
  BY DEF AddGroup, MayAddGroup
<1>4. x \in GroupType
  BY <1>1, <1>2, <1>3, MapParts, BuildGroupTyped
<1>5. b \in SUBSET (Nat \ {0})
  BY <1>2, MapParts
<1>6. g.name \in Group /\ g.replicas \subseteq Leaf
  BY <1>1 DEF GroupConfig
<1>7. man' = WithGroup(man, g.name, x, b)
  BY DEF AddGroup, WithGroup
<1>8. man' \in Maps
  <2> HIDE DEF g, x, b
  <2> QED
    BY <1>2, <1>4, <1>5, <1>6, <1>7, SetGroup
<1>9. Turns(c, "startBuffer", op[c].new, op[c].old, op[c].ex, made.group + 1, op[c].last)
  BY <1>2, KeepObject DEF AddGroup, Places, AddGroupPlaces
<1>10. ClientOK'
  BY ClientSame DEF clientVars, AddGroup, client, threads
<1>11. {man.leaf[n] : n \in g.replicas} \subseteq Nat
  BY <1>2, <1>6, MapParts
<1>12. made' \in [pool : Nat, group : Nat, calls : Nat]
  BY <1>2 DEF AddGroup, TypeOK, ObjectsOK
<1>13. ObjectsOK'
  BY <1>11, <1>12 DEF TypeOK, ObjectsOK, AddGroup, threads
<1> QED
  BY <1>1, <1>3, <1>4, <1>5, <1>7, <1>8, <1>9, <1>10, <1>13, TypesKept DEF Turns

LEMMA StartBufferStep ==
    ASSUME TypeOK, NEW c \in Caller, op[c].id # 0, StartBuffer(c)
    PROVE  TypeOK' /\ (Goes(c, "resolve") \/ Goes(c, "undoGroup"))
<1>1. Goes(c, "resolve") \/ Goes(c, "undoGroup")
  BY GoGoes DEF StartBuffer, Places, AddGroupPlaces
<1>2. ClientOK'
  BY ClientSame DEF clientVars, StartBuffer, client, threads
<1>3. op[c].id \in Nat \ {0}
  BY OpParts
<1>4. ObjectsOK'
  BY <1>3 DEF TypeOK, ObjectsOK, StartBuffer, threads
<1> QED
  BY <1>1, <1>2, <1>4, TypesKept DEF TypeOK, StartBuffer, Goes, Turns

LEMMA UndoGroupStep ==
    ASSUME TypeOK, NEW c \in Caller, Placed(c), UndoGroup(c)
    PROVE  /\ TypeOK' /\ Becomes(c, NoOp) /\ op[c].arg.name \in Group
           /\ man' = WithGroup(man, op[c].arg.name, NoGroup, man.bufs \ {op[c].id})
           /\ man.bufs \ {op[c].id} \in SUBSET (Nat \ {0})
<1>1. Becomes(c, NoOp)
  BY ReturnEnds DEF UndoGroup
<1>2. undone' \in BOOLEAN
  BY DEF UndoGroup, TypeOK, ClientOK
<1>3. ClientOK'
  BY <1>2 DEF TypeOK, ClientOK, UndoGroup, client, threads
<1>4. op[c].arg \in GroupConfig
  BY CallOf, LifecycleAssumption DEF UndoGroup, At, AddGroupPlaces
<1>5. op[c].arg.name \in Group
  BY <1>4 DEF GroupConfig
<1>6. man.bufs \ {op[c].id} \in SUBSET (Nat \ {0})
  BY MapParts DEF TypeOK
<1>7. man' = WithGroup(man, op[c].arg.name, NoGroup, man.bufs \ {op[c].id})
  BY DEF UndoGroup, WithGroup
<1>8. WithGroup(man, op[c].arg.name, NoGroup, man.bufs \ {op[c].id}) \in Maps
  BY <1>5, <1>6, EmptyTyped, SetGroup DEF TypeOK
<1>9. ObjectsOK'
  BY DEF TypeOK, ObjectsOK, UndoGroup, threads
<1> QED
  BY <1>1, <1>3, <1>5, <1>6, <1>7, <1>8, <1>9, TypesKept DEF Becomes

LEMMA GroupReturnsStep ==
    ASSUME TypeOK, NEW c \in Caller, GroupReturns(c)
    PROVE  TypeOK' /\ Becomes(c, NoOp)
<1>1. Becomes(c, NoOp)
  BY ReturnEnds DEF GroupReturns
<1>2. ClientOK'
  BY ClientSame DEF clientVars, GroupReturns, client, threads
<1>3. ObjectsOK'
  BY DEF TypeOK, ObjectsOK, GroupReturns, threads
<1> QED
  BY <1>1, <1>2, <1>3, TypesKept DEF TypeOK, GroupReturns, Becomes

LEMMA RemoveGroupStep ==
    ASSUME TypeOK, NEW c \in Caller, Placed(c), RemoveGroup(c),
           ~Refused(c, "removeGroup", man.group[op[c].arg].id # 0 /\ op[c].arg # man.def)
    PROVE  /\ TypeOK' /\ op[c].arg \in Group
           /\ Turns(c, "stopBuffer", op[c].new, op[c].old, op[c].ex, man.group[op[c].arg].id, op[c].last)
           /\ \E b \in SUBSET (Nat \ {0}) :
                 /\ b = IF man.group[op[c].arg].buffer THEN man.bufs \ {man.group[op[c].arg].id}
                        ELSE man.bufs
                 /\ man' = WithGroup(man, op[c].arg, NoGroup, b)
           /\ replica' = (replica \ Pools(man)) \cup Replicas(man')
<1> DEFINE g == op[c].arg
           b == IF man.group[g].buffer THEN man.bufs \ {man.group[g].id} ELSE man.bufs
<1>1. g \in Group /\ man \in Maps
  BY CallOf DEF RemoveGroup, At, TypeOK
<1>2. man.group[g].id \in Nat
  BY <1>1, MapParts, GroupParts
<1>3. Turns(c, "stopBuffer", op[c].new, op[c].old, op[c].ex, man.group[g].id, op[c].last)
  BY <1>2, KeepObject DEF RemoveGroup, Places
<1>4. b \in SUBSET (Nat \ {0})
  BY <1>1, MapParts
<1>5. man' = WithGroup(man, g, NoGroup, b)
  BY DEF RemoveGroup, WithGroup
<1>6. /\ man' \in Maps /\ man'.group[g] = NoGroup /\ man'.leaf = man.leaf
      /\ \A a \in Group \ {g} : man'.group[a] = man.group[a]
  <2> HIDE DEF b, g
  <2>1. /\ WithGroup(man, g, NoGroup, b) \in Maps /\ WithGroup(man, g, NoGroup, b).group[g] = NoGroup
        /\ WithGroup(man, g, NoGroup, b).leaf = man.leaf
        /\ \A a \in Group \ {g} : WithGroup(man, g, NoGroup, b).group[a] = man.group[a]
    BY <1>1, <1>4, EmptyTyped, SetGroup, SMT
  <2> QED
    BY <1>5, <2>1
<1>7. Replicas([man EXCEPT !.group[g] = NoGroup]) = Replicas(man')
  <2> DEFINE m == [man EXCEPT !.group[g] = NoGroup]
  <2>1. m.group = [man.group EXCEPT ![g] = NoGroup] /\ man'.group = [man.group EXCEPT ![g] = NoGroup]
    BY <1>1, <1>5 DEF Maps, WithGroup
  <2>2. m.group = man'.group
    BY <2>1
  <2> HIDE DEF m
  <2>3. Replicas(m) = Replicas(man')
    BY <2>2 DEF Replicas
  <2> QED
    BY <2>3 DEF m
<1>8. replica' = (replica \ Pools(man)) \cup Replicas(man')
  BY <1>7 DEF RemoveGroup
<1>9. ClientOK'
  BY ClientSame DEF clientVars, RemoveGroup, client, threads
<1>10. Replicas(man') \subseteq Nat
  BY <1>6, PoolsTyped
<1>11. ObjectsOK'
  BY <1>8, <1>10 DEF TypeOK, ObjectsOK, RemoveGroup, threads
<1> QED
  BY <1>1, <1>3, <1>4, <1>5, <1>6, <1>8, <1>9, <1>11, TypesKept DEF Turns

LEMMA StopBufferStep == ASSUME TypeOK, NEW c \in Caller, StopBuffer(c) PROVE TypeOK' /\ Becomes(c, NoOp)
<1>1. Becomes(c, NoOp)
  BY ReturnEnds DEF StopBuffer
<1>2. ClientOK'
  BY ClientSame DEF clientVars, StopBuffer, client, threads
<1>3. ObjectsOK'
  BY DEF TypeOK, ObjectsOK, StopBuffer, threads
<1> QED
  BY <1>1, <1>2, <1>3, TypesKept DEF TypeOK, StopBuffer, Becomes

\* The groups that init() builds are numbered from made.group + 1.
LEMMA BuildGroupsIds ==
    ASSUME ObjectsOK, NEW cfg \in Configs, NEW leaf, NEW g \in Group
    PROVE  LET x == BuildGroups(cfg, leaf)[g]
           IN  \/ x = NoGroup
               \/ \E k \in DOMAIN cfg.groups :
                     /\ k \in 1 .. Len(cfg.groups) /\ x.id = made.group + k
                     /\ x = BuildGroup(cfg.groups[k], leaf, made.group + k)
<1> DEFINE x == BuildGroups(cfg, leaf)[g]
<1>0. cfg \in Config
  BY LifecycleAssumption
<1>1. cfg.groups \in Seq(GroupConfig)
  BY <1>0 DEF Config
<1>2. CASE \E i \in DOMAIN cfg.groups : cfg.groups[i].name = g
  <2> DEFINE k == CHOOSE i \in DOMAIN cfg.groups : cfg.groups[i].name = g
  <2>1. k \in DOMAIN cfg.groups
    BY <1>2
  <2>2. x = BuildGroup(cfg.groups[k], leaf, made.group + k)
    BY <1>2 DEF BuildGroups
  <2> HIDE DEF k, x
  <2>3. k \in 1 .. Len(cfg.groups)
    BY <1>1, <2>1, SMT
  <2>4. x.id = made.group + k
    BY <2>2 DEF BuildGroup
  <2> QED
    BY <2>1, <2>2, <2>3, <2>4 DEF x
<1>3. CASE ~ \E i \in DOMAIN cfg.groups : cfg.groups[i].name = g
  BY <1>3 DEF BuildGroups
<1> QED
  BY <1>2, <1>3

\* What init() holds when it has built a topology from the configuration cfg.
Built(cfg, m) ==
    /\ m \in Maps
    /\ m.leaf = BuildLeaves(cfg) /\ m.group = BuildGroups(cfg, BuildLeaves(cfg))
    /\ m.def = cfg.def /\ m.bufs = Buffers(m) /\ m.hb = Len(hb) + 1
    /\ ValidConfig(cfg, BuildLeaves(cfg)) /\ Published(m, m.def)
    /\ made'.pool = made.pool + Len(cfg.leaves) /\ made'.group = made.group + Len(cfg.groups)
    /\ open' = open \cup Pools(m) /\ replica' = replica \cup Replicas(m)
    /\ hb' = Append(hb, [NotStarted EXCEPT !.pools = Pools(m)])

LEMMA InitCallStep ==
    ASSUME TypeOK, NEW c \in Caller, InitCall(c)
    PROVE  /\ TypeOK'
           /\ \E cfg \in Configs, m \in Maps, r \in Ops :
                 /\ Built(cfg, m) /\ Becomes(c, r)
                 /\ r.at = "start" /\ r.what = "init" /\ r.arg = cfg /\ r.new = m
                 /\ r.old = NoMaps /\ r.ex = 0 /\ r.id = 0 /\ r.last = FALSE
<1>1. PICK cfg \in Configs :
         LET leaf == BuildLeaves(cfg)
             new == [leaf |-> leaf, group |-> BuildGroups(cfg, leaf), def |-> cfg.def,
                     bufs |-> {}, hb |-> Len(hb) + 1]
         IN  /\ ValidConfig(cfg, leaf) /\ Published(new, cfg.def)
             /\ made' = [pool |-> made.pool + Len(cfg.leaves),
                         group |-> made.group + Len(cfg.groups), calls |-> made.calls + 1]
             /\ open' = open \cup Pools(new)
             /\ replica' = replica \cup Replicas(new)
             /\ hb' = Append(hb, [NotStarted EXCEPT !.pools = Pools(new)])
             /\ op' = [op EXCEPT ![c] = [NoOp EXCEPT
                         !.at = "start", !.what = "init", !.arg = cfg,
                         !.new = [new EXCEPT !.bufs = Buffers(new)]]]
  BY DEF InitCall
<1> DEFINE leaf == BuildLeaves(cfg)
           group == BuildGroups(cfg, leaf)
           new == [leaf |-> leaf, group |-> group, def |-> cfg.def, bufs |-> {}, hb |-> Len(hb) + 1]
           m == WithBuffers(new)
           r == [NoOp EXCEPT !.at = "start", !.what = "init", !.arg = cfg, !.new = m]
<1>2. /\ leaf \in [Leaf -> Nat] /\ group \in [Group -> GroupType] /\ cfg.def \in Names
      /\ Len(cfg.leaves) \in Nat /\ Len(cfg.groups) \in Nat
  BY <1>1, BuildTyped DEF TypeOK
<1>3. Len(hb) + 1 \in Nat /\ hb \in Seq(Heartbeats)
  BY SMT DEF TypeOK, ObjectsOK
<1>4. /\ new \in Maps /\ new.group = group /\ new.leaf = leaf /\ new.def = cfg.def
      /\ new.hb = Len(hb) + 1
  <2> HIDE DEF leaf, group
  <2> QED
    BY <1>2, <1>3, MapsAre
<1>5. Buffers(new) \in SUBSET (Nat \ {0})
  <2>1. ASSUME NEW g \in Group, group[g].buffer PROVE group[g].id # 0
    <3>1. CASE group[g] = NoGroup
      BY <2>1, <3>1, SMT DEF NoGroup
    <3>2. CASE \E k \in DOMAIN cfg.groups : k \in 1 .. Len(cfg.groups) /\ group[g].id = made.group + k
      <4>1. made.group \in Nat
        BY MadeParts DEF TypeOK
      <4> HIDE DEF group
      <4> QED
        BY <1>2, <3>2, <4>1, SMT
    <3> QED
      BY <3>1, <3>2, BuildGroupsIds DEF TypeOK
  <2> HIDE DEF new, group
  <2> QED
    BY <1>4, <2>1, BuffersTyped
<1>6. /\ m \in Maps /\ m.bufs = Buffers(new) /\ m.leaf = leaf /\ m.group = group /\ m.def = cfg.def
      /\ m.hb = Len(hb) + 1
  <2> HIDE DEF new, leaf, group
  <2>1. new \in Maps
    BY <1>4
  <2>2. /\ m \in Maps /\ m.bufs = Buffers(new) /\ m.leaf = new.leaf /\ m.group = new.group
        /\ m.def = new.def /\ m.hb = new.hb
    BY <1>5, <2>1, SetBuffers
  <2> QED
    BY <1>4, <2>2
<1>7. Pools(new) = Pools(m) /\ Replicas(new) = Replicas(m) /\ Buffers(new) = Buffers(m)
  <2> HIDE DEF new, m, leaf, group
  <2>1. new.leaf = m.leaf /\ new.group = m.group
    BY <1>4, <1>6
  <2> QED
    BY <2>1, SameLeaves, SameGroups
<1>8. Published(m, m.def)
  <2>1. Published(new, cfg.def)
    BY <1>1
  <2> HIDE DEF new, m, leaf, group
  <2> QED
    BY <1>4, <1>6, <2>1 DEF Published
<1>9. r \in Ops /\ r.at = "start" /\ r.what = "init" /\ r.arg = cfg /\ r.new = m
      /\ r.old = NoMaps /\ r.ex = 0 /\ r.id = 0 /\ r.last = FALSE
  <2> HIDE DEF m
  <2>1. NoOp \in Ops
    BY EmptyTyped
  <2> QED
    BY <1>6, <2>1, NoOpParts DEF Ops, Places, InitPlaces, Call
<1>10. op' = [op EXCEPT ![c] = r]
  BY <1>1 DEF WithBuffers
<1>11. Becomes(c, r)
  <2> HIDE DEF r
  <2> QED
    BY <1>9, <1>10, OpBecomes
<1>12. Built(cfg, m)
  <2>1. /\ made' = [pool |-> made.pool + Len(cfg.leaves),
                   group |-> made.group + Len(cfg.groups), calls |-> made.calls + 1]
        /\ open' = open \cup Pools(new) /\ replica' = replica \cup Replicas(new)
        /\ hb' = Append(hb, [NotStarted EXCEPT !.pools = Pools(new)])
        /\ ValidConfig(cfg, leaf)
    BY <1>1
  <2>2. made'.pool = made.pool + Len(cfg.leaves) /\ made'.group = made.group + Len(cfg.groups)
    BY <2>1
  <2> HIDE DEF new, m
  <2> QED
    BY <1>6, <1>7, <1>8, <2>1, <2>2 DEF Built
<1>13. made' \in [pool : Nat, group : Nat, calls : Nat]
  <2>1. made.pool \in Nat /\ made.group \in Nat /\ made.calls \in Nat
    BY MadeParts DEF TypeOK
  <2>2. made' = [pool |-> made.pool + Len(cfg.leaves), group |-> made.group + Len(cfg.groups),
                 calls |-> made.calls + 1]
    BY <1>1
  <2>3. \A x, y \in Nat : x + y \in Nat
    BY SMT
  <2>4. made.pool + Len(cfg.leaves) \in Nat /\ made.group + Len(cfg.groups) \in Nat
        /\ made.calls + 1 \in Nat
    BY <1>2, <2>1, <2>3
  <2> QED
    BY <2>2, <2>4
<1>14. hb' \in Seq(Heartbeats) /\ open' \subseteq Nat /\ replica' \subseteq Nat
  <2> HIDE DEF m
  <2>1. Pools(m) \subseteq Nat /\ Replicas(m) \subseteq Nat
    BY <1>6, PoolsTyped
  <2>2. [NotStarted EXCEPT !.pools = Pools(m)] \in Heartbeats
    BY <2>1 DEF Heartbeats, NotStarted
  <2>3. hb' = Append(hb, [NotStarted EXCEPT !.pools = Pools(m)])
    BY <1>12 DEF Built
  <2>4. hb' \in Seq(Heartbeats)
    BY <1>3, <2>2, <2>3, SMT
  <2> QED
    BY <1>12, <2>1, <2>4 DEF Built, TypeOK, ObjectsOK
<1>15. ClientOK'
  BY DEF TypeOK, ClientOK, InitCall
<1>16. ObjectsOK'
  BY <1>13, <1>14 DEF TypeOK, ObjectsOK, InitCall
<1> HIDE DEF m, r
<1> QED
  BY <1>6, <1>9, <1>11, <1>12, <1>15, <1>16, TypesKept DEF TypeOK, InitCall, Becomes

\* A call of shutdown() or of the destructor.
LEMMA ShutdownTyped ==
    ASSUME NEW at \in {"stopAsync", "again"}, NEW what \in {"shutdown", "destroy"}
    PROVE  LET r == [NoOp EXCEPT !.at = at, !.what = what]
           IN  /\ r \in Ops /\ r.at = at /\ r.what = what /\ r.new = NoMaps /\ r.old = NoMaps
               /\ r.ex = 0 /\ r.id = 0 /\ r.last = FALSE
<1>1. NoOp \in Ops /\ at \in Places /\ what \in Call
  BY EmptyTyped DEF Places, Drains, Call
<1> QED
  BY <1>1, NoOpParts DEF Ops

LEMMA CallsTyped ==
    ASSUME TypeOK, NEW n \in Nat
    PROVE  [made EXCEPT !.calls = @ + 1, !.pool = n] \in [pool : Nat, group : Nat, calls : Nat]
           /\ [made EXCEPT !.calls = @ + 1] \in [pool : Nat, group : Nat, calls : Nat]
<1>1. made \in [pool : Nat, group : Nat, calls : Nat] /\ made.calls + 1 \in Nat
  BY MadeParts, SMT DEF TypeOK, ObjectsOK
<1> QED
  BY <1>1

LEMMA ShutdownCallStep ==
    ASSUME TypeOK, NEW c \in Caller, ShutdownCall(c)
    PROVE  /\ TypeOK'
           /\ \E r \in Ops :
                 /\ Becomes(c, r) /\ r.at = "stopAsync" /\ r.what \in {"shutdown", "destroy"}
                 /\ r.new = NoMaps /\ r.old = NoMaps /\ r.ex = 0 /\ r.id = 0 /\ r.last = FALSE
                 /\ r.what = "destroy" => \A d \in Caller : op[d] = NoOp
           /\ UNCHANGED made.pool /\ UNCHANGED made.group
<1>1. PICK what \in {"shutdown", "destroy"} :
         /\ what = "destroy" => \A d \in Caller : op[d] = NoOp
         /\ op' = [op EXCEPT ![c] = [NoOp EXCEPT !.at = "stopAsync", !.what = what]]
  BY DEF ShutdownCall
<1> DEFINE r == [NoOp EXCEPT !.at = "stopAsync", !.what = what]
<1>2. /\ r \in Ops /\ r.at = "stopAsync" /\ r.what = what /\ r.new = NoMaps /\ r.old = NoMaps
      /\ r.ex = 0 /\ r.id = 0 /\ r.last = FALSE
  BY ShutdownTyped
<1> HIDE DEF r
<1>3. Becomes(c, r)
  BY <1>1, <1>2, OpBecomes DEF r
<1>4. ClientOK'
  BY DEF TypeOK, ClientOK, ShutdownCall, threads
<1>5. made' = [made EXCEPT !.calls = @ + 1] /\ made' \in [pool : Nat, group : Nat, calls : Nat]
  BY CallsTyped DEF ShutdownCall
<1>6. UNCHANGED made.pool /\ UNCHANGED made.group
  BY <1>5 DEF TypeOK, ObjectsOK
<1>7. ObjectsOK'
  BY <1>5 DEF TypeOK, ObjectsOK, ShutdownCall, threads
<1> QED
  BY <1>1, <1>2, <1>3, <1>4, <1>6, <1>7, TypesKept DEF TypeOK, ShutdownCall, Becomes

LEMMA ShutdownIdleStep ==
    ASSUME TypeOK, NEW c \in Caller, ShutdownIdle(c)
    PROVE  /\ TypeOK'
           /\ \/ state = "Empty" /\ UNCHANGED op
              \/ \E r \in Ops :
                    /\ Becomes(c, r) /\ r.at = "again" /\ r.what = "destroy"
                    /\ r.new = NoMaps /\ r.old = NoMaps /\ r.ex = 0 /\ r.id = 0 /\ r.last = FALSE
                    /\ \A d \in Caller : op[d] = NoOp
           /\ UNCHANGED made.pool /\ UNCHANGED made.group
<1>1. ClientOK'
  BY DEF TypeOK, ClientOK, ShutdownIdle, threads
<1>2. made' = [made EXCEPT !.calls = @ + 1] /\ made' \in [pool : Nat, group : Nat, calls : Nat]
  BY CallsTyped DEF ShutdownIdle
<1>3. UNCHANGED made.pool /\ UNCHANGED made.group
  BY <1>2 DEF TypeOK, ObjectsOK
<1>4. ObjectsOK' /\ man' \in Maps
  BY <1>2 DEF TypeOK, ObjectsOK, ShutdownIdle, threads
<1>5. CASE state = "Empty" /\ UNCHANGED op
  BY <1>1, <1>3, <1>4, <1>5, TypesKept DEF TypeOK
<1>6. CASE /\ \A d \in Caller : op[d] = NoOp
           /\ op' = [op EXCEPT ![c] = [NoOp EXCEPT !.at = "again", !.what = "destroy"]]
  <2> DEFINE r == [NoOp EXCEPT !.at = "again", !.what = "destroy"]
  <2>1. /\ r \in Ops /\ r.at = "again" /\ r.what = "destroy" /\ r.new = NoMaps /\ r.old = NoMaps
        /\ r.ex = 0 /\ r.id = 0 /\ r.last = FALSE
    BY ShutdownTyped
  <2> HIDE DEF r
  <2>2. Becomes(c, r)
    BY <1>6, <2>1, OpBecomes DEF r
  <2> QED
    BY <1>1, <1>3, <1>4, <1>6, <2>1, <2>2, TypesKept DEF Becomes
<1> QED
  BY <1>5, <1>6 DEF ShutdownIdle

\* A call of addDataSource(), removeDataSource(), addGroup() or removeGroup().
LEMMA RuntimeCallStep ==
    ASSUME TypeOK, NEW c \in Caller, RuntimeCall(c)
    PROVE  /\ TypeOK' /\ UNCHANGED made.group
           /\ \E r \in Ops :
                 /\ Becomes(c, r) /\ r.at \in {"add", "remove", "addGroup", "removeGroup"}
                 /\ r.what = r.at /\ (r.at \in {"add", "remove"} => r.arg \in Leaf)
                 /\ (r.at = "addGroup" => r.arg \in Additions)
                 /\ (r.at = "removeGroup" => r.arg \in Group)
                 /\ r.new = NoMaps /\ r.old = NoMaps /\ r.ex = 0 /\ r.last = FALSE
                 /\ IF r.at = "add" THEN r.id = made.pool + 1 /\ made'.pool = made.pool + 1
                    ELSE r.id = 0 /\ made'.pool = made.pool
<1>1. PICK at \in {"add", "remove", "addGroup", "removeGroup"} :
        \E arg \in IF at \in {"add", "remove"} THEN Leaf
                   ELSE IF at = "addGroup" THEN Additions ELSE Group :
          /\ op' = [op EXCEPT ![c] = [NoOp EXCEPT !.at = at, !.what = at, !.arg = arg, !.id =
                      IF at = "add" THEN made.pool + (IF at = "add" THEN 1 ELSE 0) ELSE 0]]
          /\ made' = [made EXCEPT !.calls = @ + 1, !.pool = made.pool + (IF at = "add" THEN 1 ELSE 0)]
  BY DEF RuntimeCall
<1>2. PICK arg \in IF at \in {"add", "remove"} THEN Leaf
                   ELSE IF at = "addGroup" THEN Additions ELSE Group :
          /\ op' = [op EXCEPT ![c] = [NoOp EXCEPT !.at = at, !.what = at, !.arg = arg, !.id =
                      IF at = "add" THEN made.pool + (IF at = "add" THEN 1 ELSE 0) ELSE 0]]
          /\ made' = [made EXCEPT !.calls = @ + 1, !.pool = made.pool + (IF at = "add" THEN 1 ELSE 0)]
  BY <1>1
<1> DEFINE n == made.pool + (IF at = "add" THEN 1 ELSE 0)
           id == IF at = "add" THEN n ELSE 0
           r == [NoOp EXCEPT !.at = at, !.what = at, !.arg = arg, !.id = id]
<1>3. n \in Nat /\ id \in Nat /\ (at = "add" => n = made.pool + 1 /\ id = made.pool + 1)
      /\ (at # "add" => n = made.pool /\ id = 0)
  BY MadeParts, SMT DEF TypeOK
<1>4. op' = [op EXCEPT ![c] = r] /\ made' = [made EXCEPT !.calls = @ + 1, !.pool = n]
  BY <1>2
<1> HIDE DEF n, id
<1>5. at \in Places /\ at \in Call /\ NoOp \in Ops
      /\ arg \in {NoName} \cup Configs \cup Additions \cup Leaf \cup Group
  BY EmptyTyped DEF Places, AddGroupPlaces, Call
<1>6. /\ r \in Ops /\ r.at = at /\ r.what = at /\ r.arg = arg /\ r.new = NoMaps /\ r.old = NoMaps
      /\ r.ex = 0 /\ r.id = id /\ r.last = FALSE
  BY <1>3, <1>5, NoOpParts DEF Ops
<1> HIDE DEF r
<1>7. Becomes(c, r)
  BY <1>4, <1>6, OpBecomes
<1>8. made' \in [pool : Nat, group : Nat, calls : Nat] /\ made'.pool = n /\ UNCHANGED made.group
  BY <1>3, <1>4, CallsTyped DEF TypeOK, ObjectsOK
<1>9. ClientOK'
  BY ClientSame DEF clientVars, RuntimeCall, client, threads
<1>10. ObjectsOK'
  BY <1>8 DEF TypeOK, ObjectsOK, RuntimeCall, threads
<1>11. /\ (at \in {"add", "remove"} => arg \in Leaf) /\ (at = "addGroup" => arg \in Additions)
       /\ (at = "removeGroup" => arg \in Group)
  OBVIOUS
<1>12. IF at = "add" THEN id = made.pool + 1 /\ made'.pool = made.pool + 1
       ELSE id = 0 /\ made'.pool = made.pool
  BY <1>3, <1>8
<1>13. TypeOK'
  BY <1>7, <1>9, <1>10, TypesKept DEF TypeOK, RuntimeCall, Becomes
<1> QED
  BY <1>6, <1>7, <1>8, <1>11, <1>12, <1>13

\* The heartbeat threads, the reporter, the reader.
LEMMA HeartbeatStep == ASSUME TypeOK, NEW h \in DOMAIN hb, Heartbeat(h) PROVE TypeOK' /\ UNCHANGED op
<1>1. hb \in Seq(Heartbeats) /\ open \subseteq Nat
  BY DEF TypeOK, ObjectsOK
<1>2. hb[h].pools \subseteq Nat
  BY <1>1, HbTyped
<1>3. hb' \in Seq(Heartbeats)
  <2> DEFINE pools == hb[h].pools \cap open
  <2>1. pools \in SUBSET Nat
    BY <1>2
  <2>2. \/ \E at \in {"off", "asleep", "sweep", "done"} : hb' = [hb EXCEPT ![h].at = at]
        \/ hb' = [hb EXCEPT ![h].at = "asleep", ![h].pools = @ \cap open]
    BY DEF Heartbeat
  <2>3. [hb EXCEPT ![h].at = "asleep", ![h].pools = @ \cap open]
          = [hb EXCEPT ![h].at = "asleep", ![h].pools = pools]
    BY <1>1, SMT
  <2> HIDE DEF pools
  <2>4. \A at \in {"off", "asleep", "sweep", "done"} : [hb EXCEPT ![h].at = at] \in Seq(Heartbeats)
    BY <1>1, HbTyped
  <2>5. [hb EXCEPT ![h].at = "asleep", ![h].pools = pools] \in Seq(Heartbeats)
    BY <1>1, <2>1, HbTyped
  <2> QED
    BY <2>2, <2>3, <2>4, <2>5
<1>4. ClientOK'
  BY ClientSame DEF clientVars, Heartbeat, client
<1>5. ObjectsOK'
  BY <1>3 DEF TypeOK, ObjectsOK, Heartbeat
<1> QED
  BY <1>4, <1>5, TypesKept DEF TypeOK, Heartbeat

LEMMA SampleStep == ASSUME TypeOK, NEW s \in Sampler, Sample(s) PROVE TypeOK' /\ UNCHANGED op
<1>1. sampler' \in [Sampler -> {"off", "wait", "copied", "read", "done"}]
  BY DEF TypeOK, ClientOK, Sample, Samples
<1>2. ClientOK'
  BY <1>1 DEF TypeOK, ClientOK, Sample, client
<1>3. ObjectsOK'
  BY ObjectsSame DEF objectVars, Sample
<1> QED
  BY <1>2, <1>3, TypesKept DEF TypeOK, Sample

LEMMA LockLeaseStep == ASSUME TypeOK, NEW s \in Sampler, LockLease(s) PROVE TypeOK' /\ UNCHANGED op
<1>1. sampler' \in [Sampler -> {"off", "wait", "copied", "read", "done"}]
  BY DEF TypeOK, ClientOK, LockLease, Samples, Sampled
<1>2. lease' \in [owner : BOOLEAN, by : Sampler \cup {NoName}]
  BY DEF TypeOK, ClientOK, LockLease
<1>3. ClientOK'
  BY <1>1, <1>2 DEF TypeOK, ClientOK, LockLease, client
<1>4. ObjectsOK'
  BY ObjectsSame DEF objectVars, LockLease
<1> QED
  BY <1>3, <1>4, TypesKept DEF TypeOK, LockLease

LEMMA ReadStatsStep == ASSUME TypeOK, NEW s \in Sampler, ReadStats(s) PROVE TypeOK' /\ UNCHANGED op
<1>1. sampler' \in [Sampler -> {"off", "wait", "copied", "read", "done"}]
  BY DEF TypeOK, ClientOK, ReadStats, Samples, Sampled
<1>2. lease' \in [owner : BOOLEAN, by : Sampler \cup {NoName}]
  BY DEF TypeOK, ClientOK, ReadStats
<1>3. ClientOK'
  BY <1>1, <1>2 DEF TypeOK, ClientOK, ReadStats, client
<1>4. ObjectsOK'
  BY ObjectsSame DEF objectVars, ReadStats
<1> QED
  BY <1>3, <1>4, TypesKept DEF TypeOK, ReadStats

\* A request moves on; nothing else does.
Moves(r, at, pool, ex) ==
    /\ req'[r].at = at /\ req'[r].pool = pool /\ req'[r].ex = ex
    /\ \A q \in Request \ {r} : req'[q] = req[q]
LEMMA SetStep ==
    ASSUME TypeOK, NEW r \in Request, NEW pool \in Nat, NEW ex \in Nat,
           NEW at \in RequestPlaces,
           Set(r, at, pool, ex), UNCHANGED quiet
    PROVE  TypeOK' /\ Moves(r, at, pool, ex)
<1>1. req' \in [Request -> [at : RequestPlaces, pool : Nat, ex : Nat]]
  BY DEF TypeOK, ClientOK, Set
<1>2. Moves(r, at, pool, ex)
  <2> DEFINE q == [at |-> at, pool |-> pool, ex |-> ex]
  <2>1. q.at = at /\ q.pool = pool /\ q.ex = ex
    OBVIOUS
  <2>2. req' = [req EXCEPT ![r] = q]
    BY DEF Set
  <2> HIDE DEF q
  <2> QED
    BY <2>1, <2>2 DEF TypeOK, ClientOK, Moves
<1>3. ClientOK'
  BY <1>1 DEF TypeOK, ClientOK, quiet, threads
<1>4. ObjectsOK'
  BY ObjectsSame DEF objectVars, quiet, threads
<1> QED
  BY <1>2, <1>3, <1>4, TypesKept DEF TypeOK, quiet

LEMMA RequestParts ==
    ASSUME TypeOK, NEW r \in Request
    PROVE  req[r].pool \in Nat /\ req[r].ex \in Nat /\ exec.cur \in Nat /\ exec.n \in Nat
  BY DEF TypeOK, ClientOK
LEMMA RequestStep ==
    ASSUME TypeOK, NEW r \in Request, FindSource(r) \/ Statement(r)
    PROVE  /\ TypeOK' /\ UNCHANGED quiet
           /\ \/ \E pool \in Nat : Moves(r, "resolved", pool, 0)
              \/ Moves(r, "done", 0, 0)
              \/ \E pool \in Nat : Moves(r, "post", pool, exec.cur)
              \/ req[r].ex \in exec.open /\ Moves(r, "queued", req[r].pool, req[r].ex)
              \/ Moves(r, "engine", 0, req[r].ex)
              \/ (req[r].at = "queued" \/ req[r].ex \in exec.open)
                 /\ Moves(r, "running", 0, req[r].ex)
<1>1. UNCHANGED quiet
  BY DEF FindSource, Statement, TakeExecutor, Post, RunTask, EngineAccepts, EngineRuns
<1>2. req[r].pool \in Nat /\ req[r].ex \in Nat /\ exec.cur \in Nat
  BY RequestParts
<1>3. \/ \E pool \in Nat : Set(r, "resolved", pool, 0)
      \/ Set(r, "done", 0, 0)
      \/ \E pool \in Nat : Set(r, "post", pool, exec.cur)
      \/ req[r].ex \in exec.open /\ Set(r, "queued", req[r].pool, req[r].ex)
      \/ Set(r, "engine", 0, req[r].ex)
      \/ (req[r].at = "queued" \/ req[r].ex \in exec.open)
         /\ Set(r, "running", 0, req[r].ex)
  <2>1. CASE FindSource(r)
    BY <2>1, MapParts DEF FindSource, TypeOK
  <2>2. CASE TakeExecutor(r)
    BY <1>2, <2>2 DEF TakeExecutor
  <2>3. CASE Post(r) \/ RunTask(r)
    BY <1>2, <2>3 DEF Post, RunTask
  <2>4. CASE EngineAccepts(r) \/ EngineRuns(r)
    BY <2>4 DEF EngineAccepts, EngineRuns
  <2> QED
    BY <2>1, <2>2, <2>3, <2>4 DEF Statement
<1>4. 0 \in Nat
  BY SMT
<1> QED
  BY <1>1, <1>2, <1>3, <1>4, SetStep DEF RequestPlaces

-----------------------------------------------------------------------------
(* Where calls are, what they hold and what they wait for.                 *)

ctl == <<state, lifecycle, mtx, lease, sampler, exec, req, alive>>

\* A call that does something is alone with the locks it holds: no client is destroyed
\* meanwhile, unless by this call, and the manager exists.
LEMMA Busy ==
    ASSUME Control, NEW c \in Caller, op[c].what # NoName
    PROVE  /\ alive /\ op[c] # NoOp
           /\ \A d \in Caller \ {c} : op[d].what # "destroy" /\ op[d].last = FALSE
<1>1. op[c] # NoOp
  BY NoOpParts
<1>2. alive
  BY <1>1 DEF Control, Disowned, Quiet
<1>3. \A d \in Caller \ {c} : op[d].what # "destroy"
  BY <1>1 DEF Control, Alone
<1>4. \A d \in Caller : Placed(d) /\ op[d].last \in BOOLEAN
  BY OpParts DEF Control
<1> QED
  BY <1>1, <1>2, <1>3, <1>4 DEF Placed

\* Calls that stay where they are keep what Placed says.
LEMMA OthersPlaced ==
    ASSUME Control, NEW c \in Caller, \A d \in Caller \ {c} : op'[d] = op[d], Placed(c)'
    PROVE  \A d \in Caller : Placed(d)'
<1>1. ASSUME NEW d \in Caller \ {c} PROVE Placed(d)'
  <2>1. Placed(d) /\ op'[d] = op[d]
    BY DEF Control
  <2> QED
    BY <2>1 DEF Placed
<1> QED
  BY <1>1

\* A call moves on, or ends, and touches no executor and no request.
Walks(c) ==
    /\ UNCHANGED <<state, lifecycle, exec, req, alive>>
    /\ \A d \in Caller \ {c} : op'[d] = op[d]
    /\ op[c].what # NoName /\ op[c].at \notin {"asyncJoin", "drain", "stopAsync"}
    /\ \/ op'[c].what = op[c].what
       \/ op'[c] = NoOp /\ op[c].what \in {"add", "remove", "addGroup", "removeGroup"}
    /\ op[c].what \in {"shutdown", "destroy"} /\ op'[c].at \in Drains => op[c].at \in Drains

LEMMA WalkOn ==
    ASSUME Control, NEW c \in Caller, TypeOK', Placed(c)', Walks(c), Locks', Disowned'
    PROVE  Control'
<1>1. alive /\ op[c] # NoOp /\ \A d \in Caller \ {c} : op[d].what # "destroy"
  BY Busy DEF Walks
<1>2. \A d \in Caller : Placed(d)'
  BY OthersPlaced DEF Walks
<1>3. op'[c].what = op[c].what \/ op'[c].what = NoName
  BY NoOpParts DEF Walks
<1>4. NoName \notin {"init", "shutdown", "destroy"}
  BY LifecycleAssumption DEF Call
<1>5. ASSUME NEW d \in Caller PROVE Alone(d)'
  <2>1. Alone(d) /\ state' = state /\ lifecycle' = lifecycle
    BY DEF Control, Walks
  <2>2. CASE d = c
    BY <1>3, <1>4, <2>1, <2>2 DEF Alone, Walks
  <2>3. CASE d # c
    BY <1>1, <2>1, <2>3 DEF Alone, Walks
  <2> QED
    BY <2>2, <2>3
<1>6. Accepted'
  <2>0. Accepted /\ UNCHANGED <<state, exec, req>>
    BY DEF Control, Walks
  <2>1. ASSUME NEW r \in Request, Active(r)
        PROVE  /\ req[r].ex # 0
               /\ \/ req[r].ex \in exec.open
                  \/ \E d \in Caller : op'[d].at \in {"asyncJoin", "drain"} /\ op'[d].ex = req[r].ex
    <3>0. /\ req[r].ex # 0
          /\ \/ req[r].ex \in exec.open
             \/ \E d \in Caller : op[d].at \in {"asyncJoin", "drain"} /\ op[d].ex = req[r].ex
      BY <2>0, <2>1 DEF Accepted
    <3>1. CASE req[r].ex \in exec.open
      BY <3>0, <3>1
    <3>2. CASE \E d \in Caller : op[d].at \in {"asyncJoin", "drain"} /\ op[d].ex = req[r].ex
      <4>1. PICK d \in Caller : op[d].at \in {"asyncJoin", "drain"} /\ op[d].ex = req[r].ex
        BY <3>2
      <4>2. d # c /\ op'[d] = op[d]
        BY <4>1 DEF Walks
      <4>3. op'[d].at \in {"asyncJoin", "drain"} /\ op'[d].ex = req[r].ex
        BY <4>1, <4>2
      <4> QED
        BY <3>0, <4>3
    <3> QED
      BY <3>0, <3>1, <3>2
  <2>2. state # "Running" => exec.cur = 0 \/ \E d \in Caller : op'[d].at = "stopAsync"
    BY <2>0 DEF Accepted, Walks
  <2>3. ASSUME NEW d \in Caller, op'[d].what \in {"shutdown", "destroy"}, op'[d].at \in Drains
        PROVE  \A r \in Request : ~Active(r)
    <3>1. op[d].what \in {"shutdown", "destroy"} /\ op[d].at \in Drains
      BY <1>3, <1>4, <2>3 DEF Walks
    <3> QED
      BY <2>0, <3>1 DEF Accepted
  <2> QED
    BY <2>0, <2>1, <2>2, <2>3 DEF Accepted, Active
<1> QED
  BY <1>2, <1>5, <1>6 DEF Control

\* A call moves on, or ends, and touches no lock, no sampler either.
LEMMA Walk ==
    ASSUME Control, NEW c \in Caller, TypeOK', Placed(c)', Walks(c), UNCHANGED <<mtx, lease, sampler>>,
           op[c].at \in {"undoStop", "undoJoin"} => op'[c].at \in {"undoStop", "undoJoin"},
           op'[c].last /\ op'[c].at \in {"take", "hbStop", "retire", "gone"} =>
              op[c].last /\ op[c].at \in {"take", "hbStop", "retire", "gone"}
    PROVE  Control'
<1>1. alive /\ UNCHANGED alive
  BY Busy DEF Walks
<1>2. Locks'
  <2>1. ASSUME mtx # NoName PROVE op'[mtx].at \in {"undoStop", "undoJoin"}
    <3>1. mtx \in Caller /\ op[mtx].at \in {"undoStop", "undoJoin"}
      BY <2>1 DEF Control, TypeOK, ClientOK, Locks
    <3> QED
      BY <3>1 DEF Walks
  <2> QED
    BY <2>1 DEF Control, Locks
<1>3. Disowned'
  <2>1. ASSUME NEW d \in Caller, op'[d].last, op'[d].at \in {"take", "hbStop", "retire", "gone"}
        PROVE  ~lease.owner
    <3>1. op[d].last /\ op[d].at \in {"take", "hbStop", "retire", "gone"}
      BY <2>1 DEF Walks
    <3> QED
      BY <3>1 DEF Control, Disowned
  <2> QED
    BY <1>1, <2>1 DEF Disowned
<1> QED
  BY <1>2, <1>3, WalkOn

\* A step that concerns no call, lock, executor, request or sampler.
LEMMA Still == ASSUME Control, TypeOK', UNCHANGED <<ctl, op>> PROVE Control'
<1> USE DEF ctl
<1>1. ASSUME NEW d \in Caller PROVE Placed(d)' /\ Alone(d)'
  <2>1. Placed(d) /\ Alone(d)
    BY DEF Control
  <2>2. Placed(d)'
    BY <2>1 DEF Placed
  <2> QED
    BY <2>1, <2>2 DEF Alone
<1>2. Locks' /\ Disowned'
  BY DEF Control, Locks, Disowned, Quiet
<1>3. Accepted'
  BY DEF Control, Accepted, Active
<1> QED
  BY <1>1, <1>2, <1>3 DEF Control

\* The same for each kind of call.
LEMMA InitGoes ==
    ASSUME Control, NEW c \in Caller, TypeOK', UNCHANGED ctl, op[c].what = "init",
           NEW p \in InitPlaces, NEW m, NEW k, NEW id, Turns(c, p, m, k, op[c].ex, id, op[c].last),
           op[c].at # "asyncJoin",
           op[c].at \in {"undoStop", "undoJoin"} => p \in {"undoStop", "undoJoin"}
    PROVE  Control'
<1>1. Placed(c) /\ TypeOK /\ NoName # "init"
  BY LifecycleAssumption DEF Control, Call
<1>2. op[c].last = FALSE /\ op[c].at \in InitPlaces /\ op[c].arg \in Configs
  BY <1>1, OpParts DEF Placed
<1>3. /\ op'[c].at = p /\ op'[c].what = "init" /\ op'[c].arg = op[c].arg /\ op'[c].last = FALSE
      /\ \A d \in Caller \ {c} : op'[d] = op[d]
  BY <1>2 DEF Turns
<1>4. Placed(c)'
  BY <1>1, <1>2, <1>3, SMT DEF Placed, InitPlaces
<1>5. op[c].at \notin {"asyncJoin", "drain", "stopAsync"}
  BY <1>2, SMT DEF InitPlaces
<1>6. Walks(c) /\ UNCHANGED <<mtx, lease, sampler>>
  BY <1>1, <1>3, <1>4, <1>5 DEF Walks, ctl
<1> QED
  BY <1>1, <1>3, <1>4, <1>5, <1>6, Walk

LEMMA ShutGoes ==
    ASSUME Control, NEW c \in Caller, TypeOK', UNCHANGED ctl, op[c].what \in {"shutdown", "destroy"},
           NEW p \in Drains, NEW m, NEW k, NEW id, NEW last, Turns(c, p, m, k, op[c].ex, id, last),
           op[c].at \in Drains, last => op[c].what = "destroy",
           p = "unlock" => op[c].what = "shutdown", p = "again" => op[c].what = "destroy",
           p = "gone" => op[c].what = "destroy" /\ last,
           last /\ p \in {"take", "hbStop", "retire", "gone"} =>
              op[c].last /\ op[c].at \in {"take", "hbStop", "retire", "gone"}
    PROVE  Control'
<1>1. NoName \notin {"shutdown", "destroy"}
  BY LifecycleAssumption DEF Call
<1>2. /\ op'[c].at = p /\ op'[c].what = op[c].what /\ op'[c].arg = op[c].arg /\ op'[c].last = last
      /\ \A d \in Caller \ {c} : op'[d] = op[d]
  BY DEF Turns
<1>3. Placed(c)'
  BY <1>1, <1>2, SMT DEF Placed, Drains
<1>4. op[c].at \notin {"asyncJoin", "drain", "stopAsync", "undoStop", "undoJoin"}
  BY SMT DEF Drains
<1>5. Walks(c) /\ UNCHANGED <<mtx, lease, sampler>>
  BY <1>1, <1>2, <1>3, <1>4 DEF Walks, ctl
<1> QED
  BY <1>1, <1>2, <1>3, <1>4, <1>5, Walk

RuntimeMove(what, p, id) ==
    \/ what = "add" /\ p = "insert"
    \/ what = "remove" /\ p = "close"
    \/ what = "addGroup" /\ p \in AddGroupPlaces \ {"addGroup"} /\ id # 0
    \/ what = "removeGroup" /\ p = "stopBuffer"
LEMMA RuntimeGoes ==
    ASSUME Control, NEW c \in Caller, TypeOK', UNCHANGED ctl,
           NEW p, NEW m, NEW k, NEW x, NEW id, Turns(c, p, m, k, x, id, op[c].last),
           RuntimeMove(op[c].what, p, id)
    PROVE  Control'
<1>1. Placed(c) /\ TypeOK /\ NoName \notin {"add", "remove", "addGroup", "removeGroup"}
  BY LifecycleAssumption DEF Control, Call
<1>0. op[c].what \in {"add", "remove", "addGroup", "removeGroup"}
  BY DEF RuntimeMove
<1>2. op[c].last = FALSE
  BY <1>0, <1>1, OpParts DEF Placed
<1>3. /\ op'[c].at = p /\ op'[c].what = op[c].what /\ op'[c].arg = op[c].arg /\ op'[c].last = FALSE
      /\ op'[c].id = id /\ \A d \in Caller \ {c} : op'[d] = op[d]
  BY <1>2 DEF Turns
<1>4. Placed(c)'
  BY <1>1, <1>2, <1>3, SMT DEF Placed, AddGroupPlaces, RuntimeMove
<1>5. op[c].at \notin {"asyncJoin", "drain", "stopAsync", "undoStop", "undoJoin"}
  BY <1>0, <1>1, SMT DEF Placed, AddGroupPlaces
<1>6. op[c].what \notin {"shutdown", "destroy", NoName}
  BY <1>0, <1>1, SMT
<1>7. Walks(c) /\ UNCHANGED <<mtx, lease, sampler>>
  BY <1>3, <1>4, <1>5, <1>6 DEF Walks, ctl
<1> QED
  BY <1>3, <1>4, <1>5, <1>6, <1>7, Walk

LEMMA NoOpPlaced == ASSUME NEW c \in Caller, op'[c] = NoOp PROVE Placed(c)' /\ Alone(c)'
<1>1. /\ op'[c].at = "idle" /\ op'[c].what = NoName /\ op'[c].last = FALSE
      /\ NoName \notin Call
  BY NoOpParts, LifecycleAssumption
<1>2. Placed(c)'
  BY <1>1 DEF Placed, Call
<1>3. Alone(c)'
  BY <1>1 DEF Alone, Call
<1> QED
  BY <1>2, <1>3

LEMMA RuntimeEnds ==
    ASSUME Control, NEW c \in Caller, TypeOK', UNCHANGED ctl, Becomes(c, NoOp),
           op[c].what \in {"add", "remove", "addGroup", "removeGroup"}
    PROVE  Control'
<1>1. Placed(c) /\ TypeOK /\ NoName \notin {"add", "remove", "addGroup", "removeGroup"}
  BY LifecycleAssumption DEF Control, Call
<1>2. op[c].last = FALSE
  BY <1>1, OpParts DEF Placed
<1>3. op'[c] = NoOp /\ op'[c].at = "idle" /\ op'[c].last = FALSE /\ \A d \in Caller \ {c} : op'[d] = op[d]
  BY NoOpParts DEF Becomes
<1>4. Placed(c)'
  BY <1>3, NoOpPlaced
<1>5. op[c].at \notin {"asyncJoin", "drain", "stopAsync", "undoStop", "undoJoin"}
  BY <1>1, SMT DEF Placed, AddGroupPlaces
<1>6. op[c].what \notin {"shutdown", "destroy", NoName}
  BY <1>1, SMT
<1>7. Walks(c) /\ UNCHANGED <<mtx, lease, sampler>>
  BY <1>3, <1>4, <1>5, <1>6 DEF Walks, ctl
<1> QED
  BY <1>3, <1>4, <1>5, <1>6, <1>7, Walk

\* The steps of init() that touch no lock, executor or sampler.
LEMMA InitWalks ==
    ASSUME Control, NEW c \in Caller,
           \/ StartNew(c) \/ Publish(c) \/ InitShadows(c) \/ UndoStop(c)
           \/ (RetireStop(c) \/ Retire(c)) /\ op[c].what = "init"
    PROVE  Control'
<1>1. TypeOK /\ Placed(c)
  BY DEF Control
<1>2. UNCHANGED ctl
  BY DEF ctl, StartNew, Publish, InitShadows, ResolveShadows, UndoStop, RetireStop, Retire,
               StopHeartbeat, client, threads
<1>3. op[c].what = "init" /\ op[c].at \in {"start", "publish", "shadows", "undoStop", "hbStop", "retire"}
  BY <1>1, CallOf DEF StartNew, Publish, InitShadows, UndoStop, RetireStop, Retire, At, InitPlaces
<1>4. CASE StartNew(c)
  <2>1. TypeOK' /\ Goes(c, "publish")
    BY <1>1, <1>4, StartNewStep
  <2> QED
    BY <1>2, <1>3, <1>4, <2>1, InitGoes DEF StartNew, At, Goes, InitPlaces
<1>5. CASE Publish(c)
  <2>1. TypeOK' /\ Turns(c, "shadows", NoMaps, man, op[c].ex, op[c].id, op[c].last)
    BY <1>1, <1>5, PublishStep
  <2> QED
    BY <1>2, <1>3, <1>5, <2>1, InitGoes DEF Publish, At, InitPlaces
<1>6. CASE InitShadows(c)
  <2>1. TypeOK' /\ (Goes(c, "lease") \/ Goes(c, "undo"))
    BY <1>1, <1>6, ResolveStep DEF InitShadows, Places, InitPlaces
  <2> QED
    BY <1>2, <1>3, <1>6, <2>1, InitGoes DEF InitShadows, At, Goes, InitPlaces
<1>7. CASE UndoStop(c)
  <2>1. TypeOK' /\ Goes(c, "undoJoin")
    BY <1>1, <1>7, StopHeartbeatStep DEF UndoStop, Places, InitPlaces
  <2> QED
    BY <1>2, <1>3, <1>7, <2>1, InitGoes DEF UndoStop, At, Goes, InitPlaces
<1>8. CASE RetireStop(c)
  <2>1. TypeOK' /\ Goes(c, "retire")
    BY <1>1, <1>8, StopHeartbeatStep DEF RetireStop, Places, InitPlaces
  <2> QED
    BY <1>2, <1>3, <1>8, <2>1, InitGoes DEF RetireStop, At, Goes, InitPlaces
<1>9. CASE Retire(c)
  <2>1. TypeOK' /\ Goes(c, "async")
    BY <1>1, <1>3, <1>9, RetireStep
  <2> QED
    BY <1>2, <1>3, <1>9, <2>1, InitGoes DEF Retire, At, Goes, InitPlaces
<1> QED
  BY <1>4, <1>5, <1>6, <1>7, <1>8, <1>9

\* The steps of shutdown() that touch no lock, executor or sampler.
LEMMA ShutWalks ==
    ASSUME Control, NEW c \in Caller,
           \/ ShutStats(c) \/ TakeMaps(c) \/ ShutAgain(c)
           \/ (RetireStop(c) \/ Retire(c)) /\ op[c].what # "init"
    PROVE  Control'
<1>1. TypeOK /\ Placed(c)
  BY DEF Control
<1>2. UNCHANGED ctl
  BY DEF ctl, ShutStats, TakeMaps, ShutAgain, RetireStop, Retire, StopHeartbeat, client, threads
<1>3. op[c].what \in {"shutdown", "destroy"} /\ op[c].at \in {"stats", "take", "again", "hbStop", "retire"}
      /\ (op[c].last => op[c].what = "destroy")
  BY <1>1, CallOf DEF ShutStats, TakeMaps, ShutAgain, RetireStop, Retire, At, Placed
<1>4. op[c].at \in Drains
  BY <1>3 DEF Drains
<1>5. CASE ShutStats(c)
  <2>1. TypeOK' /\ Goes(c, "clear")
    BY <1>1, <1>5, ShutStatsStep
  <2> QED
    BY <1>2, <1>3, <1>4, <2>1, ShutGoes DEF Goes, Drains
<1>6. CASE TakeMaps(c)
  <2>1. TypeOK' /\ Turns(c, "hbStop", op[c].new, man, op[c].ex, op[c].id, op[c].last) /\ op[c].at = "take"
    BY <1>1, <1>6, TakeMapsStep DEF TakeMaps, At
  <2> QED
    BY <1>2, <1>3, <1>4, <2>1, ShutGoes DEF Drains
<1>7. CASE ShutAgain(c)
  <2>1. TypeOK' /\ Turns(c, "stats", op[c].new, NoMaps, op[c].ex, op[c].id, TRUE)
    BY <1>1, <1>7, ShutAgainStep
  <2>2. op[c].what = "destroy"
    BY <1>1, <1>7, CallOf DEF ShutAgain, At
  <2> QED
    BY <1>2, <1>3, <1>4, <2>1, <2>2, ShutGoes DEF Drains
<1>8. CASE RetireStop(c)
  <2>1. TypeOK' /\ Goes(c, "retire") /\ op[c].at = "hbStop"
    BY <1>1, <1>8, StopHeartbeatStep DEF RetireStop, Places, InitPlaces, At
  <2>2. /\ op[c].at \in {"take", "hbStop", "retire", "gone"} /\ "retire" \in Drains
        /\ "retire" \notin {"unlock", "again", "gone"}
    BY <2>1 DEF Drains
  <2> QED
    BY <1>2, <1>3, <1>4, <2>1, <2>2, ShutGoes DEF Goes
<1>9. CASE Retire(c)
  <2>1. /\ TypeOK' /\ op[c].at = "retire"
        /\ op[c].what = "shutdown" => Goes(c, "unlock")
        /\ op[c].what = "destroy" => IF op[c].last THEN Goes(c, "gone") ELSE Goes(c, "again")
    BY <1>1, <1>9, RetireStep DEF Retire, At
  <2>0. /\ op[c].at \in {"take", "hbStop", "retire", "gone"} /\ {"unlock", "again", "gone"} \subseteq Drains
        /\ "unlock" \notin {"again", "take", "hbStop", "retire", "gone"}
        /\ "again" \notin {"unlock", "take", "hbStop", "retire", "gone"} /\ "gone" \notin {"unlock", "again"}
    BY <2>1 DEF Drains
  <2>2. CASE op[c].what = "shutdown"
    <3>1. ~op[c].last /\ Turns(c, "unlock", op[c].new, op[c].old, op[c].ex, op[c].id, op[c].last)
      BY <1>3, <2>1, <2>2 DEF Goes
    <3>2. TypeOK' /\ "unlock" \in Drains
      BY <2>0, <2>1
    <3> QED
      BY <1>2, <1>3, <1>4, <2>2, <3>1, <3>2, ShutGoes, SMT
  <2>3. CASE op[c].what = "destroy" /\ op[c].last
    BY <1>2, <1>3, <1>4, <2>0, <2>1, <2>3, ShutGoes DEF Goes
  <2>4. CASE op[c].what = "destroy" /\ ~op[c].last
    BY <1>2, <1>3, <1>4, <2>0, <2>1, <2>4, ShutGoes DEF Goes
  <2> QED
    BY <1>3, <2>2, <2>3, <2>4
<1> QED
  BY <1>5, <1>6, <1>7, <1>8, <1>9

\* The steps of addDataSource(), removeDataSource(), addGroup() and removeGroup().
RuntimeStep(c) ==
    \/ AddCheck(c) \/ AddInsert(c) \/ RemoveLeaf(c) \/ CloseLeaf(c)
    \/ AddGroup(c) \/ StartBuffer(c) \/ GroupShadows(c) \/ UndoGroup(c) \/ GroupReturns(c)
    \/ RemoveGroup(c) \/ StopBuffer(c)
RuntimePlaces == {"add", "insert", "remove", "close", "removeGroup", "stopBuffer"} \cup AddGroupPlaces

LEMMA RuntimeFrame ==
    ASSUME NEW c \in Caller, RuntimeStep(c)
    PROVE  UNCHANGED ctl /\ op[c].at \in RuntimePlaces
<1>1. CASE AddCheck(c) \/ AddInsert(c) \/ RemoveLeaf(c) \/ CloseLeaf(c)
  BY <1>1 DEF ctl, AddCheck, AddInsert, RemoveLeaf, CloseLeaf, Refused, At, client, threads,
                     RuntimePlaces, AddGroupPlaces
<1>2. CASE AddGroup(c) \/ StartBuffer(c) \/ GroupShadows(c) \/ UndoGroup(c) \/ GroupReturns(c)
  BY <1>2 DEF ctl, AddGroup, StartBuffer, GroupShadows, ResolveShadows, UndoGroup, GroupReturns,
                     Refused, At, client, threads, RuntimePlaces, AddGroupPlaces
<1>3. CASE RemoveGroup(c) \/ StopBuffer(c)
  BY <1>3 DEF ctl, RemoveGroup, StopBuffer, Refused, At, client, threads, RuntimePlaces,
                     AddGroupPlaces
<1> QED
  BY <1>1, <1>2, <1>3 DEF RuntimeStep

LEMMA RuntimeWalks == ASSUME Control, NEW c \in Caller, RuntimeStep(c) PROVE Control'
<1>1. TypeOK /\ Placed(c)
  BY DEF Control
<1>2. UNCHANGED ctl /\ op[c].at \in RuntimePlaces
  BY RuntimeFrame
<1>3. op[c].what \in {"add", "remove", "addGroup", "removeGroup"}
  BY <1>1, <1>2, CallOf DEF RuntimePlaces
<1>4. ASSUME TypeOK', Becomes(c, NoOp) PROVE Control'
  BY <1>2, <1>3, <1>4, RuntimeEnds
<1>5. CASE \E place, accepted : Refused(c, place, accepted)
  BY <1>1, <1>4, <1>5, RefusedStep
<1>6. CASE AddCheck(c) /\ ~Refused(c, "add", ~Published(man, op[c].arg))
  <2>1. TypeOK' /\ Goes(c, "insert")
    BY <1>1, <1>6, AddCheckStep
  <2>2. op[c].what = "add"
    BY <1>1, <1>6, CallOf DEF AddCheck, At
  <2>3. RuntimeMove(op[c].what, "insert", op[c].id)
    BY <2>2 DEF RuntimeMove
  <2> QED
    BY <1>2, <2>1, <2>3, RuntimeGoes DEF Goes
<1>7. CASE AddInsert(c)
  BY <1>1, <1>4, <1>7, AddInsertStep
<1>8. CASE RemoveLeaf(c) /\ ~Refused(c, "remove", MayRemove(op[c].arg))
  <2>1. TypeOK' /\ Turns(c, "close", op[c].new, op[c].old, op[c].ex, man.leaf[op[c].arg], op[c].last)
    BY <1>1, <1>8, RemoveLeafStep
  <2>2. op[c].what = "remove"
    BY <1>1, <1>8, CallOf DEF RemoveLeaf, At
  <2>3. RuntimeMove(op[c].what, "close", man.leaf[op[c].arg])
    BY <2>2 DEF RuntimeMove
  <2> QED
    BY <1>2, <2>1, <2>3, RuntimeGoes
<1>9. CASE CloseLeaf(c) \/ GroupReturns(c) \/ StopBuffer(c)
  BY <1>1, <1>4, <1>9, CloseLeafStep, GroupReturnsStep, StopBufferStep
<1>10. CASE AddGroup(c) /\ ~Refused(c, "addGroup", MayAddGroup(op[c].arg))
  <2>1. /\ TypeOK'
        /\ Turns(c, "startBuffer", op[c].new, op[c].old, op[c].ex, made.group + 1, op[c].last)
    BY <1>1, <1>10, AddGroupStep
  <2>2. op[c].what = "addGroup" /\ "startBuffer" \in AddGroupPlaces \ {"addGroup"}
    BY <1>1, <1>10, CallOf DEF AddGroup, At, AddGroupPlaces
  <2>3. made.group + 1 # 0
    BY <1>1, MadeParts, SMT DEF TypeOK
  <2>4. RuntimeMove(op[c].what, "startBuffer", made.group + 1)
    BY <2>2, <2>3 DEF RuntimeMove
  <2> QED
    BY <1>2, <2>1, <2>4, RuntimeGoes
<1>11. CASE StartBuffer(c) \/ GroupShadows(c)
  <2>1. op[c].what = "addGroup" /\ op[c].at # "addGroup"
    BY <1>1, <1>11, CallOf DEF StartBuffer, GroupShadows, At, AddGroupPlaces
  <2>2. op[c].id # 0
    BY <1>1, <2>1 DEF Placed
  <2>3. TypeOK' /\ \E p \in {"resolve", "undoGroup", "groupReturns"} : Goes(c, p)
    <3>1. CASE StartBuffer(c)
      BY <1>1, <2>2, <3>1, StartBufferStep
    <3>2. CASE GroupShadows(c)
      BY <1>1, <3>2, ResolveStep DEF GroupShadows, Places, AddGroupPlaces
    <3> QED
      BY <1>11, <3>1, <3>2
  <2>4. PICK p \in {"resolve", "undoGroup", "groupReturns"} : Goes(c, p)
    BY <2>3
  <2>5. p \in AddGroupPlaces \ {"addGroup"}
    BY DEF AddGroupPlaces
  <2>6. RuntimeMove(op[c].what, p, op[c].id)
    BY <2>1, <2>2, <2>5 DEF RuntimeMove
  <2> QED
    BY <1>2, <2>3, <2>4, <2>6, RuntimeGoes DEF Goes
<1>12. CASE UndoGroup(c)
  BY <1>1, <1>4, <1>12, UndoGroupStep
<1>13. CASE /\ RemoveGroup(c)
            /\ ~Refused(c, "removeGroup", man.group[op[c].arg].id # 0 /\ op[c].arg # man.def)
  <2>1. /\ TypeOK'
        /\ Turns(c, "stopBuffer", op[c].new, op[c].old, op[c].ex, man.group[op[c].arg].id, op[c].last)
    BY <1>1, <1>13, RemoveGroupStep
  <2>2. op[c].what = "removeGroup"
    BY <1>1, <1>13, CallOf DEF RemoveGroup, At
  <2>3. RuntimeMove(op[c].what, "stopBuffer", man.group[op[c].arg].id)
    BY <2>2 DEF RuntimeMove
  <2> QED
    BY <1>2, <2>1, <2>3, RuntimeGoes
<1> QED
  BY <1>5, <1>6, <1>7, <1>8, <1>9, <1>10, <1>11, <1>12, <1>13 DEF RuntimeStep

\* At most one call is in init(), shutdown() or the destructor.
LEMMA Single ==
    ASSUME Control, NEW c \in Caller, NEW d \in Caller,
           op[c].what \in {"init", "shutdown", "destroy"}, op[d].what \in {"init", "shutdown", "destroy"}
    PROVE  c = d
<1>1. NoName \notin {"init", "shutdown", "destroy"}
  BY LifecycleAssumption DEF Call
<1>2. op[c] # NoOp /\ op[d] # NoOp
  BY <1>1, NoOpParts
<1>3. Alone(c) /\ Alone(d)
  BY DEF Control
<1> QED
  BY <1>2, <1>3 DEF Alone

\* The place tells the kind of call.
LEMMA AtCalls ==
    ASSUME Control, NEW c \in Caller,
           op[c].at \in InitPlaces \cup {"stopAsync", "drain"} \cup Drains
    PROVE  op[c].what \in {"init", "shutdown", "destroy"} /\ op[c].what # NoName
<1>1. TypeOK /\ Placed(c)
  BY DEF Control
<1>2. NoName \notin {"init", "shutdown", "destroy"}
  BY LifecycleAssumption DEF Call
<1> QED
  BY <1>1, <1>2, CallOf DEF InitPlaces, Drains

\* When stopAsync() is over there is no executor, and a request that was accepted
\* has its executor drained by the call itself.
LEMMA NoExecutor ==
    ASSUME Control, NEW c \in Caller, op[c].what \in {"shutdown", "destroy"}, op[c].at # "stopAsync"
    PROVE  /\ exec.cur = 0 /\ exec.open = {}
           /\ \A r \in Request : Active(r) => op[c].at = "drain" /\ op[c].ex = req[r].ex /\ req[r].ex # 0
<1>1. state = "Closed" /\ Accepted
  BY DEF Control, Alone
<1>2. ASSUME NEW d \in Caller, op[d].at \in {"stopAsync", "asyncJoin", "drain"} PROVE d = c
  BY <1>2, AtCalls, Single DEF InitPlaces
<1>3. exec.cur = 0
  BY <1>1, <1>2 DEF Accepted
<1>4. exec.open = {}
  BY <1>1, <1>3 DEF Accepted
<1>5. op[c].at # "asyncJoin"
  <2>1. Placed(c) /\ TypeOK
    BY DEF Control
  <2> QED
    BY <2>1, CallOf DEF InitPlaces
<1>6. ASSUME NEW r \in Request, Active(r)
      PROVE  op[c].at = "drain" /\ op[c].ex = req[r].ex /\ req[r].ex # 0
  <2>1. req[r].ex # 0 /\ \E d \in Caller : op[d].at \in {"asyncJoin", "drain"} /\ op[d].ex = req[r].ex
    BY <1>1, <1>4, <1>6 DEF Accepted
  <2> QED
    BY <1>2, <1>5, <2>1
<1> QED
  BY <1>3, <1>4, <1>6

\* A call begins.
LEMMA Starts ==
    ASSUME Control, NEW c \in Caller, NEW r, op[c] = NoOp, alive, TypeOK', Becomes(c, r),
           Placed(c)', \A d \in Caller : Alone(d)', r.last = FALSE,
           UNCHANGED <<mtx, lease, sampler, exec, req, alive>>,
           state' # "Running" => exec.cur = 0 \/ \E d \in Caller : op'[d].at = "stopAsync",
           r.what \in {"shutdown", "destroy"} /\ r.at \in Drains => \A q \in Request : ~Active(q)
    PROVE  Control'
<1>1. op[c].at = "idle" /\ op'[c] = r /\ \A d \in Caller \ {c} : op'[d] = op[d]
  BY NoOpParts DEF Becomes
<1>2. \A d \in Caller : Placed(d)'
  BY <1>1, OthersPlaced
<1>3. Locks'
  <2>1. ASSUME mtx # NoName PROVE op'[mtx].at \in {"undoStop", "undoJoin"}
    <3>1. mtx \in Caller /\ op[mtx].at \in {"undoStop", "undoJoin"}
      BY <2>1 DEF Control, TypeOK, ClientOK, Locks
    <3> QED
      BY <1>1, <3>1
  <2> QED
    BY <2>1 DEF Control, Locks
<1>4. Disowned'
  BY <1>1 DEF Control, Disowned
<1>5. Accepted'
  <2>0. Accepted
    BY DEF Control
  <2>1. ASSUME NEW q \in Request, Active(q)
        PROVE  /\ req[q].ex # 0
               /\ \/ req[q].ex \in exec.open
                  \/ \E d \in Caller : op'[d].at \in {"asyncJoin", "drain"} /\ op'[d].ex = req[q].ex
    <3>1. /\ req[q].ex # 0
          /\ \/ req[q].ex \in exec.open
             \/ \E d \in Caller : op[d].at \in {"asyncJoin", "drain"} /\ op[d].ex = req[q].ex
      BY <2>0, <2>1 DEF Accepted
    <3>2. ASSUME NEW d \in Caller, op[d].at \in {"asyncJoin", "drain"} PROVE op'[d] = op[d]
      BY <1>1, <3>2
    <3> QED
      BY <3>1, <3>2
  <2>2. ASSUME NEW d \in Caller, op'[d].what \in {"shutdown", "destroy"}, op'[d].at \in Drains
        PROVE  \A q \in Request : ~Active(q)
    <3>1. CASE d = c
      BY <1>1, <2>2, <3>1
    <3>2. CASE d # c
      BY <1>1, <2>0, <2>2, <3>2 DEF Accepted
    <3> QED
      BY <3>1, <3>2
  <2> QED
    BY <2>0, <2>1, <2>2 DEF Accepted, Active
<1> QED
  BY <1>2, <1>3, <1>4, <1>5 DEF Control

\* The calls begin.
LEMMA InitCallControl == ASSUME Control, NEW c \in Caller, InitCall(c) PROVE Control'
<1>1. op[c] = NoOp /\ alive /\ lifecycle = NoName /\ lifecycle' = c /\ NoName \notin Caller
      /\ \A d \in Caller : op[d].what # "destroy"
  BY LifecycleAssumption DEF InitCall, Begin
<1>2. TypeOK /\ TypeOK'
  BY InitCallStep DEF Control
<1>3. PICK r : /\ Becomes(c, r) /\ r.at = "start" /\ r.what = "init" /\ r.arg \in Configs
               /\ r.last = FALSE
  BY <1>2, InitCallStep
<1>4. op'[c] = r /\ \A d \in Caller \ {c} : op'[d] = op[d]
  BY <1>3 DEF Becomes
<1>5. NoName # "init"
  BY LifecycleAssumption DEF Call
<1>6. Placed(c)'
  BY <1>3, <1>4, <1>5 DEF Placed, InitPlaces
<1>7. ASSUME NEW d \in Caller PROVE Alone(d)'
  <2>1. CASE d = c
    BY <1>1, <1>3, <1>4, <2>1 DEF Alone
  <2>2. CASE d # c
    <3>1. Alone(d) /\ op'[d] = op[d]
      BY <1>4, <2>2 DEF Control
    <3>2. op[d].what \notin {"init", "shutdown", "destroy"}
      BY <1>1, <3>1 DEF Alone
    <3> QED
      BY <3>1, <3>2 DEF Alone
  <2> QED
    BY <2>1, <2>2
<1>8. UNCHANGED <<state, mtx, lease, sampler, exec, req, alive>>
  BY DEF InitCall
<1>9. state' # "Running" => exec.cur = 0 \/ \E d \in Caller : op'[d].at = "stopAsync"
  <2>1. op[c].at # "stopAsync"
    BY <1>1, NoOpParts
  <2> QED
    BY <1>4, <1>8, <2>1 DEF Control, Accepted
<1>10. ~(r.what \in {"shutdown", "destroy"})
  BY <1>3
<1> QED
  BY <1>1, <1>2, <1>3, <1>6, <1>7, <1>8, <1>9, <1>10, Starts

LEMMA RuntimeCallControl == ASSUME Control, NEW c \in Caller, RuntimeCall(c) PROVE Control'
<1>1. op[c] = NoOp /\ alive /\ state = "Running" /\ \A d \in Caller : op[d].what # "destroy"
  BY DEF RuntimeCall, Begin
<1>2. TypeOK /\ TypeOK'
  BY RuntimeCallStep DEF Control
<1>3. PICK r : /\ Becomes(c, r) /\ r.at \in {"add", "remove", "addGroup", "removeGroup"}
               /\ r.what = r.at /\ (r.at \in {"add", "remove"} => r.arg \in Leaf)
               /\ (r.at = "addGroup" => r.arg \in Additions /\ r.id = 0)
               /\ (r.at = "removeGroup" => r.arg \in Group) /\ r.last = FALSE
  BY <1>2, RuntimeCallStep
<1>4. op'[c] = r /\ \A d \in Caller \ {c} : op'[d] = op[d]
  BY <1>3 DEF Becomes
<1>5. NoName \notin {"add", "remove", "addGroup", "removeGroup"}
  BY LifecycleAssumption DEF Call
<1>6. Placed(c)'
  BY <1>3, <1>4, <1>5, SMT DEF Placed, AddGroupPlaces
<1>7. UNCHANGED <<state, lifecycle, mtx, lease, sampler, exec, req, alive>>
  BY DEF RuntimeCall, client, threads
<1>8. ASSUME NEW d \in Caller PROVE Alone(d)'
  <2>1. CASE d = c
    BY <1>3, <1>4, <2>1 DEF Alone
  <2>2. CASE d # c
    <3>1. Alone(d) /\ op'[d] = op[d] /\ op[d].what # "destroy"
      BY <1>1, <1>4, <2>2 DEF Control
    <3> QED
      BY <1>7, <3>1 DEF Alone
  <2> QED
    BY <2>1, <2>2
<1>9. r.what \notin {"shutdown", "destroy"}
  BY <1>3
<1> QED
  BY <1>1, <1>2, <1>3, <1>6, <1>7, <1>8, <1>9, Starts

LEMMA ShutdownCallControl == ASSUME Control, NEW c \in Caller, ShutdownCall(c) PROVE Control'
<1>1. op[c] = NoOp /\ alive /\ lifecycle = NoName /\ lifecycle' = c /\ state' = "Closed"
      /\ NoName \notin Caller /\ \A d \in Caller : op[d].what # "destroy"
  BY LifecycleAssumption DEF ShutdownCall, Begin
<1>2. TypeOK /\ TypeOK'
  BY ShutdownCallStep DEF Control
<1>3. PICK r : /\ Becomes(c, r) /\ r.at = "stopAsync" /\ r.what \in {"shutdown", "destroy"}
               /\ r.last = FALSE /\ (r.what = "destroy" => \A d \in Caller : op[d] = NoOp)
  BY <1>2, ShutdownCallStep
<1>4. op'[c] = r /\ \A d \in Caller \ {c} : op'[d] = op[d]
  BY <1>3 DEF Becomes
<1>5. NoName \notin {"shutdown", "destroy"}
  BY LifecycleAssumption DEF Call
<1>6. Placed(c)'
  BY <1>3, <1>4, <1>5, SMT DEF Placed, Drains
<1>7. ASSUME NEW d \in Caller PROVE Alone(d)'
  <2>1. CASE d = c
    BY <1>1, <1>3, <1>4, <2>1 DEF Alone
  <2>2. CASE d # c
    <3>1. Alone(d) /\ op'[d] = op[d]
      BY <1>4, <2>2 DEF Control
    <3>2. op[d].what \notin {"init", "shutdown", "destroy"}
      BY <1>1, <3>1 DEF Alone
    <3> QED
      BY <3>1, <3>2 DEF Alone
  <2> QED
    BY <2>1, <2>2
<1>8. UNCHANGED <<mtx, lease, sampler, exec, req, alive>>
  BY DEF ShutdownCall, threads
<1>9. \E d \in Caller : op'[d].at = "stopAsync"
  BY <1>3, <1>4
<1>10. r.at \notin Drains
  BY <1>3 DEF Drains
<1> QED
  BY <1>1, <1>2, <1>3, <1>6, <1>7, <1>8, <1>9, <1>10, Starts

LEMMA ShutdownIdleControl == ASSUME Control, NEW c \in Caller, ShutdownIdle(c) PROVE Control'
<1>1. op[c] = NoOp /\ alive /\ state # "Running" /\ state' = "Closed"
      /\ UNCHANGED <<lifecycle, mtx, lease, sampler, exec, req, alive>>
  BY DEF ShutdownIdle, Begin, threads
<1>2. TypeOK /\ TypeOK'
  BY ShutdownIdleStep DEF Control
<1>3. CASE UNCHANGED op
  <2>1. ASSUME NEW d \in Caller PROVE Placed(d)' /\ Alone(d)'
    <3>1. Placed(d) /\ Alone(d)
      BY DEF Control
    <3>2. Placed(d)'
      BY <1>3, <3>1 DEF Placed
    <3> QED
      BY <1>1, <1>3, <3>1, <3>2 DEF Alone
  <2>2. Locks' /\ Disowned'
    BY <1>1, <1>3 DEF Control, Locks, Disowned, Quiet
  <2>3. Accepted'
    BY <1>1, <1>3 DEF Control, Accepted, Active
  <2> QED
    BY <1>2, <2>1, <2>2, <2>3 DEF Control
<1>4. CASE \E r \in Ops : /\ Becomes(c, r) /\ r.at = "again" /\ r.what = "destroy"
                          /\ r.last = FALSE /\ \A d \in Caller : op[d] = NoOp
  <2>1. PICK r : /\ Becomes(c, r) /\ r.at = "again" /\ r.what = "destroy"
                 /\ r.last = FALSE /\ \A d \in Caller : op[d] = NoOp
    BY <1>4
  <2>2. op'[c] = r /\ \A d \in Caller \ {c} : op'[d] = NoOp
    BY <2>1 DEF Becomes
  <2>3. NoName # "destroy"
    BY LifecycleAssumption DEF Call
  <2>4. Placed(c)'
    BY <2>1, <2>2, <2>3, SMT DEF Placed, Drains
  <2>5. ASSUME NEW d \in Caller PROVE Alone(d)'
    <3>1. CASE d = c
      BY <1>1, <2>1, <2>2, <3>1 DEF Alone
    <3>2. CASE d # c
      BY <2>2, <3>2, NoOpPlaced
    <3> QED
      BY <3>1, <3>2
  <2>6. \A d \in Caller : op[d].at = "idle"
    BY <2>1, NoOpParts
  <2>7. Accepted
    BY DEF Control
  <2>8. exec.cur = 0
    BY <1>1, <2>6, <2>7 DEF Accepted
  <2>9. \A q \in Request : ~Active(q)
    <3>1. exec.open = {}
      BY <2>7, <2>8 DEF Accepted
    <3> QED
      BY <2>6, <2>7, <3>1 DEF Accepted
  <2> QED
    BY <1>1, <1>2, <2>1, <2>4, <2>5, <2>8, <2>9, Starts
<1> QED
  BY <1>2, <1>3, <1>4, ShutdownIdleStep

\* The rollback of init() takes mtx_.
LEMMA UndoInitControl == ASSUME Control, NEW c \in Caller, UndoInit(c) PROVE Control'
<1>1. TypeOK /\ Placed(c) /\ op[c].at = "undo"
  BY DEF Control, UndoInit, At
<1>2. TypeOK' /\ Turns(c, "undoStop", op[c].new, man, op[c].ex, op[c].id, op[c].last)
  BY <1>1, UndoInitStep
<1>3. op[c].what = "init" /\ op[c].arg \in Configs /\ NoName # "init"
  BY <1>1, CallOf, LifecycleAssumption DEF InitPlaces, Call
<1>4. op[c].last = FALSE
  BY <1>1, <1>3, OpParts DEF Placed
<1>5. /\ op'[c].at = "undoStop" /\ op'[c].what = "init" /\ op'[c].arg = op[c].arg /\ op'[c].last = FALSE
      /\ \A d \in Caller \ {c} : op'[d] = op[d]
  BY <1>2, <1>3, <1>4 DEF Turns
<1>6. Placed(c)'
  BY <1>3, <1>5 DEF Placed, InitPlaces
<1>7. UNCHANGED <<state, lifecycle, exec, req, alive, lease, sampler>> /\ mtx' = c
  BY DEF UndoInit, client, threads
<1>8. Walks(c)
  BY <1>1, <1>3, <1>5, <1>7 DEF Walks
<1>9. Locks'
  BY <1>5, <1>7 DEF Control, Locks
<1>10. Disowned'
  <2>1. alive
    BY <1>3, Busy
  <2> QED
    BY <1>5, <1>7, <2>1 DEF Control, Disowned
<1> QED
  BY <1>2, <1>6, <1>8, <1>9, <1>10, WalkOn

\* init() takes the lease, when nobody reads the metrics.
LEMMA TakeLeaseControl == ASSUME Control, NEW c \in Caller, TakeLease(c) PROVE Control'
<1>1. TypeOK /\ Placed(c) /\ op[c].at = "lease"
  BY DEF Control, TakeLease, At
<1>2. TypeOK' /\ Goes(c, "statsStart")
  BY <1>1, TakeLeaseStep
<1>3. op[c].what = "init" /\ op[c].arg \in Configs /\ NoName # "init"
  BY <1>1, CallOf, LifecycleAssumption DEF InitPlaces, Call
<1>4. op[c].last = FALSE
  BY <1>1, <1>3, OpParts DEF Placed
<1>5. /\ op'[c].at = "statsStart" /\ op'[c].what = "init" /\ op'[c].arg = op[c].arg /\ op'[c].last = FALSE
      /\ \A d \in Caller \ {c} : op'[d] = op[d]
  BY <1>2, <1>3, <1>4 DEF Turns, Goes
<1>6. Placed(c)'
  BY <1>3, <1>5 DEF Placed, InitPlaces
<1>7. UNCHANGED <<state, lifecycle, exec, req, alive, mtx, sampler>>
  BY DEF TakeLease, client
<1>8. Walks(c)
  BY <1>1, <1>3, <1>5, <1>7 DEF Walks
<1>9. lease.by = NoName /\ lease'.by = NoName /\ lease'.owner = TRUE
  BY <1>1 DEF TakeLease, TypeOK, ClientOK
<1>10. Locks'
  <2>1. ASSUME mtx # NoName PROVE op'[mtx].at \in {"undoStop", "undoJoin"}
    <3>1. mtx \in Caller /\ op[mtx].at \in {"undoStop", "undoJoin"}
      BY <2>1 DEF Control, TypeOK, ClientOK, Locks
    <3> QED
      BY <1>1, <1>5, <3>1
  <2> QED
    BY <1>7, <1>9, <2>1 DEF Control, Locks
<1>11. Disowned'
  <2>1. alive /\ \A d \in Caller \ {c} : op[d].last = FALSE
    BY <1>3, Busy
  <2> QED
    BY <1>5, <1>7, <2>1 DEF Disowned
<1> QED
  BY <1>2, <1>6, <1>8, <1>10, <1>11, WalkOn

\* The reporter is joined before it is started again.
LEMMA StatsStartControl == ASSUME Control, NEW c \in Caller, StatsStart(c) PROVE Control'
<1>1. TypeOK /\ Placed(c) /\ op[c].at = "statsStart"
  BY DEF Control, StatsStart, At
<1>2. TypeOK' /\ Goes(c, "hbStop")
  BY <1>1, StatsStartStep
<1>3. op[c].what = "init" /\ op[c].arg \in Configs /\ NoName # "init"
  BY <1>1, CallOf, LifecycleAssumption DEF InitPlaces, Call
<1>4. op[c].last = FALSE
  BY <1>1, <1>3, OpParts DEF Placed
<1>5. /\ op'[c].at = "hbStop" /\ op'[c].what = "init" /\ op'[c].arg = op[c].arg /\ op'[c].last = FALSE
      /\ \A d \in Caller \ {c} : op'[d] = op[d]
  BY <1>2, <1>3, <1>4 DEF Turns, Goes
<1>6. Placed(c)'
  BY <1>3, <1>5 DEF Placed, InitPlaces
<1>7. UNCHANGED <<state, lifecycle, exec, req, alive, mtx, lease>>
  BY DEF StatsStart, client
<1>8. Walks(c)
  BY <1>1, <1>3, <1>5, <1>7 DEF Walks
<1>9. /\ sampler["reporter"] \in {"off", "done"} /\ sampler'["reporter"] \in {"wait", "off"}
      /\ \A s \in Sampler \ {"reporter"} : sampler'[s] = sampler[s]
  BY <1>1 DEF StatsStart, ReporterJoined, TypeOK, ClientOK, Sampler
<1>10. Locks'
  <2>1. ASSUME mtx # NoName PROVE op'[mtx].at \in {"undoStop", "undoJoin"}
    <3>1. mtx \in Caller /\ op[mtx].at \in {"undoStop", "undoJoin"}
      BY <2>1 DEF Control, TypeOK, ClientOK, Locks
    <3> QED
      BY <1>1, <1>5, <3>1
  <2>2. ASSUME NEW s \in Sampler, sampler'[s] = "read" PROVE sampler[s] = "read"
    BY <1>9, <2>2
  <2>3. ASSUME lease.by # NoName PROVE sampler'[lease.by] = "read"
    <3>1. lease.by \in Sampler /\ sampler[lease.by] = "read"
      BY <2>3 DEF Control, TypeOK, ClientOK, Locks
    <3> QED
      BY <1>9, <3>1
  <2> QED
    BY <1>7, <2>1, <2>2, <2>3 DEF Control, Locks
<1>11. Disowned'
  <2>1. alive
    BY <1>3, Busy
  <2> QED
    BY <1>5, <1>7, <2>1 DEF Control, Disowned
<1> QED
  BY <1>2, <1>6, <1>8, <1>10, <1>11, WalkOn

\* Locks that a step does not touch.
LEMMA SameLocks ==
    ASSUME Control, NEW c \in Caller, \A d \in Caller \ {c} : op'[d] = op[d],
           UNCHANGED <<mtx, lease, sampler>>, op[c].at \notin {"undoStop", "undoJoin"}
    PROVE  Locks'
<1>1. ASSUME mtx # NoName PROVE op'[mtx].at \in {"undoStop", "undoJoin"}
  <2>1. mtx \in Caller /\ op[mtx].at \in {"undoStop", "undoJoin"}
    BY <1>1 DEF Control, TypeOK, ClientOK, Locks
  <2> QED
    BY <2>1
<1> QED
  BY <1>1 DEF Control, Locks

\* shutdown() joins the reporter, then takes the lease to clear its owner.
LEMMA ShutClearControl == ASSUME Control, NEW c \in Caller, ShutClear(c) PROVE Control'
<1>1. TypeOK /\ Placed(c) /\ op[c].at = "clear"
  BY DEF Control, ShutClear, At
<1>2. TypeOK' /\ Goes(c, "disown")
  BY <1>1, ShutClearStep
<1>3. /\ op[c].what \in {"shutdown", "destroy"} /\ NoName \notin {"shutdown", "destroy"}
      /\ (op[c].last => op[c].what = "destroy")
  BY <1>1, CallOf, LifecycleAssumption DEF Call, Placed
<1>4. /\ op'[c].at = "disown" /\ op'[c].what = op[c].what /\ op'[c].last = op[c].last
      /\ \A d \in Caller \ {c} : op'[d] = op[d]
  BY <1>2 DEF Turns, Goes
<1>5. Placed(c)'
  BY <1>3, <1>4 DEF Placed, Drains
<1>6. UNCHANGED <<state, lifecycle, exec, req, alive, mtx, lease>>
  BY DEF ShutClear, client
<1>7. op[c].at \in Drains
  BY <1>1 DEF Drains
<1>8. Walks(c)
  BY <1>1, <1>3, <1>4, <1>6, <1>7 DEF Walks
<1>9. /\ sampler["reporter"] \in {"off", "done"} /\ sampler'["reporter"] = "off"
      /\ \A s \in Sampler \ {"reporter"} : sampler'[s] = sampler[s]
  BY <1>1 DEF ShutClear, ReporterJoined, TypeOK, ClientOK, Sampler
<1>10. Locks'
  <2>1. ASSUME mtx # NoName PROVE op'[mtx].at \in {"undoStop", "undoJoin"}
    <3>1. mtx \in Caller /\ op[mtx].at \in {"undoStop", "undoJoin"}
      BY <2>1 DEF Control, TypeOK, ClientOK, Locks
    <3> QED
      BY <1>1, <1>4, <3>1
  <2>2. ASSUME NEW s \in Sampler, sampler'[s] = "read" PROVE sampler[s] = "read"
    BY <1>9, <2>2
  <2>3. ASSUME lease.by # NoName PROVE sampler'[lease.by] = "read"
    <3>1. lease.by \in Sampler /\ sampler[lease.by] = "read"
      BY <2>3 DEF Control, TypeOK, ClientOK, Locks
    <3> QED
      BY <1>9, <3>1
  <2> QED
    BY <1>6, <2>1, <2>2, <2>3 DEF Control, Locks
<1>11. Disowned'
  <2>1. alive
    BY <1>3, Busy
  <2> QED
    BY <1>4, <1>6, <2>1 DEF Control, Disowned
<1> QED
  BY <1>2, <1>5, <1>8, <1>10, <1>11, WalkOn

LEMMA DisownControl == ASSUME Control, NEW c \in Caller, Disown(c) PROVE Control'
<1>1. TypeOK /\ Placed(c) /\ op[c].at = "disown"
  BY DEF Control, Disown, At
<1>2. TypeOK' /\ Goes(c, "take")
  BY <1>1, DisownStep
<1>3. /\ op[c].what \in {"shutdown", "destroy"} /\ NoName \notin {"shutdown", "destroy"}
      /\ (op[c].last => op[c].what = "destroy")
  BY <1>1, CallOf, LifecycleAssumption DEF Call, Placed
<1>4. /\ op'[c].at = "take" /\ op'[c].what = op[c].what /\ op'[c].last = op[c].last
      /\ \A d \in Caller \ {c} : op'[d] = op[d]
  BY <1>2 DEF Turns, Goes
<1>5. Placed(c)'
  BY <1>3, <1>4 DEF Placed, Drains
<1>6. UNCHANGED <<state, lifecycle, exec, req, alive, mtx, sampler>>
  BY DEF Disown, client
<1>7. op[c].at \in Drains
  BY <1>1 DEF Drains
<1>8. Walks(c)
  BY <1>1, <1>3, <1>4, <1>6, <1>7 DEF Walks
<1>9. lease.by = NoName /\ lease'.by = NoName /\ lease'.owner = FALSE
  BY <1>1 DEF Disown, TypeOK, ClientOK
<1>10. Locks'
  <2>1. ASSUME mtx # NoName PROVE op'[mtx].at \in {"undoStop", "undoJoin"}
    <3>1. mtx \in Caller /\ op[mtx].at \in {"undoStop", "undoJoin"}
      BY <2>1 DEF Control, TypeOK, ClientOK, Locks
    <3> QED
      BY <1>1, <1>4, <3>1
  <2>2. \A s \in Sampler : sampler[s] # "read"
    BY <1>9, LifecycleAssumption DEF Control, Locks
  <2> QED
    BY <1>6, <1>9, <2>1, <2>2 DEF Locks
<1>11. Disowned'
  <2>1. alive
    BY <1>3, Busy
  <2> QED
    BY <1>6, <1>9, <2>1 DEF Disowned
<1> QED
  BY <1>2, <1>5, <1>8, <1>10, <1>11, WalkOn

\* init(), shutdown() or the destructor ends, and releases lifecycleMutex.
LEMMA Releases ==
    ASSUME Control, NEW c \in Caller, TypeOK', Becomes(c, NoOp),
           op[c].what \in {"init", "shutdown", "destroy"}, Locks', Disowned', Accepted'
    PROVE  Control'
<1>1. op'[c] = NoOp /\ \A d \in Caller \ {c} : op'[d] = op[d]
  BY DEF Becomes
<1>2. Placed(c)' /\ Alone(c)'
  BY <1>1, NoOpPlaced
<1>3. \A d \in Caller : Placed(d)'
  BY <1>1, <1>2, OthersPlaced
<1>4. ASSUME NEW d \in Caller \ {c} PROVE Alone(d)'
  <2>1. op[d].what \notin {"init", "shutdown", "destroy"}
    BY Single
  <2> QED
    BY <1>1, <2>1 DEF Alone
<1> QED
  BY <1>2, <1>3, <1>4 DEF Control

\* A call that ends is not the last; the owner of the lease stays.
LEMMA ReleasesLease ==
    ASSUME Control, NEW c \in Caller, Becomes(c, NoOp), op[c].what # NoName, UNCHANGED <<lease, alive>>
    PROVE  Disowned'
<1>1. alive /\ \A d \in Caller \ {c} : op[d].last = FALSE
  BY Busy
<1>2. op'[c].last = FALSE /\ \A d \in Caller \ {c} : op'[d] = op[d]
  BY NoOpParts DEF Becomes
<1> QED
  BY <1>1, <1>2 DEF Disowned

\* A request waits for its executor, or for the one that a call is retiring.
LEMMA ReleasesWork ==
    ASSUME Control, NEW c \in Caller, Becomes(c, NoOp), UNCHANGED <<exec, req>>,
           op[c].what \in {"init", "shutdown", "destroy"},
           op[c].at = "asyncJoin" => Drained(op[c].ex), op[c].at \notin {"drain", "stopAsync"},
           state' = "Running" \/ UNCHANGED state
    PROVE  Accepted'
<1>0. Accepted
  BY DEF Control
<1>1. op'[c] = NoOp /\ op'[c].at = "idle" /\ \A d \in Caller \ {c} : op'[d] = op[d]
  BY NoOpParts DEF Becomes
<1>2. ASSUME NEW r \in Request, Active(r)
      PROVE  /\ req[r].ex # 0
             /\ \/ req[r].ex \in exec.open
                \/ \E d \in Caller : op'[d].at \in {"asyncJoin", "drain"} /\ op'[d].ex = req[r].ex
  <2>1. /\ req[r].ex # 0
        /\ \/ req[r].ex \in exec.open
           \/ \E d \in Caller : op[d].at \in {"asyncJoin", "drain"} /\ op[d].ex = req[r].ex
    BY <1>0, <1>2 DEF Accepted
  <2>2. CASE req[r].ex \in exec.open
    BY <2>1, <2>2
  <2>3. CASE \E d \in Caller : op[d].at \in {"asyncJoin", "drain"} /\ op[d].ex = req[r].ex
    <3>1. PICK d \in Caller : op[d].at \in {"asyncJoin", "drain"} /\ op[d].ex = req[r].ex
      BY <2>3
    <3>2. d # c
      BY <1>2, <3>1 DEF Drained, Active
    <3>3. op'[d].at \in {"asyncJoin", "drain"} /\ op'[d].ex = req[r].ex
      BY <1>1, <3>1, <3>2
    <3> QED
      BY <2>1, <3>3
  <2> QED
    BY <2>1, <2>2, <2>3
<1>3. state' # "Running" => exec.cur = 0 \/ \E d \in Caller : op'[d].at = "stopAsync"
  BY <1>0, <1>1 DEF Accepted
<1>4. ASSUME NEW d \in Caller, op'[d].what \in {"shutdown", "destroy"}, op'[d].at \in Drains
      PROVE  \A r \in Request : ~Active(r)
  <2>1. d # c
    BY <1>1, <1>4 DEF Drains
  <2> QED
    BY <1>0, <1>1, <1>4, <2>1 DEF Accepted
<1> QED
  BY <1>0, <1>2, <1>3, <1>4 DEF Accepted, Active

\* The ends of init() and of shutdown().
LEMMA UndoJoinControl == ASSUME Control, NEW c \in Caller, UndoJoin(c) PROVE Control'
<1>1. TypeOK /\ Placed(c) /\ op[c].at = "undoJoin"
  BY DEF Control, UndoJoin, At
<1>2. TypeOK' /\ Becomes(c, NoOp)
  BY <1>1, UndoJoinStep
<1>3. op[c].what = "init" /\ NoName # "init"
  BY <1>1, CallOf, LifecycleAssumption DEF InitPlaces, Call
<1>4. UNCHANGED <<state, exec, req, alive, lease, sampler>> /\ mtx' = NoName
  BY DEF UndoJoin, threads
<1>5. Locks'
  BY <1>4 DEF Control, Locks
<1>6. Disowned'
  BY <1>2, <1>3, <1>4, ReleasesLease
<1>7. Accepted'
  BY <1>1, <1>2, <1>3, <1>4, ReleasesWork
<1> QED
  BY <1>2, <1>3, <1>5, <1>6, <1>7, Releases

LEMMA AsyncJoinControl == ASSUME Control, NEW c \in Caller, AsyncJoin(c) PROVE Control'
<1>1. TypeOK /\ Placed(c) /\ op[c].at = "asyncJoin" /\ Drained(op[c].ex)
  BY DEF Control, AsyncJoin, At
<1>2. TypeOK' /\ Becomes(c, NoOp) /\ \A d \in Caller \ {c} : op'[d] = op[d]
  BY <1>1, AsyncJoinStep DEF Becomes
<1>3. op[c].what = "init" /\ NoName # "init"
  BY <1>1, CallOf, LifecycleAssumption DEF InitPlaces, Call
<1>4. UNCHANGED <<exec, req, alive, mtx, lease, sampler>> /\ state' = "Running"
  BY DEF AsyncJoin, Running, threads
<1>5. Locks'
  BY <1>1, <1>2, <1>4, SameLocks
<1>6. Disowned'
  BY <1>2, <1>3, <1>4, ReleasesLease
<1>7. Accepted'
  BY <1>1, <1>2, <1>3, <1>4, ReleasesWork
<1> QED
  BY <1>2, <1>3, <1>5, <1>6, <1>7, Releases

LEMMA ShutdownReturnsControl == ASSUME Control, NEW c \in Caller, ShutdownReturns(c) PROVE Control'
<1>1. TypeOK /\ Placed(c) /\ op[c].at = "unlock"
  BY DEF Control, ShutdownReturns, At
<1>2. TypeOK' /\ Becomes(c, NoOp) /\ \A d \in Caller \ {c} : op'[d] = op[d]
  BY <1>1, ShutdownReturnsStep DEF Becomes
<1>3. op[c].what = "shutdown" /\ NoName # "shutdown"
  BY <1>1, CallOf, LifecycleAssumption DEF Call
<1>4. UNCHANGED <<state, exec, req, alive, mtx, lease, sampler>>
  BY DEF ShutdownReturns, threads
<1>5. Locks'
  BY <1>1, <1>2, <1>4, SameLocks
<1>6. Disowned'
  BY <1>2, <1>3, <1>4, ReleasesLease
<1>7. Accepted'
  BY <1>1, <1>2, <1>3, <1>4, ReleasesWork
<1> QED
  BY <1>2, <1>3, <1>5, <1>6, <1>7, Releases

\* The manager goes when its second shutdown() is over.
LEMMA GoneControl == ASSUME Control, NEW c \in Caller, Gone(c) PROVE Control'
<1>1. TypeOK /\ Placed(c) /\ op[c].at = "gone" /\ op[c].last
  BY DEF Control, Gone, At, Placed
<1>2. TypeOK' /\ Becomes(c, NoOp) /\ op'[c] = NoOp /\ \A d \in Caller \ {c} : op'[d] = op[d]
  BY <1>1, GoneStep DEF Becomes
<1>3. op[c].what = "destroy" /\ NoName # "destroy"
  BY <1>1, CallOf, LifecycleAssumption DEF Call
<1>4. UNCHANGED <<state, exec, req, mtx, lease, sampler>> /\ alive' = FALSE
  BY DEF Gone, threads
<1>5. Locks'
  BY <1>1, <1>2, <1>4, SameLocks
<1>6. Disowned'
  <2>1. ~lease.owner
    BY <1>1 DEF Control, Disowned
  <2>2. \A d \in Caller \ {c} : op[d] = NoOp
    BY <1>3 DEF Control, Alone
  <2>3. ASSUME NEW d \in Caller PROVE op'[d] = NoOp
    <3>1. CASE d = c
      BY <1>2, <3>1
    <3>2. CASE d # c
      <4>1. op'[d] = op[d] /\ op[d] = NoOp
        BY <1>2, <2>2, <3>2
      <4> QED
        BY <4>1
    <3> QED
      BY <3>1, <3>2
  <2> QED
    BY <1>4, <2>1, <2>3 DEF Disowned, Quiet
<1>7. Accepted'
  BY <1>1, <1>2, <1>3, <1>4, ReleasesWork
<1> QED
  BY <1>2, <1>3, <1>5, <1>6, <1>7, Releases

\* A call stops the executor and keeps it, to wait for what it had accepted.
LEMMA KeepsWork ==
    ASSUME Control, NEW c \in Caller, op[c].what \in {"init", "shutdown", "destroy"},
           op[c].at \notin {"asyncJoin", "drain"}, NEW p \in {"asyncJoin", "drain"},
           NEW m, NEW k, NEW id, NEW last, Turns(c, p, m, k, exec.cur, id, last),
           exec'.cur = 0, exec'.open = exec.open \ {exec.cur}, UNCHANGED <<state, req>>
    PROVE  Accepted'
<1>0. Accepted
  BY DEF Control
<1>1. op'[c].at = p /\ op'[c].ex = exec.cur /\ \A d \in Caller \ {c} : op'[d] = op[d]
  BY DEF Turns
<1>2. exec'.open = {}
  BY <1>0 DEF Accepted
<1>3. ASSUME NEW r \in Request, Active(r) PROVE req[r].ex # 0 /\ op'[c].ex = req[r].ex
  <2>1. /\ req[r].ex # 0
        /\ \/ req[r].ex \in exec.open
           \/ \E d \in Caller : op[d].at \in {"asyncJoin", "drain"} /\ op[d].ex = req[r].ex
    BY <1>0, <1>3 DEF Accepted
  <2>2. ASSUME NEW d \in Caller, op[d].at \in {"asyncJoin", "drain"} PROVE FALSE
    BY <2>2, AtCalls, Single DEF InitPlaces
  <2>3. req[r].ex = exec.cur
    BY <1>0, <2>1, <2>2 DEF Accepted
  <2> QED
    BY <1>1, <2>1, <2>3
<1>4. ASSUME NEW d \in Caller, op'[d].what \in {"shutdown", "destroy"}, op'[d].at \in Drains
      PROVE  \A r \in Request : ~Active(r)
  <2>1. d # c
    BY <1>1, <1>4 DEF Drains
  <2> QED
    BY <1>0, <1>1, <1>4, <2>1 DEF Accepted
<1> QED
  BY <1>1, <1>2, <1>3, <1>4 DEF Accepted, Active

\* A call moves on without a lock, and what Accepted says is shown apart.
LEMMA Turning ==
    ASSUME Control, NEW c \in Caller, TypeOK', Placed(c)', op[c].what # NoName, op'[c].what = op[c].what,
           \A d \in Caller \ {c} : op'[d] = op[d], op[c].at \notin {"undoStop", "undoJoin"},
           op'[c].at \notin {"take", "hbStop", "retire", "gone"},
           UNCHANGED <<state, lifecycle, mtx, lease, sampler, alive>>, Accepted'
    PROVE  Control'
<1>1. alive /\ op[c] # NoOp /\ \A d \in Caller \ {c} : op[d].what # "destroy" /\ op[d].last = FALSE
  BY Busy
<1>2. \A d \in Caller : Placed(d)'
  BY OthersPlaced
<1>3. ASSUME NEW d \in Caller PROVE Alone(d)'
  <2>1. Alone(d)
    BY DEF Control
  <2>2. CASE d = c
    BY <2>1, <2>2 DEF Alone
  <2>3. CASE d # c
    BY <1>1, <2>1, <2>3 DEF Alone
  <2> QED
    BY <2>2, <2>3
<1>4. Locks'
  BY SameLocks
<1>5. Disowned'
  <2>1. ASSUME NEW d \in Caller, op'[d].last, op'[d].at \in {"take", "hbStop", "retire", "gone"}
        PROVE  ~lease.owner
    BY <1>1, <2>1
  <2> QED
    BY <1>1, <2>1 DEF Disowned
<1> QED
  BY <1>2, <1>3, <1>4, <1>5 DEF Control

\* configureAsync() keeps the executor, makes one, or stops it and waits.
LEMMA ConfigureAsyncControl == ASSUME Control, NEW c \in Caller, ConfigureAsync(c) PROVE Control'
<1>1. TypeOK /\ Placed(c) /\ op[c].at = "async"
  BY DEF Control, ConfigureAsync, At
<1>2. op[c].what = "init" /\ op[c].arg \in Configs /\ NoName # "init"
  BY <1>1, CallOf, LifecycleAssumption DEF InitPlaces, Call
<1>3. UNCHANGED <<req, alive, mtx, lease, sampler>> /\ TypeOK'
  BY <1>1, ConfigureAsyncStep DEF ConfigureAsync, threads
<1>4. CASE /\ Becomes(c, NoOp) /\ Running(c)
           /\ \/ UNCHANGED exec
              \/ exec.cur = 0 /\ exec'.cur = exec.n + 1 /\ exec'.open = exec.open \cup {exec.n + 1}
  <2>1. op'[c].at = "idle" /\ \A d \in Caller \ {c} : op'[d] = op[d]
    BY <1>4, NoOpParts DEF Becomes
  <2>2. Locks' /\ Disowned' /\ state' = "Running"
    BY <1>1, <1>2, <1>3, <1>4, <2>1, SameLocks, ReleasesLease DEF Running
  <2>3. CASE UNCHANGED exec
    <3>1. Accepted'
      BY <1>1, <1>2, <1>3, <1>4, <2>2, <2>3, ReleasesWork
    <3> QED
      BY <1>2, <1>3, <1>4, <2>2, <3>1, Releases
  <2>4. CASE exec.cur = 0 /\ exec'.cur = exec.n + 1 /\ exec'.open = exec.open \cup {exec.n + 1}
    <3>0. Accepted
      BY DEF Control
    <3>1. exec.open = {}
      BY <2>4, <3>0 DEF Accepted
    <3>2. ASSUME NEW d \in Caller, op[d].at \in {"asyncJoin", "drain"} PROVE FALSE
      BY <1>1, <1>2, <3>2, AtCalls, Single DEF InitPlaces
    <3>3. \A r \in Request : ~Active(r)
      BY <3>0, <3>1, <3>2 DEF Accepted
    <3>4. exec'.open \subseteq {exec'.cur} \ {0}
      <4>1. exec.n \in Nat
        BY <1>1 DEF TypeOK, ClientOK
      <4>2. exec.n + 1 # 0
        BY <4>1, SMT
      <4> QED
        BY <2>4, <3>1, <4>2
    <3>5. Accepted'
      BY <1>3, <2>2, <3>3, <3>4 DEF Accepted, Active
    <3> QED
      BY <1>2, <1>3, <1>4, <2>2, <3>5, Releases
  <2> QED
    BY <1>4, <2>3, <2>4
<1>5. CASE /\ Turns(c, "asyncJoin", op[c].new, op[c].old, exec.cur, op[c].id, op[c].last)
           /\ exec'.cur = 0 /\ exec'.open = exec.open \ {exec.cur} /\ UNCHANGED <<state, lifecycle>>
  <2>1. Accepted'
    BY <1>1, <1>2, <1>3, <1>5, KeepsWork
  <2>2. /\ op'[c].at = "asyncJoin" /\ op'[c].what = "init" /\ op'[c].arg = op[c].arg
        /\ op'[c].last = op[c].last /\ \A d \in Caller \ {c} : op'[d] = op[d]
    BY <1>2, <1>5 DEF Turns
  <2>3. op[c].last = FALSE
    BY <1>1, <1>2, OpParts DEF Placed
  <2>4. Placed(c)'
    BY <1>2, <2>2, <2>3 DEF Placed, InitPlaces
  <2> QED
    BY <1>1, <1>2, <1>3, <1>5, <2>1, <2>2, <2>4, Turning
<1> QED
  BY <1>1, <1>4, <1>5, ConfigureAsyncStep

\* stopAsync(): the executor accepts nothing more, then everything it accepted has run.
LEMMA StopAsyncControl == ASSUME Control, NEW c \in Caller, StopAsync(c) PROVE Control'
<1>1. TypeOK /\ Placed(c) /\ op[c].at = "stopAsync"
  BY DEF Control, StopAsync, At
<1>2. /\ TypeOK' /\ Turns(c, "drain", op[c].new, op[c].old, exec.cur, op[c].id, op[c].last)
      /\ exec'.cur = 0 /\ exec'.open = exec.open \ {exec.cur}
  BY <1>1, StopAsyncStep
<1>3. /\ op[c].what \in {"shutdown", "destroy"} /\ NoName \notin {"shutdown", "destroy"}
      /\ (op[c].last => op[c].what = "destroy")
  BY <1>1, CallOf, LifecycleAssumption DEF Call, Placed
<1>4. UNCHANGED <<state, lifecycle, req, mtx, lease, sampler, alive>>
  BY DEF StopAsync, threads
<1>5. Accepted'
  BY <1>1, <1>2, <1>3, <1>4, KeepsWork
<1>6. /\ op'[c].at = "drain" /\ op'[c].what = op[c].what /\ op'[c].last = op[c].last
      /\ \A d \in Caller \ {c} : op'[d] = op[d]
  BY <1>2 DEF Turns
<1>7. Placed(c)'
  BY <1>3, <1>6 DEF Placed, Drains
<1> QED
  BY <1>1, <1>2, <1>3, <1>4, <1>5, <1>6, <1>7, Turning

LEMMA DrainControl == ASSUME Control, NEW c \in Caller, Drain(c) PROVE Control'
<1>1. TypeOK /\ Placed(c) /\ op[c].at = "drain" /\ (op[c].ex # 0 => Drained(op[c].ex))
  BY DEF Control, Drain, At
<1>2. TypeOK' /\ Turns(c, "stats", op[c].new, op[c].old, 0, op[c].id, op[c].last)
  BY <1>1, DrainStep
<1>3. /\ op[c].what \in {"shutdown", "destroy"} /\ NoName \notin {"shutdown", "destroy"}
      /\ (op[c].last => op[c].what = "destroy")
  BY <1>1, CallOf, LifecycleAssumption DEF Call, Placed
<1>4. UNCHANGED <<state, lifecycle, exec, req, mtx, lease, sampler, alive>>
  BY DEF Drain, client, threads
<1>5. exec.cur = 0 /\ exec.open = {} /\ \A r \in Request : ~Active(r)
  BY <1>1, <1>3, NoExecutor DEF Drained, Active
<1>6. Accepted'
  BY <1>4, <1>5 DEF Accepted, Active
<1>7. /\ op'[c].at = "stats" /\ op'[c].what = op[c].what /\ op'[c].last = op[c].last
      /\ \A d \in Caller \ {c} : op'[d] = op[d]
  BY <1>2 DEF Turns
<1>8. Placed(c)'
  BY <1>3, <1>7 DEF Placed, Drains
<1> QED
  BY <1>1, <1>2, <1>3, <1>4, <1>6, <1>7, <1>8, Turning

\* The threads: calls stay where they are, the client too.
LEMMA SameCalls ==
    ASSUME Control, TypeOK', UNCHANGED <<op, state, lifecycle>>, Locks', Disowned', Accepted'
    PROVE  Control'
<1>1. ASSUME NEW d \in Caller PROVE Placed(d)' /\ Alone(d)'
  <2>1. Placed(d) /\ Alone(d)
    BY DEF Control
  <2>2. Placed(d)'
    BY <2>1 DEF Placed
  <2> QED
    BY <2>1, <2>2 DEF Alone
<1> QED
  BY <1>1 DEF Control

LEMMA MetricsControl ==
    ASSUME Control, NEW s \in Sampler, Sample(s) \/ LockLease(s) \/ ReadStats(s)
    PROVE  Control'
<1>1. TypeOK /\ sampler \in [Sampler -> {"off", "wait", "copied", "read", "done"}] /\ NoName # s
      /\ lease \in [owner : BOOLEAN, by : Sampler \cup {NoName}]
  BY LifecycleAssumption DEF Control, TypeOK, ClientOK
<1>2. TypeOK' /\ UNCHANGED op
  BY <1>1, SampleStep, LockLeaseStep, ReadStatsStep
<1>3. UNCHANGED <<state, lifecycle, exec, req, mtx, alive>>
  BY DEF Sample, LockLease, ReadStats, client
<1>4. Accepted'
  BY <1>2, <1>3 DEF Control, Accepted, Active
<1>5. mtx' # NoName => op'[mtx'].at \in {"undoStop", "undoJoin"}
  BY <1>2, <1>3 DEF Control, Locks
<1>6. lease'.owner = lease.owner
  BY <1>1 DEF Sample, LockLease, ReadStats
<1>7. Disowned'
  BY <1>2, <1>3, <1>6 DEF Control, Disowned, Quiet
<1>8. Locks
  BY DEF Control
<1>9. CASE /\ lease.by # s /\ UNCHANGED lease /\ sampler'[s] # "read" /\ sampler[s] # "read"
           /\ \A t \in Sampler \ {s} : sampler'[t] = sampler[t]
  <2>1. ASSUME lease.by # NoName PROVE sampler'[lease.by] = "read"
    BY <1>1, <1>8, <1>9, <2>1 DEF Locks
  <2>2. ASSUME NEW t \in Sampler, sampler'[t] = "read" PROVE lease.by = t /\ lease.owner
    BY <1>8, <1>9, <2>2 DEF Locks
  <2> QED
    BY <1>2, <1>3, <1>4, <1>5, <1>7, <1>9, <2>1, <2>2, SameCalls DEF Locks
<1>10. CASE /\ lease.by = NoName /\ lease.owner /\ lease'.by = s /\ sampler'[s] = "read"
            /\ \A t \in Sampler \ {s} : sampler'[t] = sampler[t]
  <2>1. ASSUME NEW t \in Sampler, sampler'[t] = "read" PROVE lease'.by = t /\ lease'.owner
    <3>1. t = s
      BY <1>8, <1>10, <2>1, LifecycleAssumption DEF Locks
    <3> QED
      BY <1>6, <1>10, <3>1
  <2> QED
    BY <1>2, <1>3, <1>4, <1>5, <1>7, <1>10, <2>1, SameCalls DEF Locks
<1>11. CASE /\ sampler[s] = "read" /\ lease'.by = NoName /\ sampler'[s] # "read"
            /\ \A t \in Sampler \ {s} : sampler'[t] = sampler[t]
  <2>1. ASSUME NEW t \in Sampler, sampler'[t] = "read" PROVE FALSE
    <3>1. t # s /\ sampler[t] = "read"
      BY <1>11, <2>1
    <3> QED
      BY <1>8, <1>11, <3>1 DEF Locks
  <2> QED
    BY <1>2, <1>3, <1>4, <1>5, <1>7, <1>11, <2>1, SameCalls DEF Locks
<1>12. \A t \in Sampler \ {s} : sampler'[t] = sampler[t]
  BY <1>1 DEF Sample, LockLease, ReadStats, Sampled, Samples
<1>13. sampler[s] # "read" => lease.by # s
  BY <1>1, <1>8 DEF Locks
<1>14. CASE Sample(s)
  <2>1. UNCHANGED lease /\ sampler'[s] # "read" /\ sampler[s] # "read"
    BY <1>1, <1>14 DEF Sample, Samples
  <2> QED
    BY <1>9, <1>12, <1>13, <2>1
<1>15. CASE LockLease(s)
  <2>1. lease.by = NoName /\ sampler[s] # "read"
    BY <1>15 DEF LockLease
  <2>2. CASE lease.owner
    BY <1>1, <1>10, <1>12, <1>15, <2>1, <2>2 DEF LockLease, Samples
  <2>3. CASE ~lease.owner
    BY <1>1, <1>9, <1>12, <1>13, <1>15, <2>1, <2>3 DEF LockLease, Samples, Sampled
  <2> QED
    BY <2>2, <2>3
<1>16. CASE ReadStats(s)
  BY <1>1, <1>11, <1>12, <1>16 DEF ReadStats, Samples, Sampled
<1> QED
  BY <1>14, <1>15, <1>16

\* A request is accepted only by an executor that is not stopped.
LEMMA RequestControl ==
    ASSUME Control, NEW r \in Request, FindSource(r) \/ Statement(r)
    PROVE  Control'
<1>1. TypeOK /\ Accepted
  BY DEF Control
<1>2. /\ TypeOK' /\ UNCHANGED quiet
      /\ \/ \E pool \in Nat : Moves(r, "resolved", pool, 0)
         \/ Moves(r, "done", 0, 0)
         \/ \E pool \in Nat : Moves(r, "post", pool, exec.cur)
         \/ req[r].ex \in exec.open /\ Moves(r, "queued", req[r].pool, req[r].ex)
         \/ Moves(r, "engine", 0, req[r].ex)
         \/ (req[r].at = "queued" \/ req[r].ex \in exec.open)
            /\ Moves(r, "running", 0, req[r].ex)
  BY <1>1, RequestStep
<1>3. /\ UNCHANGED <<op, state, lifecycle, exec, mtx, lease, sampler, alive>>
      /\ \A q \in Request \ {r} : req'[q] = req[q]
  BY <1>2 DEF quiet, threads, Moves
<1>4. Active(r)' => req'[r].ex = req[r].ex /\ (req[r].ex \in exec.open \/ Active(r))
  BY <1>2 DEF Active, Moves
<1>5. Locks' /\ Disowned'
  BY <1>3 DEF Control, Locks, Disowned, Quiet
<1>6. ASSUME NEW q \in Request, Active(q)'
      PROVE  /\ req'[q].ex = req[q].ex /\ req[q].ex # 0
             /\ \/ req[q].ex \in exec.open
                \/ \E d \in Caller : op[d].at \in {"asyncJoin", "drain"} /\ op[d].ex = req[q].ex
  <2>1. req'[q].ex = req[q].ex /\ (req[q].ex \in exec.open \/ Active(q))
    <3>1. CASE q = r
      BY <1>4, <1>6, <3>1
    <3>2. CASE q # r
      BY <1>3, <1>6, <3>2 DEF Active
    <3> QED
      BY <3>1, <3>2
  <2> QED
    BY <1>1, <2>1 DEF Accepted
<1>7. ASSUME NEW d \in Caller, op[d].what \in {"shutdown", "destroy"}, op[d].at \in Drains,
             NEW q \in Request, Active(q)'
      PROVE  FALSE
  <2>1. exec.open = {} /\ op[d].at # "stopAsync"
    <3>1. op[d].at # "stopAsync"
      BY <1>7 DEF Drains
    <3> QED
      BY <1>7, <3>1, NoExecutor
  <2>2. ~Active(r) /\ ~Active(q)
    BY <1>1, <1>7 DEF Accepted
  <2>3. CASE q = r
    BY <1>4, <1>7, <2>1, <2>2, <2>3
  <2>4. CASE q # r
    BY <1>3, <1>7, <2>2, <2>4 DEF Active
  <2> QED
    BY <2>3, <2>4
<1>8. Accepted'
  <2>1. /\ exec'.open \subseteq {exec'.cur} \ {0}
        /\ state' # "Running" => exec'.cur = 0 \/ \E d \in Caller : op'[d].at = "stopAsync"
    BY <1>1, <1>3 DEF Accepted
  <2>2. ASSUME NEW q \in Request, Active(q)'
        PROVE  /\ req'[q].ex # 0
               /\ \/ req'[q].ex \in exec'.open
                  \/ \E d \in Caller : op'[d].at \in {"asyncJoin", "drain"} /\ op'[d].ex = req'[q].ex
    BY <1>3, <1>6, <2>2
  <2>3. ASSUME NEW d \in Caller, op'[d].what \in {"shutdown", "destroy"}, op'[d].at \in Drains
        PROVE  \A q \in Request : ~Active(q)'
    BY <1>3, <1>7, <2>3
  <2> QED
    BY <2>1, <2>2, <2>3 DEF Accepted
<1> QED
  BY <1>2, <1>3, <1>5, <1>8, SameCalls

-----------------------------------------------------------------------------
(* The control of every call is kept.                                      *)

LEMMA InitControl == Init => Control
<1> SUFFICES ASSUME Init PROVE Control
  BY SMT
<1>1. \A c \in Caller : op[c] = NoOp
  BY DEF Init
<1>2. ClientOK
  <2>1. lease \in [owner : BOOLEAN, by : Sampler \cup {NoName}]
    BY DEF Init
  <2>2. exec \in [cur : Nat, open : SUBSET Nat, n : Nat]
    BY SMT DEF Init
  <2>3. req \in [Request -> [at : RequestPlaces, pool : Nat, ex : Nat]]
    BY SMT DEF Init, NoRequest, RequestPlaces
  <2>4. sampler \in [Sampler -> {"off", "wait", "copied", "read", "done"}]
    BY DEF Init
  <2> QED
    BY <2>1, <2>2, <2>3, <2>4 DEF Init, ClientOK
<1>3. ObjectsOK
  <2>1. made \in [pool : Nat, group : Nat, calls : Nat]
    BY SMT DEF Init
  <2>2. hb \in Seq(Heartbeats)
    BY SMT DEF Init
  <2> QED
    BY <2>1, <2>2 DEF Init, ObjectsOK
<1>4. TypeOK
  BY <1>2, <1>3, EmptyTyped DEF Init, TypeOK
<1>5. ASSUME NEW c \in Caller PROVE Placed(c) /\ Alone(c)
  <2>1. /\ op[c] = NoOp /\ op[c].at = "idle" /\ op[c].what = NoName /\ op[c].last = FALSE
        /\ NoName \notin Call
    BY <1>1, NoOpParts, LifecycleAssumption
  <2>2. Placed(c)
    BY <2>1 DEF Placed, Call
  <2>3. Alone(c)
    BY <2>1 DEF Alone, Call
  <2> QED
    BY <2>2, <2>3
<1>6. \A c \in Caller : op[c].at = "idle" /\ op[c].last = FALSE
  BY <1>1, NoOpParts
<1>7. Locks
  <2>1. lease.by = NoName /\ mtx = NoName /\ \A s \in Sampler : sampler[s] = "off"
    BY SMT DEF Init
  <2> QED
    BY <2>1 DEF Locks
<1>8. Disowned
  BY <1>6 DEF Init, Disowned
<1>9. Accepted
  <2>1. exec.cur = 0 /\ exec.open = {} /\ \A r \in Request : req[r].at = "idle"
    BY SMT DEF Init, NoRequest
  <2>2. \A r \in Request : ~Active(r)
    BY <2>1 DEF Active
  <2> QED
    BY <2>1, <2>2 DEF Accepted
<1> QED
  BY <1>4, <1>5, <1>7, <1>8, <1>9 DEF Control

LEMMA ManagerCallControl == ASSUME Control, NEW c \in Caller, ManagerCall(c) PROVE Control'
<1>1. CASE StartNew(c) \/ Publish(c) \/ InitShadows(c) \/ UndoStop(c)
  BY <1>1, InitWalks
<1>2. CASE UndoInit(c) \/ UndoJoin(c) \/ TakeLease(c) \/ StatsStart(c)
  BY <1>2, UndoInitControl, UndoJoinControl, TakeLeaseControl, StatsStartControl
<1>3. CASE RetireStop(c) \/ Retire(c)
  BY <1>3, InitWalks, ShutWalks
<1>4. CASE ConfigureAsync(c) \/ AsyncJoin(c) \/ StopAsync(c) \/ Drain(c)
  BY <1>4, ConfigureAsyncControl, AsyncJoinControl, StopAsyncControl, DrainControl
<1>5. CASE ShutStats(c) \/ TakeMaps(c) \/ ShutAgain(c)
  BY <1>5, ShutWalks
<1>6. CASE ShutClear(c) \/ Disown(c) \/ ShutdownReturns(c) \/ Gone(c)
  BY <1>6, ShutClearControl, DisownControl, ShutdownReturnsControl, GoneControl
<1>7. CASE RuntimeStep(c)
  BY <1>7, RuntimeWalks
<1> QED
  BY <1>1, <1>2, <1>3, <1>4, <1>5, <1>6, <1>7 DEF ManagerCall, RuntimeStep

LEMMA NextControl == Control /\ [Next]_vars => Control'
<1> SUFFICES ASSUME Control, [Next]_vars PROVE Control'
  BY SMT
<1>1. CASE UNCHANGED vars
  <2>1. UNCHANGED <<ctl, op, man>> /\ UNCHANGED clientVars /\ UNCHANGED objectVars
    BY <1>1 DEF vars, ctl, clientVars, objectVars
  <2>2. TypeOK' /\ UNCHANGED <<ctl, op>>
    BY <2>1, ClientSame, ObjectsSame, TypesKept DEF Control, TypeOK
  <2> QED
    BY <2>2, Still
<1>2. CASE \E c \in Caller : InitCall(c) \/ ShutdownCall(c) \/ ShutdownIdle(c) \/ RuntimeCall(c)
  BY <1>2, InitCallControl, ShutdownCallControl, ShutdownIdleControl, RuntimeCallControl
<1>3. CASE \E c \in Caller : ManagerCall(c)
  BY <1>3, ManagerCallControl
<1>4. CASE \E h \in DOMAIN hb : Heartbeat(h)
  <2>1. PICK h \in DOMAIN hb : Heartbeat(h)
    BY <1>4
  <2>2. TypeOK' /\ UNCHANGED op
    BY <2>1, HeartbeatStep DEF Control
  <2>3. UNCHANGED ctl
    BY <2>1 DEF Heartbeat, ctl, client
  <2> QED
    BY <2>2, <2>3, Still
<1>5. CASE Metrics
  BY <1>5, MetricsControl DEF Metrics
<1>6. CASE \E r \in Request : FindSource(r) \/ Statement(r)
  BY <1>6, RequestControl
<1> QED
  BY <1>1, <1>2, <1>3, <1>4, <1>5, <1>6 DEF Next

\* Client::init(), reload(), shutdown() and ~Client() keep to their order whatever else
\* is called: who holds lifecycleMutex, mtx_ and the lease, where each call may be, and
\* with which executor an accepted request is.
THEOREM ControlKept == Spec => []Control
<1>1. Init => Control
  BY InitControl, SMT
<1>2. Control /\ [Next]_vars => Control'
  BY NextControl, SMT
<1> QED
  BY <1>1, <1>2, PTL DEF Spec

\* A reader of the metrics that has the collector never reads a manager that has given
\* up the lease or is gone (samplePoolMetrics() and DatabaseManager::shutdown()).
THEOREM MetricsReadALiveManager == Spec => []SampledAlive
<1>1. Control => SampledAlive
  <2> SUFFICES ASSUME Control, NEW s \in Sampler, sampler[s] = "read" PROVE lease.owner /\ alive
    BY DEF SampledAlive
  <2>1. lease.owner
    BY DEF Control, Locks
  <2> QED
    BY <2>1 DEF Control, Disowned
<1> QED
  BY <1>1, ControlKept, PTL

\* shutdown() closes no pool while a task that the executor accepted is queued or runs,
\* however many requests raced with stopAsync().  Statements that the engine keeps in a
\* pool's queue or at a driver are not covered: nothing waits for them.
THEOREM ExecutorDrainedBeforePoolsClose == Spec => []DrainsFirst
<1>1. Control => DrainsFirst
  <2> SUFFICES ASSUME Control, NEW c \in Caller, op[c].what \in {"shutdown", "destroy"}, At(c, "retire"),
                      NEW r \in Request
               PROVE  ~Active(r)
    BY DEF DrainsFirst, Active
  <2>1. op[c].at \in Drains
    BY DEF At, Drains
  <2> QED
    BY <2>1 DEF Control, Accepted
<1> QED
  BY <1>1, ControlKept, PTL

\* The calls, the statistics thread and the readers of the metrics never wait for each
\* other in a circle: whoever holds mtx_ waits for none of them, whoever holds the lease
\* for mtx_ only, and the reporter for those two.
THEOREM NobodyWaitsInACircle == Spec => []NoCircularWait
<1>1. Control => NoCircularWait
  <2> SUFFICES ASSUME Control, NEW some \in SUBSET (Caller \cup Sampler), some # {}
               PROVE  \E x \in some : \A y \in some : ~WaitsFor(x, y)
    BY DEF NoCircularWait
  <2>1. /\ Locks /\ TypeOK /\ Caller \cap Sampler = {} /\ NoName \notin Caller \cup Sampler
        /\ "reporter" \in Sampler
    BY LifecycleAssumption DEF Control, Sampler
  <2>2. CASE mtx \in some
    <3>1. mtx \in Caller /\ mtx \notin Sampler /\ op[mtx].at \in {"undoStop", "undoJoin"}
      BY <2>1, <2>2 DEF TypeOK, ClientOK, Locks
    <3>2. \A y \in some : ~WaitsFor(mtx, y)
      BY <3>1 DEF WaitsFor, Locking
    <3> QED
      BY <2>2, <3>2
  <2>3. CASE mtx \notin some /\ lease.by \in some
    <3>1. lease.by \in Sampler /\ lease.by \notin Caller /\ sampler[lease.by] = "read"
      BY <2>1, <2>3 DEF TypeOK, ClientOK, Locks
    <3>2. \A y \in some : ~WaitsFor(lease.by, y)
      BY <2>3, <3>1 DEF WaitsFor
    <3> QED
      BY <2>3, <3>2
  <2>4. CASE mtx \notin some /\ lease.by \notin some /\ "reporter" \in some
    <3>1. "reporter" \notin Caller
      BY <2>1
    <3>2. \A y \in some : ~WaitsFor("reporter", y)
      BY <2>4, <3>1 DEF WaitsFor
    <3> QED
      BY <2>4, <3>2
  <2>5. CASE mtx \notin some /\ lease.by \notin some /\ "reporter" \notin some
    <3>1. PICK x \in some : TRUE
      OBVIOUS
    <3>2. \A y \in some : ~WaitsFor(x, y)
      BY <2>5 DEF WaitsFor
    <3> QED
      BY <3>2
  <2> QED
    BY <2>2, <2>3, <2>4, <2>5
<1> QED
  BY <1>1, ControlKept, PTL
================================================================================
