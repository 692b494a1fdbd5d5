------------------------------ MODULE MCLifecycle ------------------------------
(* Instances of Lifecycle for TLC. *)
EXTENDS Lifecycle, TLC

CONSTANTS c1, c2, r1

Plain(name, primary, replicas, shadow) ==
    [name |-> name, primary |-> primary, replicas |-> replicas, failover |-> {},
     shadow |-> shadow, buffer |-> FALSE, acknowledged |-> TRUE, readOnly |-> FALSE]
Cfg(leaves, groups, def) ==
    [leaves |-> leaves, groups |-> groups, def |-> def, heartbeat |-> TRUE, stats |-> TRUE,
     async |-> TRUE]

CallerSymmetry == Permutations(Caller)

MCConfigs ==
    {Cfg(<<"a", "b">>, <<Plain("g", "a", {}, "b")>>, "a"),
     [Cfg(<<"a">>, <<Plain("g", "a", {}, "a")>>, "g") EXCEPT !.stats = FALSE],
     [Cfg(<<"b">>, <<>>, "b") EXCEPT !.async = FALSE, !.stats = FALSE]}
MCAdditions ==
    {[Plain("h", "a", {"b"}, "b") EXCEPT !.failover = {"b"}, !.buffer = TRUE]}
================================================================================
