------------------------- MODULE MCDataSourceGroup -------------------------
(* Instances of DataSourceGroup for TLC.                                    *)
EXTENDS DataSourceGroup, TLC

CONSTANTS a, b

MCReplicas == <<"standby">>
MCFailover == <<"primary", "standby">>

\* A synchronous caller in one scope; the other calls are variants of it.
Plain(script) ==
    [script |-> script, shadow |-> FALSE, async |-> FALSE,
     bufferable |-> FALSE, depth |-> 1, idempotency |-> "Unspecified"]
Buffered(call0) == [call0 EXCEPT !.bufferable = TRUE]
Retried(call0) == [call0 EXCEPT !.async = TRUE, !.idempotency = "Idempotent"]
Shadowing(call0) == [call0 EXCEPT !.shadow = TRUE]

Together(first, second) == a :> first @@ b :> second

\* a writes, in one of three ways, and reads in the same scope, beside an
\* asynchronous reader;
\* two writes meet in the buffer; a shadow write and read run beside a write.
MCCalls ==
    {Together(Plain(<<kind, "read">>), [Plain(<<"read">>) EXCEPT !.async = TRUE]) :
        kind \in {"write", "session", "transaction"}}
    \cup {Together(Buffered(Plain(<<"write">>)), Buffered(Retried(Plain(<<"write">>)))),
          Together(Plain(<<"write">>), Shadowing(Buffered(Plain(<<"write", "read">>))))}

=============================================================================
