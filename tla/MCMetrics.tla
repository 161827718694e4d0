------------------------------- MODULE MCMetrics -------------------------------
(* The path of a metric from its sample to the transactions of the forwarder, *)
(* in four components that share no state: a behaviour is one of one of them, *)
(* and the others stay in an initial state.                                   *)
EXTENDS BucketAggregator, MetricsAggregator, PayloadSplit, Intake

VARIABLE component

MCInit ==
    /\ component \in {"buckets", "metrics", "payload", "intake"}
    /\ Init /\ (component # "buckets" => ~interleaved)
    /\ MetricsInit /\ (component # "metrics" => kind = "Raw")
    /\ SplitInit /\ (component # "payload" => series = CHOOSE s \in Batches : TRUE)
    /\ IntakeInit

MCNext ==
    /\ UNCHANGED component
    /\ IF component = "buckets" THEN Next ELSE UNCHANGED vars
    /\ IF component = "metrics" THEN MetricsNext ELSE UNCHANGED metricsVars
    /\ IF component = "payload" THEN SplitNext ELSE UNCHANGED splitVars
    /\ IF component = "intake" THEN IntakeNext ELSE UNCHANGED intakeVars

MCSpec == MCInit /\ [][MCNext]_<<component, vars, metricsVars, splitVars, intakeVars>>

-------------------------------------------------------------------------------
\* BucketAggregator.  Threads that interleave at each of their steps have many
\* more behaviours than threads that take turns.
TimeBound == [interleave \in BOOLEAN |-> IF interleave THEN 5 ELSE 7]
PointsBound == [interleave \in BOOLEAN |-> IF interleave THEN 2 ELSE 3]

\* PayloadSplit: metrics that compress well or not at all, one too large for any
\* payload, and one whose text is larger once it is encoded.
SomeMetrics ==
    {[size |-> n, text |-> t] : n \in {1, 4}, t \in {"ascii", "undecodable"}}
        \cup {[size |-> 12, text |-> "wide"], [size |-> 6, text |-> "wide"]}
FewMetrics == UNION {[1..n -> SomeMetrics] : n \in 1..3}
ManyMetrics == [1..5 -> {[size |-> n, text |-> "ascii"] : n \in {1, 8}}]
MetricBatches == FewMetrics \cup ManyMetrics
SumOfSizes(batch, from, to) ==
    FoldSeq(LAMBDA each, size : size + each.size, 0, SubSeq(batch, from, to))

\* Intake: a payload that is no JSON, and pickles with a bad point or a bad item.
Requests == {[path |-> "intake", json |-> TRUE], [path |-> "series", json |-> FALSE]}
Pickles ==
    <<[pickled |-> TRUE, items |-> <<"point", "bad", "point">>],
      [pickled |-> TRUE, items |-> <<"point", "no pair">>]>>
===============================================================================
