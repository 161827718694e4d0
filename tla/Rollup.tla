-------------------------------- MODULE Rollup --------------------------------
(***************************************************************************)
(* What a metric of a check promises: each flush reports the samples that  *)
(* came since the flush before, rolled up as its kind says.  The samples   *)
(* are all kept here; aggregator.py keeps a summary of them.               *)
(***************************************************************************)
EXTENDS Integers, Sequences, FiniteSets, FiniteSetsExt, Functions

CONSTANTS
    Inputs,         \* values that are submitted
    Percentile,     \* the percentile reported of a histogram, in percent
    MetricExpiry   \* how long a metric is remembered

VARIABLES
    clock,        \* the time
    kind,       \* the kind of the metric
    samples,    \* its samples, with their times
    fresh,      \* how many of them the next flush reports
    report      \* what the last flush reported

vars == <<clock, kind, samples, fresh, report>>

Values == [i \in DOMAIN samples |-> samples[i].value]
Fresh == (Len(samples) - fresh + 1)..Len(samples)
Total == FoldFunctionOnSet(+, 0, Values, Fresh)

\* What the samples add to a count that only grows.
Growth == [i \in DOMAIN samples |->
              IF i > 1 /\ Values[i] > Values[i - 1] THEN Values[i] - Values[i - 1] ELSE 0]
Grown == FoldFunctionOnSet(+, 0, Growth, Fresh)

AtMost(v) == Cardinality({i \in Fresh : Values[i] <= v})
Below(v) == Cardinality({i \in Fresh : Values[i] < v})
\* The percentile is the sample of that rank, the rank being rounded.
Rank == Max({1, (2 * Percentile * fresh + 100) \div 200})

Slope ==
    LET last == samples[Len(samples)]
        before == samples[Len(samples) - 1]
    IN [delta |-> last.value - before.value, interval |-> last.time - before.time]

\* Several results are possible: the median of a histogram is any of its samples.
FreshValues == {Values[i] : i \in Fresh}
Ranked == {i \in Fresh : AtMost(Values[i]) >= Rank /\ Below(Values[i]) < Rank}
Histograms ==
    {[min |-> Min(FreshValues), max |-> Max(FreshValues), sum |-> Total, count |-> fresh,
      percentile |-> Values[p], median |-> Values[m]] : p \in Ranked, m \in Fresh}

Reports ==
    IF fresh = 0 /\ (kind # "Counter" \/ samples = <<>>)
    THEN {<<>>}
    ELSE CASE kind = "Raw"     -> {SubSeq(Values, Len(Values) - fresh + 1, Len(Values))}
           [] kind \in {"Count", "Counter"} -> {<<Total>>}
           [] kind = "MonotonicCount" ->
                 {IF Fresh \ {1} = {} THEN <<>> ELSE <<Grown>>}
           [] kind = "Gauge"   -> {<<Values[Len(Values)]>>}
           [] kind = "Set"     -> {<<Cardinality(FreshValues)>>}
           [] kind = "Rate"    ->
                 {IF Len(samples) > 1 /\ Slope.interval > 0 /\ Slope.delta >= 0
                  THEN <<Slope>> ELSE <<>>}
           [] kind = "Histogram" -> Histograms

Init == clock = 0 /\ samples = <<>> /\ fresh = 0 /\ report = <<>>

Submit(value) ==
    /\ samples' = Append(samples, [value |-> value, time |-> clock])
    /\ fresh' = fresh + 1
    /\ UNCHANGED <<clock, kind, report>>

Flush ==
    /\ report' \in Reports /\ fresh' = 0
    /\ UNCHANGED <<clock, kind, samples>>

\* A flush forgets a metric that has not been submitted for some time.
Forget ==
    /\ samples # <<>> /\ samples[Len(samples)].time < clock - MetricExpiry
    /\ samples' = <<>> /\ fresh' = 0 /\ report' = <<>>
    /\ UNCHANGED <<clock, kind>>

Tick == clock' = clock + 1 /\ UNCHANGED <<kind, samples, fresh, report>>

Next == (\E v \in Inputs : Submit(v)) \/ Flush \/ Forget \/ Tick

Spec == Init /\ [][Next]_vars
===============================================================================
