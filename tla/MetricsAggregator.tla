--------------------------- MODULE MetricsAggregator ---------------------------
(***************************************************************************)
(* The metrics of a check: MetricsAggregator and the metric classes of     *)
(* aggregator.py.  One context is followed, of any kind; the check submits *)
(* values, and the collector flushes, at any time.                         *)
(***************************************************************************)
EXTENDS Integers, Sequences, FiniteSets, SequencesExt

CONSTANTS
    Inputs,             \* values that are submitted
    Percentile,         \* histogram_percentiles, in percent
    MetricExpiry,       \* expiry_seconds, in ticks
    MetricsMaxTime,     \* bound: the time
    MaxSamples          \* bound: the samples of a metric

ASSUME MetricsAssumption ==
    /\ Inputs \subseteq Nat /\ Percentile \in 1..99
    /\ MetricExpiry \in Nat /\ MetricsMaxTime \in Nat /\ MaxSamples \in Nat

Kinds == {"Raw", "Gauge", "Count", "MonotonicCount", "Counter", "Histogram", "Set", "Rate"}
NoValue == -1

VARIABLES
    clock,        \* time()
    kind,       \* the class of the metric
    metric,     \* self.metrics[context], or NoMetric
    samples,    \* history: samples of the metric since it was created
    fresh,      \* history: how many of them came after the last flush
    report      \* what the last flush reported

metricsVars == <<clock, kind, metric, samples, fresh, report>>

\* The fields of all the classes: each uses a few.
NoMetric == [exists |-> FALSE, value |-> NoValue, prev |-> NoValue, curr |-> NoValue,
             list |-> <<>>, last |-> NoValue]
New == [NoMetric EXCEPT !.exists = TRUE, !.value = IF kind = "Counter" THEN 0 ELSE NoValue]

MetricsInit ==
    /\ clock = 0 /\ kind \in Kinds /\ metric = NoMetric
    /\ samples = <<>> /\ fresh = 0 /\ report = <<>>

-----------------------------------------------------------------------------
(* sample(), of each class *)

OrZero(v) == IF v = NoValue THEN 0 ELSE v
Positive(v) == IF v > 0 THEN v ELSE 0

\* Mutant: the value before is not kept from one flush to the next.
SampleFirst(m, v) ==
    [m EXCEPT !.prev = m.curr, !.curr = v,
              !.value = IF m.curr = NoValue THEN @ ELSE OrZero(@) + Positive(v - m.curr)]
SampleMonotonic(m, v) ==
    LET prev == IF m.curr = NoValue THEN m.prev ELSE m.curr
    IN [m EXCEPT !.prev = prev, !.curr = v,
                 !.value = IF prev = NoValue THEN @ ELSE OrZero(@) + Positive(v - prev)]

\* values.add(): the unique values, in the order they came
WithUnique(list, v) == IF v \in ToSet(list) THEN list ELSE Append(list, v)

SampledMetric(m, v) ==
    CASE kind = "Gauge" -> [m EXCEPT !.value = v]
      [] kind \in {"Count", "Counter"} -> [m EXCEPT !.value = OrZero(@) + v]
      [] kind = "MonotonicCount" -> SampleMonotonic(m, v)
      [] kind = "Set" -> [m EXCEPT !.list = WithUnique(@, v)]
      [] kind = "Rate" -> [m EXCEPT !.list = Append(@, [value |-> v, time |-> clock])]
      [] kind \in {"Raw", "Histogram"} -> [m EXCEPT !.list = Append(@, v)]

-----------------------------------------------------------------------------
(* flush(), of each class: what it reports and what is left *)

\* list[i] of Python, where -1 is the last one
At(list, i) == IF i < 0 THEN list[Len(list) + i + 1] ELSE list[i + 1]
\* round() of a/b, half away from zero
Round(a, b) == IF a >= 0 THEN (2 * a + b) \div (2 * b) ELSE -((b - 2 * a) \div (2 * b))

\* samples.sort()
Sorted(list) ==
    LET order == CHOOSE p \in Bijection(DOMAIN list, DOMAIN list) :
                    \A i, j \in DOMAIN list : i < j => list[p[i]] <= list[p[j]]
    IN [i \in DOMAIN list |-> list[order[i]]]

Aggregates(list) ==
    LET sorted == Sorted(list)
        length == Len(list)
    IN [min |-> At(sorted, 0), max |-> At(sorted, -1),
        median |-> At(sorted, (length \div 2) - 1),
        sum |-> FoldFunction(+, 0, list), count |-> length,
        percentile |-> At(sorted, Round(Percentile * length - 100, 100))]

Rate(before, last) ==
    IF last.time > before.time /\ last.value >= before.value
    THEN <<[delta |-> last.value - before.value, interval |-> last.time - before.time]>>
    ELSE <<>>

Reported(m) ==
    CASE kind = "Raw" -> m.list
      [] kind = "Counter" -> <<m.value>>
      [] kind \in {"Gauge", "Count", "MonotonicCount"} ->
            IF m.value = NoValue THEN <<>> ELSE <<m.value>>
      [] kind = "Set" -> IF m.list = <<>> THEN <<>> ELSE <<Len(m.list)>>
      [] kind = "Histogram" -> IF m.list = <<>> THEN <<>> ELSE Aggregates(m.list)
      [] kind = "Rate" ->
            IF Len(m.list) < 2 THEN <<>> ELSE Rate(At(m.list, -2), At(m.list, -1))

LastKept(list) == IF Len(list) < 2 THEN list ELSE <<Last(list)>>

FlushedMetric(m) ==
    CASE kind \in {"Raw", "Set", "Histogram"} -> [m EXCEPT !.list = <<>>]
      [] kind \in {"Gauge", "Count"} -> [m EXCEPT !.value = NoValue]
      [] kind = "Counter" -> [m EXCEPT !.value = 0]
      [] kind = "MonotonicCount" ->
            IF m.value = NoValue THEN m
            ELSE [m EXCEPT !.prev = m.curr, !.curr = NoValue, !.value = NoValue]
      [] kind = "Rate" -> [m EXCEPT !.list = LastKept(@)]

-----------------------------------------------------------------------------
(* submit_metric() and flush() of MetricsAggregator *)

Existing == IF metric.exists THEN metric ELSE New

SubmitValue(value) ==
    /\ Len(samples) < MaxSamples
    /\ metric' = [SampledMetric(Existing, value) EXCEPT !.last = clock]
    /\ samples' = Append(samples, [value |-> value, time |-> clock])
    /\ fresh' = fresh + 1
    /\ UNCHANGED <<clock, kind, report>>

\* A point with an old timestamp is discarded, once its metric has been created.
SubmitOldValue ==
    /\ metric' = Existing
    /\ UNCHANGED <<clock, kind, samples, fresh, report>>

\* Raw metrics are never thrown away; NoValue comes before any time.
ContextExpires ==
    /\ metric.exists /\ kind # "Raw"
    /\ metric.last = NoValue \/ metric.last < clock - MetricExpiry

FlushContext ==
    /\ metric.exists /\ ~ContextExpires
    /\ report' = Reported(metric)
    /\ metric' = FlushedMetric(metric)
    /\ fresh' = 0
    /\ UNCHANGED <<clock, kind, samples>>

FlushNoMetric ==
    /\ ~metric.exists
    /\ report' = <<>>
    /\ UNCHANGED <<clock, kind, metric, samples, fresh>>

Expire ==
    /\ ContextExpires
    /\ metric' = NoMetric
    /\ samples' = <<>> /\ fresh' = 0 /\ report' = <<>>
    /\ UNCHANGED <<clock, kind>>

MetricsTick ==
    /\ clock < MetricsMaxTime
    /\ clock' = clock + 1
    /\ UNCHANGED <<kind, metric, samples, fresh, report>>

MetricsNext == (\E v \in Inputs : SubmitValue(v)) \/ SubmitOldValue \/ FlushContext \/ FlushNoMetric \/ Expire \/ MetricsTick

MetricsSpec == MetricsInit /\ [][MetricsNext]_metricsVars

-----------------------------------------------------------------------------
(* Properties *)

\* Every variable has its type.
MetricsTypeOK ==
    /\ clock \in 0..MetricsMaxTime /\ kind \in Kinds
    /\ metric.exists \in BOOLEAN
    /\ {metric.value, metric.prev, metric.curr} \subseteq Nat \cup {NoValue}
    /\ metric.last \in 0..MetricsMaxTime \cup {NoValue}
    /\ fresh \in 0..Len(samples) /\ Len(samples) <= MaxSamples

\* What a flush reports, made from the summary the metric keeps, is what the
\* samples since the flush before add up to, and nothing is forgotten but a
\* metric that was not submitted for expiry_seconds.
R == INSTANCE Rollup
ImplementsRollup == R!Spec

\* config.py:264 has 'median' among the aggregates of a histogram: half of the
\* samples, at least, are not above it and half are not below it.
MedianInTheMiddle ==
    [][FlushContext /\ kind = "Histogram" /\ fresh > 0 =>
          /\ 2 * Cardinality({i \in DOMAIN metric.list : metric.list[i] <= report'.median})
                >= Len(metric.list)
          /\ 2 * Cardinality({i \in DOMAIN metric.list : metric.list[i] >= report'.median})
                >= Len(metric.list)]_metricsVars

\* checks/__init__.py:562, "Values will persist across each call to `check` if
\* there is not enough point to generate a rate on the flush."
RatePersists ==
    [][kind = "Rate" /\ Len(samples) = 1 => samples' # <<>>]_metricsVars
===============================================================================
