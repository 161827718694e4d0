---- MODULE Prometheus ----
(***************************************************************************)
(* The base class of the checks of prometheus endpoints                    *)
(* (checks/prometheus_check.py): an endpoint is polled, what it exposes is *)
(* put together into metric families, and these are submitted as gauges.   *)
(***************************************************************************)
EXTENDS Integers, Sequences, FiniteSets, FiniteSetsExt

CONSTANTS
    Families,       \* names of metrics without _bucket, _count and _sum
    MappedNames,    \* metrics_mapper
    HandledNames,   \* metrics with a method of their own
    IgnoredNames,   \* ignore_metrics
    TypeOverrides,  \* type_overrides, by name; "none" for most
    SendBuckets,    \* send_histograms_buckets
    Expositions,    \* what an endpoint may expose: sequences of lines
    MaxPolls        \* bound on the polls

MetricTypes == {"counter", "gauge", "summary", "untyped", "histogram"}

\* A line gives a type, or one sample: of the family, its buckets, counts or sums,
\* with a bound (le or quantile) or none.  "other" lines match no pattern.  No bucket
\* or quantile is there twice, which the format rules out.
SampleSuffixes == {"", "bucket", "count", "sum"}
IsSample(e, i, m, suffix) == e[i].what = "sample" /\ e[i].name = m /\ e[i].suffix = suffix

ASSUME PromAssumption ==
    /\ IsFiniteSet(Families) /\ MappedNames \subseteq Families
    /\ SendBuckets \in BOOLEAN /\ MaxPolls \in Nat
    /\ \A e \in Expositions :
          /\ Len(e) \in Nat /\ DOMAIN e = 1..Len(e)
          /\ \A i \in DOMAIN e :
                \/ e[i].what = "type" /\ e[i].name \in Families
                \/ e[i].what = "sample" /\ e[i].name \in Families /\ e[i].suffix \in SampleSuffixes
                \/ e[i].what = "other"
          /\ \A i, j \in DOMAIN e : \A m \in Families, suffix \in SampleSuffixes :
                /\ IsSample(e, i, m, suffix) /\ IsSample(e, j, m, suffix)
                /\ e[i].labels = e[j].labels /\ e[i].bound = e[j].bound /\ e[i].bound # "none"
                => i = j

VARIABLES
    exposed,    \* what the endpoint exposes
    promPc,     \* "poll", "lines", "families", "done" or "raised"
    accept,     \* the accept header in the default headers, which all polls share
    format,     \* content type of the answer: "text" or "protobuf"
    parsed,     \* how many lines are parsed
    messages,   \* samples by family and suffix: the places of their lines
    objMap,     \* types by family
    pending,    \* families that are not processed yet
    gauges,     \* gauges that were submitted, each with the place of its sample
    polls

promVars == <<exposed, promPc, accept, format, parsed, messages, objMap, pending, gauges, polls>>

NoMessages == [k \in Families \X SampleSuffixes |-> {}]
NoTypes == [m \in Families |-> "none"]

PromInit ==
    /\ exposed \in Expositions
    /\ promPc = "poll" /\ accept = "unset" /\ format = "text" /\ parsed = 0
    /\ messages = NoMessages /\ objMap = NoTypes /\ pending = {}
    /\ gauges = {} /\ polls = 0

\* poll(): the header of an earlier poll for protobuf is sent with one for text too,
\* and an endpoint may know only one of the two.
Poll ==
    /\ promPc = "poll" /\ polls < MaxPolls
    /\ polls' = polls + 1
    /\ \E wanted \in {"text", "protobuf"} :
          accept' = IF wanted = "protobuf" THEN "protobuf" ELSE accept
    /\ \/ format' = "text" /\ promPc' = "lines"
       \/ format' = "protobuf" /\ accept' = "protobuf" /\ promPc' = "lines"
       \/ format' = format /\ promPc' = "raised"
    /\ parsed' = 0
    /\ messages' = NoMessages /\ objMap' = NoTypes /\ gauges' = {}
    /\ UNCHANGED <<exposed, pending>>

(***************************************************************************)
(* parse_metric_family()                                                   *)
(***************************************************************************)
\* _extract_metrics_from_string()
ParseLine ==
    /\ promPc = "lines" /\ parsed < Len(exposed)
    /\ parsed' = parsed + 1
    /\ LET line == exposed[parsed']
       IN  /\ objMap' = IF line.what = "type" THEN [objMap EXCEPT ![line.name] = line.type] ELSE objMap
           /\ messages' = IF line.what = "sample"
                          THEN [messages EXCEPT ![<<line.name, line.suffix>>] = @ \cup {parsed'}]
                          ELSE messages
    /\ UNCHANGED <<exposed, promPc, accept, format, pending, gauges, polls>>

ValidOverride(m) == TypeOverrides[m] \in MetricTypes
TypeOf(m) == IF ValidOverride(m) THEN TypeOverrides[m] ELSE objMap[m]
HasSamples(m) ==
    \/ messages[<<m, "">>] # {}
    \/ TypeOf(m) = "histogram" /\ messages[<<m, "bucket">>] # {}

\* A family has a type and a sample of its own name, or buckets.
LinesDone ==
    /\ promPc = "lines" /\ parsed = Len(exposed)
    /\ promPc' = "families"
    /\ pending' = {m \in Families : TypeOf(m) # "none" /\ HasSamples(m)}
    /\ UNCHANGED <<exposed, accept, format, parsed, messages, objMap, gauges, polls>>

(***************************************************************************)
(* _extract_metric_from_map()                                              *)
(***************************************************************************)
Grouped(m) == TypeOf(m) \in {"summary", "histogram"}
SamplesOf(m) == messages[<<m, IF TypeOf(m) = "histogram" THEN "bucket" ELSE "">>]

ByLabels(i) == exposed[i].labels
\* Mutant: the bound is a label like the others.
ByLabelsAndBound(i) == <<exposed[i].labels, exposed[i].bound>>
GroupOf(i) == ByLabels(i)

\* The samples that start a group, and those of the group of one: the buckets and
\* quantiles of the same other labels are one metric.
Starts(m) ==
    {i \in SamplesOf(m) : ~Grouped(m) \/ \A j \in SamplesOf(m) : j < i => GroupOf(j) # GroupOf(i)}
Members(m, i) == {j \in SamplesOf(m) : IF Grouped(m) THEN GroupOf(j) = GroupOf(i) ELSE j = i}

\* From text every group has the first count and sum that the family has.  In
\* protobuf each one has its own.
TotalOf(m, suffix, labels) ==
    LET own == {i \in messages[<<m, suffix>>] : format = "text" \/ exposed[i].labels = labels}
    IN  IF own = {} THEN 0 ELSE exposed[Min(own)].value

\* An unknown type raises, and so does a histogram without buckets.
CannotExtract(m) == format = "text" /\ (TypeOf(m) \notin MetricTypes \/ SamplesOf(m) = {})

(***************************************************************************)
(* process_metric(), _submit_metric()                                      *)
(***************************************************************************)
Gauge(m, i, part, labels, bound, value) ==
    [name |-> m, sample |-> i, part |-> part, labels |-> labels, bound |-> bound, value |-> value]

GroupGauges(m, i) ==
    LET labels == exposed[i].labels
    IN  CASE TypeOf(m) \in {"counter", "gauge"} -> {Gauge(m, i, "", labels, "none", exposed[i].value)}
          \* The text of an untyped metric sets no value.
          [] TypeOf(m) = "untyped" ->
                {Gauge(m, i, "", labels, "none", IF format = "text" THEN 0 ELSE exposed[i].value)}
          [] OTHER -> {Gauge(m, i, total, labels, "none", TotalOf(m, total, labels)) : total \in {"count", "sum"}}
                      \cup {Gauge(m, j, IF TypeOf(m) = "summary" THEN "quantile" ELSE "count",
                                  labels, exposed[j].bound, exposed[j].value) :
                              j \in {j \in Members(m, i) : /\ exposed[j].bound # "none"
                                                           /\ TypeOf(m) = "summary" \/ SendBuckets}}

Submitted(m) == UNION {GroupGauges(m, i) : i \in Starts(m)}

\* An ignored metric, or one that nothing handles, is passed over; a method of the
\* check may raise, which ends the poll.
Process(m) ==
    /\ promPc = "families" /\ m \in pending
    /\ pending' = pending \ {m}
    /\ \/ CannotExtract(m) /\ promPc' = "raised" /\ UNCHANGED gauges
       \/ ~CannotExtract(m) /\ m \in MappedNames \ IgnoredNames
            /\ gauges' = (IF TypeOf(m) \in MetricTypes THEN gauges \cup Submitted(m) ELSE gauges)
            /\ UNCHANGED promPc
       \/ ~CannotExtract(m) /\ (m \in IgnoredNames \/ m \notin MappedNames) /\ UNCHANGED <<promPc, gauges>>
       \/ ~CannotExtract(m) /\ m \in HandledNames \ (MappedNames \union IgnoredNames)
            /\ promPc' = "raised" /\ UNCHANGED gauges
    /\ UNCHANGED <<exposed, accept, format, parsed, messages, objMap, polls>>

AllProcessed1 ==
    /\ promPc = "families" /\ pending = {}
    /\ promPc' = "done"
    /\ UNCHANGED <<exposed, accept, format, parsed, messages, objMap, pending, gauges, polls>>

\* The next run of the check finds something else.
NextRun ==
    /\ promPc \in {"done", "raised"} /\ polls < MaxPolls
    /\ promPc' = "poll"
    /\ exposed' \in Expositions
    /\ UNCHANGED <<accept, format, parsed, messages, objMap, pending, gauges, polls>>

PromNext ==
    \/ Poll \/ ParseLine \/ LinesDone \/ AllProcessed1 \/ NextRun
    \/ \E m \in Families : Process(m)

PromSpec == PromInit /\ [][PromNext]_promVars

----
ExposedSamples(m, suffix) ==
    {i \in DOMAIN exposed : IsSample(exposed, i, m, suffix)}
GaugesOf(m, part, labels, bound) ==
    {g \in gauges : g.name = m /\ g.part = part /\ g.labels = labels /\ g.bound = bound}

\* The count, or sum, of some labels, if it is the only one: that of protobuf, where each
\* group has its own, or of a text that has no other.
OnlyTotal(m, total, labels) ==
    {k \in ExposedSamples(m, total) :
        /\ exposed[k].labels = labels
        /\ \A l \in ExposedSamples(m, total) : l # k => format # "text" /\ exposed[l].labels # labels}

\* Whatever the order of the lines: a poll that ends well has submitted each bucket and
\* each quantile of a mapped family once, with its own labels, bound and value, and
\* one count and one sum for the labels they share, of the value that is exposed for
\* these labels.  Only if a text exposes more than one for a family, that of another
\* group may be in its place.
FamiliesWhole ==
    promPc = "done" =>
        \A m \in MappedNames \ IgnoredNames :
            LET suffix == IF TypeOf(m) = "histogram" THEN "bucket" ELSE ""
                part == IF TypeOf(m) = "histogram" THEN "count" ELSE "quantile"
            IN  Grouped(m) /\ HasSamples(m) =>
                    \A i \in ExposedSamples(m, suffix) :
                        LET s == exposed[i]
                        IN  /\ Cardinality(GaugesOf(m, "count", s.labels, "none")) = 1
                            /\ Cardinality(GaugesOf(m, "sum", s.labels, "none")) = 1
                            /\ \A total \in {"count", "sum"} : \A k \in OnlyTotal(m, total, s.labels) :
                                  \A g \in GaugesOf(m, total, s.labels, "none") : g.value = exposed[k].value
                            /\ s.bound # "none" /\ (part = "quantile" \/ SendBuckets) =>
                                 \E g \in GaugesOf(m, part, s.labels, s.bound) :
                                     /\ g.value = s.value
                                     /\ GaugesOf(m, part, s.labels, s.bound) = {g}
====
