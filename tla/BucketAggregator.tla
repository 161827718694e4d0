--------------------------- MODULE BucketAggregator ---------------------------
(***************************************************************************)
(* The metrics of StsStatsD: MetricsBucketAggregator of aggregator.py, used *)
(* without a lock by two threads of stsstatsd.py, the server that submits   *)
(* the packets it receives, and the reporter that submits a gauge of its   *)
(* own and flushes.  The interpreter may switch between the two wherever   *)
(* they read or write what they share.                                     *)
(*                                                                         *)
(* A dict of metrics by context is known by its number, for it may still be *)
(* used when it is in metric_by_bucket no more.  The server submits points  *)
(* of one counter; their values are told apart.  The statistics on packets *)
(* are left out.                                                           *)
(***************************************************************************)
EXTENDS Integers, Sequences, FiniteSets, FiniteSetsExt

CONSTANTS
    Interval,           \* interval, in ticks
    ExpirySeconds,      \* expiry_seconds, in ticks
    MaxTime,            \* bound: the time, if the threads interleave or not
    MaxPoints,          \* bound: the points that the server receives, likewise
    FlushInterval,      \* interval of the reporter, in ticks
    MaxDelay            \* bound: what a flush may be late, in ticks

ASSUME BucketAggregatorAssumption ==
    /\ Interval \in Nat \ {0} /\ ExpirySeconds \in Nat
    /\ {MaxTime, MaxPoints} \subseteq [BOOLEAN -> Nat]
    /\ FlushInterval \in Nat \ {0} /\ MaxDelay \in Nat

\* expiry_seconds is much longer than what passes between a sample and its flush.
ASSUME FlushedBeforeExpiry == Interval + FlushInterval + 2 * MaxDelay <= ExpirySeconds + 1

Threads == {"server", "reporter"}
Points == 1..Max({MaxPoints[i] : i \in BOOLEAN})
Times == 0..Max({MaxTime[i] : i \in BOOLEAN})
None == -1

\* In Python 2, None comes before every number.
Expired(last, limit) == last = None \/ last < limit

calculateBucketStart(timestamp) == timestamp - (timestamp % Interval)
Buckets == {calculateBucketStart(t) : t \in Times}

\* The context of what a thread submits: a Counter and a BucketGauge.
Counter == "counter"
Context(t) == IF t = "server" THEN Counter ELSE "packet_count"
Contexts == {Context(t) : t \in Threads}

NoDict == 0             \* the {} that a flush leaves in current_mbc

VARIABLES
    interleaved,        \* whether the threads interleave, or take turns to
                        \* submit and flush
    now,                \* time()
    dicts,              \* the dicts so far, with their metrics by context
    metricByBucket,     \* metric_by_bucket: the dict of a bucket, or NoDict
    currentBucket,      \* current_bucket, or None
    currentMbc,         \* current_mbc
    lastSampleTime,     \* last_sample_time_by_context of the counter, or None
    lastFlushCutoff,    \* last_flush_cutoff_time
    pc, stamp, mbc,     \* of each thread: its step, and the timestamp and
                        \* metric_by_context of what it submits
    sum,                \* of each thread: what it read of the value of its metric
    received,           \* the points received so far
    submitted,          \* history: when a point was submitted
    cutoff, expiry,     \* flush_cutoff_time and expiry_timestamp of the flush
    todo,               \* buckets it has still to look at
    items,              \* contexts it has still to flush in the first of these
    notSampled,         \* whether the counter is in not_sampled_in_this_bucket
    wake,               \* when finished.wait(interval) of the reporter is over
    reported,           \* history: bucket under which a point was reported
    twice,              \* history: a point was reported twice
    values,             \* history: values reported of the counter, by bucket
    neverHappened       \* history: the flush found a metric without samples

shared == <<dicts, metricByBucket, currentBucket, currentMbc>>
submitVars == <<stamp, mbc, sum, received, submitted>>
flushVars == <<cutoff, expiry, todo, items, notSampled, lastFlushCutoff>>
history == <<reported, twice, values, neverHappened>>
vars == <<interleaved, now, wake, shared, lastSampleTime, pc, submitVars, flushVars, history>>

Init ==
    /\ interleaved \in BOOLEAN
    /\ now = 0
    /\ dicts = <<>> /\ metricByBucket = [b \in Buckets |-> NoDict]
    /\ currentBucket = None /\ currentMbc = NoDict
    /\ lastSampleTime = None /\ lastFlushCutoff = 0
    /\ pc = [t \in Threads |-> "idle"]
    /\ stamp = [t \in Threads |-> 0] /\ mbc = [t \in Threads |-> NoDict]
    /\ sum = [t \in Threads |-> {}]
    /\ received = 0 /\ submitted = [p \in Points |-> 0]
    /\ cutoff = 0 /\ expiry = 0 /\ todo = {} /\ items = {} /\ notSampled = FALSE
    /\ wake = FlushInterval
    /\ reported = [p \in Points |-> None] /\ twice = FALSE
    /\ values = [b \in Buckets |-> 0] /\ neverHappened = FALSE

Goto(t, step) == pc' = [pc EXCEPT ![t] = step]

-----------------------------------------------------------------------------
(* submit_metric() *)

Bucket(t) == calculateBucketStart(stamp[t])

\* The thread reads the time.
Submit(t) ==
    /\ pc[t] = "idle"
    /\ interleaved \/ \A u \in Threads : pc[u] = "idle"
    /\ IF t = "server"
       THEN /\ received < MaxPoints[interleaved] /\ received' = received + 1
            /\ submitted' = [submitted EXCEPT ![received'] = now]
       ELSE now >= wake /\ UNCHANGED <<received, submitted>>
    /\ stamp' = [stamp EXCEPT ![t] = now]
    /\ Goto(t, "lookup")
    /\ UNCHANGED <<interleaved, now, wake, shared, lastSampleTime, mbc, sum, flushVars, history>>

Lookup(t) ==
    /\ pc[t] = "lookup"
    /\ Goto(t, IF currentBucket = Bucket(t) THEN "cached" ELSE "find")
    /\ UNCHANGED <<interleaved, now, wake, shared, lastSampleTime, submitVars, flushVars, history>>

UseCached(t) ==
    /\ pc[t] = "cached"
    /\ mbc' = [mbc EXCEPT ![t] = currentMbc]
    /\ Goto(t, "context")
    /\ UNCHANGED <<interleaved, now, wake, shared, lastSampleTime, stamp, sum, received, submitted, flushVars, history>>

Find(t) ==
    /\ pc[t] = "find"
    /\ Goto(t, IF metricByBucket[Bucket(t)] = NoDict THEN "create" ELSE "get")
    /\ UNCHANGED <<interleaved, now, wake, shared, lastSampleTime, submitVars, flushVars, history>>

CreateBucket(t) ==
    /\ pc[t] = "create"
    /\ dicts' = Append(dicts, [c \in {} |-> {}])
    /\ metricByBucket' = [metricByBucket EXCEPT ![Bucket(t)] = Len(dicts')]
    /\ Goto(t, "get")
    /\ UNCHANGED <<interleaved, now, wake, currentBucket, currentMbc, lastSampleTime, submitVars, flushVars, history>>

\* A KeyError ends the submission if the bucket is flushed meanwhile.
GetBucket(t) ==
    /\ pc[t] = "get"
    /\ mbc' = [mbc EXCEPT ![t] = metricByBucket[Bucket(t)]]
    /\ Goto(t, IF metricByBucket[Bucket(t)] = NoDict THEN "idle" ELSE "setbucket")
    /\ UNCHANGED <<interleaved, now, wake, shared, lastSampleTime, stamp, sum, received, submitted, flushVars, history>>

SetCurrentBucket(t) ==
    /\ pc[t] = "setbucket"
    /\ currentBucket' = Bucket(t)
    /\ Goto(t, "setmbc")
    /\ UNCHANGED <<interleaved, now, wake, dicts, metricByBucket, currentMbc, lastSampleTime, submitVars, flushVars, history>>

SetCurrentMbc(t) ==
    /\ pc[t] = "setmbc"
    /\ currentMbc' = mbc[t]
    /\ Goto(t, "context")
    /\ UNCHANGED <<interleaved, now, wake, dicts, metricByBucket, currentBucket, lastSampleTime, submitVars, flushVars, history>>

Sampled(t) == Goto(t, IF t = "server" THEN "idle" ELSE "flush")

\* Nobody reads what is added to the {} of a flush.
Forgotten(t) ==
    /\ pc[t] = "context" /\ mbc[t] = NoDict
    /\ Sampled(t)
    /\ UNCHANGED <<interleaved, now, wake, shared, lastSampleTime, submitVars, flushVars, history>>

NewMetric == [points |-> {}, last |-> None]

CreateContext(t) ==
    /\ pc[t] = "context" /\ mbc[t] # NoDict
    /\ dicts' = [dicts EXCEPT ![mbc[t]] =
           [c \in DOMAIN @ \cup {Context(t)} |-> IF c \in DOMAIN @ THEN @[c] ELSE NewMetric]]
    /\ Goto(t, "sample")
    /\ UNCHANGED <<interleaved, now, wake, metricByBucket, currentBucket, currentMbc, lastSampleTime,
                   submitVars, flushVars, history>>

\* self.value += value reads the value and then writes it; a point is received
\* by the counter alone.
ReadValue(t) ==
    /\ pc[t] = "sample"
    /\ sum' = [sum EXCEPT ![t] = dicts[mbc[t]][Context(t)].points]
    /\ Goto(t, "add")
    /\ UNCHANGED <<interleaved, now, wake, shared, lastSampleTime, stamp, mbc, received, submitted,
                   flushVars, history>>

WriteValue(t) ==
    /\ pc[t] = "add"
    /\ dicts' = [dicts EXCEPT ![mbc[t]][Context(t)].points =
           IF t = "server" THEN sum[t] \cup {received} ELSE {}]
    /\ sum' = [sum EXCEPT ![t] = {}]
    /\ Goto(t, "last")
    /\ UNCHANGED <<interleaved, now, wake, metricByBucket, currentBucket, currentMbc, lastSampleTime,
                   stamp, mbc, received, submitted, flushVars, history>>

SetLastSampleTime(t) ==
    /\ pc[t] = "last"
    /\ dicts' = [dicts EXCEPT ![mbc[t]][Context(t)].last = now]
    /\ Sampled(t)
    /\ UNCHANGED <<interleaved, now, wake, metricByBucket, currentBucket, currentMbc, lastSampleTime,
                   submitVars, flushVars, history>>

-----------------------------------------------------------------------------
(* flush(), which the reporter calls once it has submitted its gauge *)

Value(b) == values' = [values EXCEPT ![b] = @ + 1]

\* create_empty_metrics() for the counter, at the timestamp b.
EmptyMetric(counter, b) ==
    IF ~counter THEN UNCHANGED <<lastSampleTime, values>>
    ELSE IF Expired(lastSampleTime, expiry') THEN lastSampleTime' = None /\ UNCHANGED values
    ELSE b \in Buckets /\ Value(b) /\ UNCHANGED lastSampleTime

\* A whole interval has passed since the last flush.
Passed == cutoff' >= lastFlushCutoff + Interval

FlushBegin ==
    /\ pc["reporter"] = "flush"
    /\ cutoff' = calculateBucketStart(now) /\ expiry' = now - ExpirySeconds
    /\ todo' = {b \in Buckets : metricByBucket[b] # NoDict}
    /\ EmptyMetric(todo' = {} /\ Passed /\ lastSampleTime # None, cutoff' - Interval)
    /\ Goto("reporter", "buckets")
    /\ UNCHANGED <<interleaved, now, wake, shared, submitVars, items, notSampled, lastFlushCutoff,
                   reported, twice, neverHappened>>

\* The buckets are looked at in the order of time.
Earliest == Min(todo)
Due(b) == b < cutoff

SkipBucket ==
    /\ pc["reporter"] = "buckets" /\ todo # {} /\ ~Due(Earliest)
    /\ todo' = todo \ {Earliest}
    /\ UNCHANGED <<interleaved, now, wake, shared, lastSampleTime, pc, submitVars, cutoff, expiry, items,
                   notSampled, lastFlushCutoff, history>>

FlushBucket ==
    /\ pc["reporter"] = "buckets" /\ todo # {} /\ Due(Earliest)
    /\ mbc' = [mbc EXCEPT !["reporter"] = metricByBucket[Earliest]]
    /\ items' = DOMAIN dicts[mbc'["reporter"]]
    /\ notSampled' = (lastSampleTime # None)
    /\ Goto("reporter", "items")
    /\ UNCHANGED <<interleaved, now, wake, shared, lastSampleTime, stamp, sum, received, submitted, cutoff, expiry, todo,
                   lastFlushCutoff, history>>

Flushed(c) == dicts[mbc["reporter"]][c]

\* A metric that expired, or has no sample yet.
ExpireMetric(c) ==
    /\ pc["reporter"] = "items" /\ c \in items
    /\ Expired(Flushed(c).last, expiry)
    /\ items' = items \ {c}
    /\ IF c = Counter THEN notSampled' = FALSE /\ lastSampleTime' = None
                      ELSE UNCHANGED <<notSampled, lastSampleTime>>
    /\ neverHappened' = TRUE
    /\ UNCHANGED <<interleaved, now, wake, shared, pc, submitVars, cutoff, expiry, todo, lastFlushCutoff,
                   reported, twice, values>>

\* The value is read and reported, and then set to 0.
FlushMetric(c) ==
    /\ pc["reporter"] = "items" /\ c \in items
    /\ ~Expired(Flushed(c).last, expiry)
    /\ IF c = Counter
       THEN /\ reported' = [p \in Points |->
                   IF p \in Flushed(c).points THEN Earliest ELSE reported[p]]
            /\ twice' = (twice \/ \E p \in Flushed(c).points : reported[p] # None)
            /\ Value(Earliest)
            /\ Goto("reporter", "clear")
            /\ UNCHANGED items
       ELSE items' = items \ {c} /\ UNCHANGED <<pc, reported, twice, values>>
    /\ UNCHANGED <<interleaved, now, wake, shared, lastSampleTime, submitVars, cutoff, expiry, todo,
                   notSampled, lastFlushCutoff, neverHappened>>

ClearMetric ==
    /\ pc["reporter"] = "clear"
    /\ dicts' = [dicts EXCEPT ![mbc["reporter"]][Counter].points = {}]
    /\ notSampled' = FALSE
    /\ lastSampleTime' = Flushed(Counter).last
    /\ items' = items \ {Counter}
    /\ Goto("reporter", "items")
    /\ UNCHANGED <<interleaved, now, wake, metricByBucket, currentBucket, currentMbc, submitVars, cutoff,
                   expiry, todo, lastFlushCutoff, history>>

\* Mutant: the bucket is not deleted.
BucketKept(b) == UNCHANGED metricByBucket
BucketDeleted(b) == metricByBucket' = [metricByBucket EXCEPT ![b] = NoDict]

FlushBucketEnd ==
    /\ pc["reporter"] = "items" /\ items = {}
    /\ UNCHANGED expiry
    /\ EmptyMetric(notSampled /\ lastSampleTime # None, Earliest)
    /\ BucketDeleted(Earliest)
    /\ todo' = todo \ {Earliest}
    /\ Goto("reporter", "buckets")
    /\ UNCHANGED <<interleaved, now, wake, dicts, currentBucket, currentMbc, submitVars, cutoff, items, notSampled,
                   lastFlushCutoff, reported, twice, neverHappened>>

\* Mutant: the bucket that was deleted stays the current one.
CurrentKept == UNCHANGED currentBucket
NoCurrent == currentBucket' = None

ResetCurrentBucket ==
    /\ pc["reporter"] = "buckets" /\ todo = {}
    /\ NoCurrent
    /\ Goto("reporter", "reset")
    /\ UNCHANGED <<interleaved, now, wake, dicts, metricByBucket, currentMbc, lastSampleTime, submitVars,
                   flushVars, history>>

ResetCurrentMbc ==
    /\ pc["reporter"] = "reset"
    /\ currentMbc' = NoDict
    /\ lastFlushCutoff' = cutoff
    /\ wake' = now + FlushInterval
    /\ Goto("reporter", "idle")
    /\ UNCHANGED <<interleaved, now, dicts, metricByBucket, currentBucket, lastSampleTime, submitVars,
                   cutoff, expiry, todo, items, notSampled, history>>

Tick ==
    /\ now < MaxTime[interleaved] /\ now < wake + MaxDelay
    /\ now' = now + 1
    /\ UNCHANGED <<interleaved, wake, shared, lastSampleTime, pc, submitVars, flushVars, history>>

-----------------------------------------------------------------------------
SubmitStep(t) ==
    \/ Submit(t) \/ Lookup(t) \/ UseCached(t) \/ Find(t) \/ CreateBucket(t) \/ GetBucket(t)
    \/ SetCurrentBucket(t) \/ SetCurrentMbc(t)
    \/ Forgotten(t) \/ CreateContext(t)
    \/ ReadValue(t) \/ WriteValue(t) \/ SetLastSampleTime(t)

Flush ==
    \/ FlushBegin \/ SkipBucket \/ FlushBucket \/ FlushBucketEnd
    \/ ClearMetric
    \/ (\E c \in Contexts : ExpireMetric(c) \/ FlushMetric(c))
    \/ ResetCurrentBucket \/ ResetCurrentMbc

Next ==
    \/ \E t \in Threads : SubmitStep(t)
    \/ Flush
    \/ Tick

Spec == Init /\ [][Next]_vars

-----------------------------------------------------------------------------
(* Properties *)

Dicts == 0..Len(dicts)

\* Every variable has its type.
TypeOK ==
    /\ interleaved \in BOOLEAN /\ now \in Times
    /\ \A i \in DOMAIN dicts :
          /\ DOMAIN dicts[i] \subseteq Contexts
          /\ \A c \in DOMAIN dicts[i] :
                dicts[i][c].points \subseteq Points /\ dicts[i][c].last \in Times \cup {None}
    /\ metricByBucket \in [Buckets -> Dicts]
    /\ currentBucket \in Buckets \cup {None} /\ currentMbc \in Dicts
    /\ lastSampleTime \in Times \cup {None} /\ lastFlushCutoff \in Buckets
    /\ pc \in [Threads -> {"idle", "lookup", "cached", "find", "create", "get", "setbucket",
                           "setmbc", "context", "sample", "add", "last", "flush", "buckets", "items", "clear", "reset"}]
    /\ stamp \in [Threads -> Times] /\ mbc \in [Threads -> Dicts] /\ received \in {0} \cup Points
    /\ sum \in [Threads -> SUBSET Points] /\ submitted \in [Points -> Times]
    /\ todo \subseteq Buckets /\ cutoff \in Buckets /\ expiry \in -ExpirySeconds..Max(Times)
    /\ items \subseteq Contexts /\ notSampled \in BOOLEAN /\ wake \in 0..Max(Times) + FlushInterval
    /\ reported \in [Points -> Buckets \cup {None}]
    /\ twice \in BOOLEAN /\ neverHappened \in BOOLEAN /\ values \in [Buckets -> Nat]

\* Whatever the interleaving of submissions and flushes, no point is counted in
\* two values; as long as they take turns, there are not two values of a
\* counter, or a value and a zero, for the same timestamp.
ReportedOnce ==
    /\ TypeOK
    /\ ~twice
    /\ ~interleaved => \A b \in Buckets : values[b] <= 1

Held(p) ==
    \E b \in Buckets :
        /\ metricByBucket[b] # NoDict
        /\ Counter \in DOMAIN dicts[metricByBucket[b]]
        /\ p \in dicts[metricByBucket[b]][Counter].points

\* A point that was submitted is reported or waits in a bucket for a flush.
PointsKept ==
    \A p \in 1..received :
        reported[p] # None \/ Held(p) \/ (p = received /\ pc["server"] # "idle")

\* A point is counted at the start of the interval it was submitted in.
RightBucket ==
    \A p \in Points :
        reported[p] # None => reported[p] = calculateBucketStart(submitted[p])

\* As long as submissions and flushes take turns, the caches of the current
\* bucket neither lose a point nor count it in another interval.
TurnsKeepPoints == ~interleaved => PointsKept /\ RightBucket

\* A point is reported once, where it belongs, as far as the interleaving allows.
PointsReported == ReportedOnce /\ TurnsKeepPoints

-----------------------------------------------------------------------------
(* What the comments of the code say *)

\* stsstatsd.py:599: the aggregator is "the point of communication between the
\* server and reporting threads": no point is lost between them.
NoPointLost == PointsKept

\* aggregator.py:860, "This should never happen": a flush finds no metric that
\* has expired.
NeverExpired == ~neverHappened

\* aggregator.py:831, "Even if no data is submitted, Counters keep reporting "0"
\* for expiry_seconds": once a flush is over, the counter has a value for every
\* bucket up to its cutoff that began since its last sample.
CountersKeepReporting ==
    pc["reporter"] = "idle" /\ lastSampleTime # None =>
        \A b \in Buckets :
            lastSampleTime <= b /\ b < lastFlushCutoff => values[b] >= 1
===============================================================================
