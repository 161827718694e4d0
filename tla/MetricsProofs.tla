----------------------------- MODULE MetricsProofs -----------------------------
(***************************************************************************)
(* Theorems about BucketAggregator, for any intervals and bounds that let a *)
(* flush come before the metrics expire, and any interleaving of the two   *)
(* threads; about Intake, for any requests, messages and endpoints; and    *)
(* about PayloadSplit, for any metrics and however they compress; and that  *)
(* MetricsAggregator implements Rollup, whatever is submitted and however   *)
(* often it is flushed.                                                     *)
(*                                                                         *)
(* BucketAggregator: DictsInv and PointsInv hold however the threads        *)
(* interleave: a dict is that of one bucket at most, a point is in one     *)
(* dict at most, and once it was reported no flush comes back to its dict. *)
(* TurnsInv holds while the threads take turns: the caches of the current  *)
(* bucket agree with metric_by_bucket, a bucket that a flush passed is not *)
(* filled again, and a flush comes before what it reports expires.         *)
(*                                                                         *)
(* Intake: WatchInv counts the periods between two resets of the watchdog: *)
(* no two are in one period of the timer, so that those of the timeframe   *)
(* are never more than the limit, and only the alarm ends the process.     *)
(* AccountInv names the one transaction of each packet for each endpoint,  *)
(* and the one place of each point.                                        *)
(*                                                                         *)
(* PayloadSplit: SplitInv names the one place of each metric, as the slices *)
(* of a slice tile it.                                                     *)
(*                                                                         *)
(* MetricsAggregator: RollInv says what each of the kinds of metric          *)
(* keeps of the samples that were submitted since the flush before.         *)
(***************************************************************************)
EXTENDS BucketAggregator, MetricsAggregator, PayloadSplit, Intake, FiniteSetTheorems, SequenceTheorems, WellFoundedInduction, TLAPS

-----------------------------------------------------------------------------
(* The invariant *)

\* The last time and the last point that there can be.
LastTime == Max({MaxTime[i] : i \in BOOLEAN})
LastPoint == Max({MaxPoints[i] : i \in BOOLEAN})

Metric == [points : SUBSET Points, last : Times \cup {None}]
MetricDicts == UNION {[S -> Metric] : S \in SUBSET Contexts}

\* The server is about to add the last point it received.
Adding == pc["server"] \in {"lookup", "cached", "find", "create", "get", "setbucket", "setmbc",
                            "context", "sample", "add"}

Steps == {"idle", "lookup", "cached", "find", "create", "get", "setbucket", "setmbc", "context",
          "sample", "add", "last", "flush", "buckets", "items", "clear", "reset"}
FlushSteps == {"flush", "buckets", "items", "clear", "reset"}

\* Every variable has its type, the dicts included, and a flush is the reporter's.
StepsTyped == pc \in [Threads -> Steps] /\ pc["server"] \notin FlushSteps
DictsTyped ==
    /\ dicts \in Seq(MetricDicts) /\ metricByBucket \in [Buckets -> Dicts]
    /\ currentBucket \in Buckets \cup {None} /\ currentMbc \in Dicts /\ mbc \in [Threads -> Dicts]
TimesTyped ==
    /\ interleaved \in BOOLEAN /\ now \in Nat /\ now <= MaxTime[interleaved]
    /\ stamp \in [Threads -> Times] /\ wake \in Nat /\ wake <= LastTime + FlushInterval
PointsTyped ==
    /\ received \in Nat /\ received <= MaxPoints[interleaved]
    /\ submitted \in [Points -> Times]
    /\ Adding => received # 0
FlushTyped ==
    /\ lastSampleTime \in Times \cup {None} /\ lastFlushCutoff \in Buckets
    /\ cutoff \in Buckets /\ expiry \in Int /\ -ExpirySeconds <= expiry /\ expiry <= LastTime
    /\ todo \subseteq Buckets /\ items \subseteq Contexts /\ notSampled \in BOOLEAN
ValuesTyped ==
    /\ sum \in [Threads -> SUBSET Points] /\ reported \in [Points -> Buckets \cup {None}]
    /\ twice \in BOOLEAN /\ neverHappened \in BOOLEAN /\ values \in [Buckets -> Nat]
TypeInv ==
    StepsTyped /\ DictsTyped /\ TimesTyped /\ PointsTyped /\ FlushTyped /\ ValuesTyped

InFlush == pc["reporter"] \in {"buckets", "items", "clear"}
InBucket == pc["reporter"] \in {"items", "clear"}
Sampling(t) == pc[t] \in {"sample", "add", "last"}

\* A dict is that of one bucket, the metric that is sampled is there, and so are the
\* buckets a flush has still to look at; if another thread replaces the dict of the
\* bucket that is flushed, the one that is flushed is of no other bucket.
DictsInv ==
    /\ \A b, c \in Buckets :
          metricByBucket[b] = metricByBucket[c] /\ metricByBucket[b] # NoDict => b = c
    /\ \A t \in Threads :
          Sampling(t) => mbc[t] # NoDict /\ Context(t) \in DOMAIN dicts[mbc[t]]
    /\ InFlush => \A b \in todo : metricByBucket[b] # NoDict
    /\ InBucket =>
          /\ todo # {} /\ mbc["reporter"] # NoDict
          /\ items \subseteq DOMAIN dicts[mbc["reporter"]]
          /\ \A b \in Buckets : metricByBucket[b] = mbc["reporter"] => b = Earliest
    /\ pc["reporter"] = "clear" => Counter \in items

\* A dict holds a point, or the server is about to add it to it again.
Holds(d, p) == /\ d \in 1..Len(dicts) /\ Counter \in DOMAIN dicts[d]
               /\ p \in dicts[d][Counter].points
Carries(d, p) == Holds(d, p) \/ (d = mbc["server"] /\ p \in sum["server"])

\* A dict whose counter this flush, or a later one, will report.
Flushable(d) ==
    IF InBucket /\ mbc["reporter"] = d THEN pc["reporter"] = "items" /\ Counter \in items
    ELSE \E b \in Buckets : metricByBucket[b] = d

\* A point is in one dict, and once it was reported that dict is not flushed again.
PointsInv ==
    /\ ~twice
    /\ \A p \in Points : reported[p] # None => p <= received
    /\ \A d \in Dicts, p \in Points : Carries(d, p) =>
          p <= received /\ d # NoDict /\ (reported[p] # None => ~Flushable(d))
    /\ \A d, e \in Dicts, p \in Points : Carries(d, p) /\ Carries(e, p) => d = e
    /\ Adding => /\ reported[received] = None
                 /\ \A d \in Dicts : ~Carries(d, received)
    /\ sum["server"] # {} => pc["server"] = "add"

\* The submissions that have still to look for their dict, and those that have it.
Looking(t) == pc[t] \in {"lookup", "cached", "find", "create", "get"}
HasDict(t) == pc[t] \in {"setbucket", "setmbc", "context", "sample", "add", "last"}
Submitting(t) == Looking(t) \/ HasDict(t)
Flushing == pc["reporter"] \in {"buckets", "items", "clear", "reset"}
DictOf(b) == metricByBucket[b]

\* Only one of the threads is at work, and where it is in time: a bucket is never
\* filled once a flush has passed it.
TurnsTaken ==
    /\ pc["server"] = "idle" \/ pc["reporter"] = "idle"
    /\ lastFlushCutoff <= calculateBucketStart(now)
    /\ \A t \in Threads : Submitting(t) => stamp[t] <= now /\ lastFlushCutoff <= Bucket(t)
    /\ \A b \in Buckets : DictOf(b) # NoDict => lastFlushCutoff <= b
    /\ Flushing =>
          /\ lastFlushCutoff <= cutoff /\ cutoff <= calculateBucketStart(now)
          /\ \A b \in Buckets : DictOf(b) # NoDict /\ Due(b) => b \in todo
    /\ InBucket => Due(Earliest) /\ mbc["reporter"] = DictOf(Earliest)
    /\ pc["reporter"] = "reset" => todo = {}

\* A flush is over before what was sampled in its last interval can expire.
TimeKept ==
    /\ now <= wake + MaxDelay
    /\ wake < lastFlushCutoff + Interval + MaxDelay + FlushInterval
    /\ pc["reporter"] \notin {"idle"} => wake <= now
    /\ Flushing => LET began == expiry + ExpirySeconds
                   IN  began <= now /\ wake <= began /\ cutoff = calculateBucketStart(began)

\* The cache of the current bucket is that bucket, but while it is set or flushed.
CacheKept ==
    /\ \A t \in Threads :
          /\ pc[t] = "cached" => currentBucket = Bucket(t)
          /\ pc[t] = "create" => DictOf(Bucket(t)) = NoDict
          /\ pc[t] = "get" => DictOf(Bucket(t)) # NoDict
          /\ HasDict(t) => mbc[t] = DictOf(Bucket(t)) /\ mbc[t] # NoDict
          /\ pc[t] = "setmbc" => currentBucket = Bucket(t)
    /\ pc["reporter"] = "reset" => currentBucket = None
    /\ (\A t \in Threads : pc[t] # "setmbc") /\ ~InFlush /\ currentBucket # None =>
          currentMbc = DictOf(currentBucket) /\ currentMbc # NoDict

\* A bucket has one value once a flush has passed it, and none before.
Past(b) ==
    \/ b < lastFlushCutoff
    \/ /\ Flushing /\ Due(b)
       /\ b \in todo => /\ b = Earliest /\ InBucket
                        /\ pc["reporter"] = "items" => Counter \notin items /\ ~notSampled
ValuesOnce == \A b \in Buckets : values[b] <= 1 /\ (values[b] = 0 \/ Past(b))

\* The points of a bucket were submitted in its interval, and are reported with it.
PointsPlaced ==
    /\ \A b \in Buckets, p \in Points : DictOf(b) # NoDict /\ Holds(DictOf(b), p) =>
          calculateBucketStart(submitted[p]) = b
    /\ Adding => submitted[received] = stamp["server"]
    /\ pc["server"] = "add" => sum["server"] = dicts[mbc["server"]][Counter].points
    /\ pc["server"] = "last" => Holds(mbc["server"], received)
    /\ InBucket /\ (pc["reporter"] = "items" => Counter \notin items) =>
          \A p \in Points : Holds(mbc["reporter"], p) => reported[p] # None
    /\ \A b \in Buckets : DictOf(b) # NoDict /\ Counter \in DOMAIN dicts[DictOf(b)] =>
          \/ b <= dicts[DictOf(b)][Counter].last
          \/ Sampling("server") /\ mbc["server"] = DictOf(b)

Turns ==
    /\ TurnsTaken /\ TimeKept /\ CacheKept /\ ValuesOnce /\ PointsPlaced
    /\ PointsKept /\ RightBucket

TurnsInv == ~interleaved => Turns

Inv == TypeInv /\ DictsInv /\ PointsInv /\ TurnsInv

-----------------------------------------------------------------------------
(* Times and buckets *)

LEMMA LargerOfTwo ==
    ASSUME NEW f \in [BOOLEAN -> Nat]
    PROVE  /\ Max({f[i] : i \in BOOLEAN}) \in Nat
           /\ \A i \in BOOLEAN : f[i] <= Max({f[j] : j \in BOOLEAN})
<1>1. \E x \in {f[i] : i \in BOOLEAN} : \A y \in {f[i] : i \in BOOLEAN} : x >= y
  <2>1. PICK a, b \in Nat : {f[i] : i \in BOOLEAN} = {a, b}
    <3>1. f[TRUE] \in Nat /\ f[FALSE] \in Nat
      OBVIOUS
    <3>2. {f[i] : i \in BOOLEAN} = {f[TRUE], f[FALSE]}
      OBVIOUS
    <3> QED
      BY <3>1, <3>2
  <2>2. CASE a >= b
    BY <2>1, <2>2
  <2>3. CASE b >= a
    BY <2>1, <2>3
  <2> QED
    BY <2>1, <2>2, <2>3
<1>2. Max({f[i] : i \in BOOLEAN}) \in {f[i] : i \in BOOLEAN}
      /\ \A y \in {f[i] : i \in BOOLEAN} : Max({f[i] : i \in BOOLEAN}) >= y
  BY <1>1 DEF Max
<1> QED
  BY <1>2

LEMMA LargestOfRange ==
    ASSUME NEW m \in Nat PROVE Max(0..m) = m
  BY DEF Max

LEMMA Bounds ==
    /\ LastTime \in Nat /\ LastPoint \in Nat
    /\ Times = 0..LastTime /\ Max(Times) = LastTime /\ Points = 1..LastPoint
    /\ \A i \in BOOLEAN : MaxTime[i] \in Nat /\ MaxTime[i] <= LastTime
    /\ \A i \in BOOLEAN : MaxPoints[i] \in Nat /\ MaxPoints[i] <= LastPoint
    /\ Interval \in Nat \ {0} /\ FlushInterval \in Nat \ {0}
    /\ ExpirySeconds \in Nat /\ MaxDelay \in Nat
<1>1. /\ MaxTime \in [BOOLEAN -> Nat] /\ MaxPoints \in [BOOLEAN -> Nat]
      /\ Interval \in Nat \ {0} /\ FlushInterval \in Nat \ {0}
      /\ ExpirySeconds \in Nat /\ MaxDelay \in Nat
  BY BucketAggregatorAssumption DEF BucketAggregatorAssumption
<1>2. /\ LastTime \in Nat /\ LastPoint \in Nat
      /\ \A i \in BOOLEAN : MaxTime[i] <= LastTime /\ MaxPoints[i] <= LastPoint
  BY <1>1, LargerOfTwo DEF LastTime, LastPoint
<1>3. Times = 0..LastTime /\ Points = 1..LastPoint
  BY DEF Times, Points, LastTime, LastPoint
<1> QED
  BY <1>1, <1>2, <1>3, LargestOfRange

\* A bucket starts at most an interval before the times that are in it, and a later
\* time is in no earlier bucket.
LEMMA BucketOf ==
    ASSUME NEW t \in Nat
    PROVE  /\ calculateBucketStart(t) \in Nat
           /\ calculateBucketStart(t) <= t /\ t < calculateBucketStart(t) + Interval
<1>1. Interval \in Nat \ {0}
  BY Bounds
<1>2. t % Interval \in 0..(Interval - 1) /\ t % Interval <= t
  BY <1>1
<1> QED
  BY <1>1, <1>2 DEF calculateBucketStart

LEMMA LaterBucket ==
    ASSUME NEW s \in Nat, NEW t \in Nat, s <= t
    PROVE  calculateBucketStart(s) <= calculateBucketStart(t)
<1> DEFINE q == s \div Interval
           r == t \div Interval
<1>1. Interval \in Nat \ {0} /\ q \in Nat /\ r \in Nat
  BY Bounds
<1>2. /\ s = (Interval * q) + (s % Interval) /\ s % Interval \in 0..(Interval - 1)
      /\ t = (Interval * r) + (t % Interval) /\ t % Interval \in 0..(Interval - 1)
  BY <1>1
<1>3. calculateBucketStart(s) = Interval * q /\ calculateBucketStart(t) = Interval * r
  BY <1>1, <1>2 DEF calculateBucketStart
<1> HIDE DEF q, r
<1>4. q <= r
  <2> SUFFICES ASSUME r + 1 <= q PROVE FALSE
    BY <1>1
  <2>1. Interval * (r + 1) <= Interval * q
    BY <1>1
  <2>2. Interval * (r + 1) = Interval * r + Interval
    BY <1>1
  <2>3. Interval * q \in Nat /\ Interval * r \in Nat
    BY <1>1
  <2> QED
    BY <1>1, <1>2, <2>1, <2>2, <2>3
<1> QED
  BY <1>1, <1>3, <1>4

LEMMA BucketsAre ==
    /\ Buckets \subseteq Nat /\ Buckets \subseteq Times
    /\ \A t \in Times : calculateBucketStart(t) \in Buckets
<1>1. ASSUME NEW t \in Times
      PROVE  t \in Nat /\ calculateBucketStart(t) \in Nat /\ calculateBucketStart(t) <= t
  <2>1. t \in Nat
    BY Bounds
  <2> QED
    BY <2>1, BucketOf
<1> QED
  BY <1>1, Bounds DEF Buckets

\* A finite set of integers has a least one: there is no least set without.
LEMMA LeastOfFinite ==
    ASSUME NEW S \in SUBSET Int, IsFiniteSet(S), S # {}
    PROVE  \E m \in S : \A y \in S : m <= y
<1> DEFINE Bad == {T \in SUBSET S : T # {} /\ ~(\E x \in T : \A y \in T : x <= y)}
<1>1. SUFFICES ASSUME Bad # {} PROVE FALSE
  OBVIOUS
<1>2. PICK T \in Bad : \A u \in Bad : ~(<<u, T>> \in StrictSubsetOrdering(S))
  <2>1. IsWellFoundedOn(StrictSubsetOrdering(S), FiniteSubsetsOf(S))
    BY FS_StrictSubsetOrderingWellFounded
  <2>2. Bad \subseteq FiniteSubsetsOf(S)
    BY FS_FiniteSubsetsOfFinite
  <2> HIDE DEF Bad
  <2> QED
    BY <1>1, <2>1, <2>2, WFMin
<1>3. PICK x \in T : TRUE
  BY <1>2
<1>4. T \ {x} # {} /\ T \ {x} \in SUBSET S /\ T \ {x} # T
  BY <1>2, <1>3
<1>5. T \ {x} \notin Bad
  <2>1. <<T \ {x}, T>> \in StrictSubsetOrdering(S)
    BY <1>2, <1>4 DEF StrictSubsetOrdering
  <2> HIDE DEF Bad
  <2> QED
    BY <1>2, <2>1
<1>6. PICK m \in T \ {x} : \A y \in T \ {x} : m <= y
  BY <1>4, <1>5
<1>7. x \in Int /\ m \in Int /\ T \subseteq Int
  BY <1>2, <1>3, <1>6
<1>8. CASE m <= x
  BY <1>2, <1>3, <1>6, <1>7, <1>8
<1>9. CASE x <= m
  <2>1. \A y \in T : x <= y
    BY <1>6, <1>7, <1>9
  <2> QED
    BY <1>2, <1>3, <2>1
<1> QED
  BY <1>7, <1>8, <1>9

LEMMA EarliestIsThere == todo \subseteq Buckets /\ todo # {} => Earliest \in todo
<1> SUFFICES ASSUME todo \subseteq Buckets, todo # {} PROVE Earliest \in todo
  OBVIOUS
<1>1. IsFiniteSet(todo)
  <2>1. IsFiniteSet(0..LastTime)
    <3>1. 0 \in Int /\ LastTime \in Int
      BY Bounds
    <3> QED
      BY <3>1, FS_Interval, Zenon
  <2> QED
    BY <2>1, FS_Subset, Bounds, BucketsAre
<1>2. todo \in SUBSET Int
  BY BucketsAre
<1>3. PICK T : T = todo
  OBVIOUS
<1>4. \E x \in T : \A y \in T : x =< y
  BY <1>1, <1>2, <1>3, LeastOfFinite
<1> QED
  BY <1>3, <1>4 DEF Earliest, Min

-----------------------------------------------------------------------------
(* The dicts and what each action does to them *)

LEMMA ContextsAre ==
    /\ Threads = {"server", "reporter"} /\ Context("server") = Counter
    /\ Context("reporter") # Counter /\ \A t \in Threads : Context(t) \in Contexts
  BY DEF Threads, Context, Contexts, Counter

LEMMA DictTyped ==
    ASSUME dicts \in Seq(MetricDicts), NEW d \in 1..Len(dicts)
    PROVE  /\ DOMAIN dicts[d] \subseteq Contexts /\ dicts[d] \in [DOMAIN dicts[d] -> Metric]
           /\ \A c \in DOMAIN dicts[d] :
                 /\ dicts[d][c] \in Metric /\ dicts[d][c].points \subseteq Points
                 /\ dicts[d][c].last \in Times \cup {None}
<1>1. dicts[d] \in MetricDicts
  OBVIOUS
<1>2. PICK S \in SUBSET Contexts : dicts[d] \in [S -> Metric]
  BY <1>1 DEF MetricDicts
<1>3. DOMAIN dicts[d] = S
  BY <1>2
<1> QED
  BY <1>2, <1>3 DEF Metric

\* One dict of the sequence changes.
LEMMA DictReplaced ==
    ASSUME dicts \in Seq(MetricDicts), NEW m \in 1..Len(dicts),
           NEW S \in SUBSET Contexts, NEW f \in [S -> Metric],
           dicts' = [dicts EXCEPT ![m] = f]
    PROVE  /\ dicts' \in Seq(MetricDicts) /\ Len(dicts') = Len(dicts) /\ dicts'[m] = f
           /\ \A d \in 1..Len(dicts) : d # m => dicts'[d] = dicts[d]
<1>1. f \in MetricDicts
  BY DEF MetricDicts
<1> QED
  BY <1>1

\* One metric of one dict changes.
LEMMA MetricReplaced ==
    ASSUME dicts \in Seq(MetricDicts), NEW m \in 1..Len(dicts),
           NEW c \in DOMAIN dicts[m], NEW v \in Metric,
           dicts' = [dicts EXCEPT ![m] = [dicts[m] EXCEPT ![c] = v]]
    PROVE  /\ dicts' \in Seq(MetricDicts) /\ Len(dicts') = Len(dicts)
           /\ DOMAIN dicts'[m] = DOMAIN dicts[m] /\ dicts'[m][c] = v
           /\ \A x \in DOMAIN dicts[m] : x # c => dicts'[m][x] = dicts[m][x]
           /\ \A d \in 1..Len(dicts) : d # m => dicts'[d] = dicts[d]
<1>1. DOMAIN dicts[m] \subseteq Contexts /\ dicts[m] \in [DOMAIN dicts[m] -> Metric]
  BY DictTyped
<1> DEFINE f == [dicts[m] EXCEPT ![c] = v]
<1>2. /\ f \in [DOMAIN dicts[m] -> Metric] /\ DOMAIN f = DOMAIN dicts[m] /\ f[c] = v
      /\ \A x \in DOMAIN dicts[m] : x # c => f[x] = dicts[m][x]
  BY <1>1
<1>3. dicts' = [dicts EXCEPT ![m] = f]
  OBVIOUS
<1> HIDE DEF f
<1>4. /\ dicts' \in Seq(MetricDicts) /\ Len(dicts') = Len(dicts) /\ dicts'[m] = f
      /\ \A d \in 1..Len(dicts) : d # m => dicts'[d] = dicts[d]
  BY <1>1, <1>2, <1>3, DictReplaced
<1> QED
  BY <1>2, <1>4

LEMMA CreateBucketDicts ==
    ASSUME dicts \in Seq(MetricDicts), NEW t \in Threads, CreateBucket(t)
    PROVE  /\ dicts' \in Seq(MetricDicts) /\ Len(dicts') = Len(dicts) + 1
           /\ DOMAIN dicts'[Len(dicts) + 1] = {}
           /\ \A d \in 1..Len(dicts) : dicts'[d] = dicts[d]
<1> DEFINE empty == [c \in {} |-> {}]
<1>1. empty \in MetricDicts
  <2>1. empty \in [{} -> Metric] /\ {} \in SUBSET Contexts
    OBVIOUS
  <2> QED
    BY <2>1 DEF MetricDicts
<1>2. dicts' = Append(dicts, empty) /\ DOMAIN empty = {}
  BY DEF CreateBucket
<1> HIDE DEF empty
<1> QED
  BY <1>1, <1>2

LEMMA CreateContextDicts ==
    ASSUME dicts \in Seq(MetricDicts), mbc \in [Threads -> Dicts], NEW t \in Threads,
           CreateContext(t)
    PROVE  LET m == mbc[t]
           IN  /\ m \in 1..Len(dicts)
               /\ dicts' \in Seq(MetricDicts) /\ Len(dicts') = Len(dicts)
               /\ DOMAIN dicts'[m] = DOMAIN dicts[m] \cup {Context(t)}
               /\ \A c \in DOMAIN dicts[m] : dicts'[m][c] = dicts[m][c]
               /\ Context(t) \notin DOMAIN dicts[m] => dicts'[m][Context(t)] = NewMetric
               /\ \A d \in 1..Len(dicts) : d # m => dicts'[d] = dicts[d]
<1> DEFINE m == mbc[t]
           S == DOMAIN dicts[m] \cup {Context(t)}
           f == [c \in S |-> IF c \in DOMAIN dicts[m] THEN dicts[m][c] ELSE NewMetric]
<1>1. m \in 1..Len(dicts)
  BY DEF CreateContext, Dicts, NoDict
<1>2. dicts' = [dicts EXCEPT ![m] = f]
  BY DEF CreateContext
<1>3. S \in SUBSET Contexts /\ f \in [S -> Metric]
  <2>1. NewMetric \in Metric
    BY DEF NewMetric, Metric
  <2> QED
    BY <1>1, <2>1, DictTyped, ContextsAre
<1>4. /\ dicts' \in Seq(MetricDicts) /\ Len(dicts') = Len(dicts) /\ dicts'[m] = f
      /\ \A d \in 1..Len(dicts) : d # m => dicts'[d] = dicts[d]
  <2> HIDE DEF f, S, m
  <2> QED
    BY <1>1, <1>2, <1>3, DictReplaced
<1> QED
  BY <1>1, <1>4

LEMMA WriteValueDicts ==
    ASSUME dicts \in Seq(MetricDicts), NEW t \in Threads, WriteValue(t),
           mbc[t] \in 1..Len(dicts), Context(t) \in DOMAIN dicts[mbc[t]],
           sum[t] \in SUBSET Points, t = "server" => received \in Points
    PROVE  LET m == mbc[t]
           IN  /\ dicts' \in Seq(MetricDicts) /\ Len(dicts') = Len(dicts)
               /\ DOMAIN dicts'[m] = DOMAIN dicts[m]
               /\ dicts'[m][Context(t)].points = IF t = "server" THEN sum[t] \cup {received} ELSE {}
               /\ dicts'[m][Context(t)].last = dicts[m][Context(t)].last
               /\ \A c \in DOMAIN dicts[m] : c # Context(t) => dicts'[m][c] = dicts[m][c]
               /\ \A d \in 1..Len(dicts) : d # m => dicts'[d] = dicts[d]
<1> DEFINE m == mbc[t]
           c == Context(t)
           X == IF t = "server" THEN sum[t] \cup {received} ELSE {}
           v == [dicts[m][c] EXCEPT !.points = X]
<1>1. dicts' = [dicts EXCEPT ![m] = [dicts[m] EXCEPT ![c] = v]]
  BY DEF WriteValue
<1>2. dicts[m][c] \in Metric
  BY DictTyped
<1>3. v \in Metric /\ v.points = X /\ v.last = dicts[m][c].last
  <2>1. X \in SUBSET Points
    OBVIOUS
  <2> HIDE DEF X, c, m
  <2> QED
    BY <1>2, <2>1 DEF Metric
<1> HIDE DEF v, X
<1>4. m \in 1..Len(dicts) /\ c \in DOMAIN dicts[m]
  OBVIOUS
<1>5. /\ dicts' \in Seq(MetricDicts) /\ Len(dicts') = Len(dicts)
      /\ DOMAIN dicts'[m] = DOMAIN dicts[m] /\ dicts'[m][c] = v
      /\ \A x \in DOMAIN dicts[m] : x # c => dicts'[m][x] = dicts[m][x]
      /\ \A d \in 1..Len(dicts) : d # m => dicts'[d] = dicts[d]
  <2> HIDE DEF m, c
  <2> QED
    BY <1>1, <1>3, <1>4, MetricReplaced
<1> QED
  BY <1>3, <1>5 DEF X

LEMMA LastSampleDicts ==
    ASSUME dicts \in Seq(MetricDicts), NEW t \in Threads, SetLastSampleTime(t),
           mbc[t] \in 1..Len(dicts), Context(t) \in DOMAIN dicts[mbc[t]], now \in Times
    PROVE  LET m == mbc[t]
           IN  /\ dicts' \in Seq(MetricDicts) /\ Len(dicts') = Len(dicts)
               /\ DOMAIN dicts'[m] = DOMAIN dicts[m]
               /\ dicts'[m][Context(t)].points = dicts[m][Context(t)].points
               /\ dicts'[m][Context(t)].last = now
               /\ \A c \in DOMAIN dicts[m] : c # Context(t) => dicts'[m][c] = dicts[m][c]
               /\ \A d \in 1..Len(dicts) : d # m => dicts'[d] = dicts[d]
<1> DEFINE m == mbc[t]
           c == Context(t)
           v == [dicts[m][c] EXCEPT !.last = now]
<1>1. dicts' = [dicts EXCEPT ![m] = [dicts[m] EXCEPT ![c] = v]]
  BY DEF SetLastSampleTime
<1>2. dicts[m][c] \in Metric
  BY DictTyped
<1>3. v \in Metric /\ v.last = now /\ v.points = dicts[m][c].points
  <2> HIDE DEF c, m
  <2> QED
    BY <1>2 DEF Metric
<1> HIDE DEF v
<1>4. m \in 1..Len(dicts) /\ c \in DOMAIN dicts[m]
  OBVIOUS
<1>5. /\ dicts' \in Seq(MetricDicts) /\ Len(dicts') = Len(dicts)
      /\ DOMAIN dicts'[m] = DOMAIN dicts[m] /\ dicts'[m][c] = v
      /\ \A x \in DOMAIN dicts[m] : x # c => dicts'[m][x] = dicts[m][x]
      /\ \A d \in 1..Len(dicts) : d # m => dicts'[d] = dicts[d]
  <2> HIDE DEF m, c
  <2> QED
    BY <1>1, <1>3, <1>4, MetricReplaced
<1> QED
  BY <1>3, <1>5

LEMMA ClearMetricDicts ==
    ASSUME dicts \in Seq(MetricDicts), ClearMetric, mbc["reporter"] \in 1..Len(dicts),
           Counter \in DOMAIN dicts[mbc["reporter"]]
    PROVE  LET m == mbc["reporter"]
           IN  /\ dicts' \in Seq(MetricDicts) /\ Len(dicts') = Len(dicts)
               /\ DOMAIN dicts'[m] = DOMAIN dicts[m]
               /\ dicts'[m][Counter].points = {}
               /\ dicts'[m][Counter].last = dicts[m][Counter].last
               /\ \A c \in DOMAIN dicts[m] : c # Counter => dicts'[m][c] = dicts[m][c]
               /\ \A d \in 1..Len(dicts) : d # m => dicts'[d] = dicts[d]
<1> DEFINE m == mbc["reporter"]
           v == [dicts[m][Counter] EXCEPT !.points = {}]
<1>1. dicts' = [dicts EXCEPT ![m] = [dicts[m] EXCEPT ![Counter] = v]]
  BY DEF ClearMetric
<1>2. dicts[m][Counter] \in Metric
  BY DictTyped
<1>3. v \in Metric /\ v.points = {} /\ v.last = dicts[m][Counter].last
  <2> HIDE DEF m
  <2> QED
    BY <1>2 DEF Metric
<1> HIDE DEF v
<1>4. m \in 1..Len(dicts) /\ Counter \in DOMAIN dicts[m]
  OBVIOUS
<1>5. /\ dicts' \in Seq(MetricDicts) /\ Len(dicts') = Len(dicts)
      /\ DOMAIN dicts'[m] = DOMAIN dicts[m] /\ dicts'[m][Counter] = v
      /\ \A x \in DOMAIN dicts[m] : x # Counter => dicts'[m][x] = dicts[m][x]
      /\ \A d \in 1..Len(dicts) : d # m => dicts'[d] = dicts[d]
  <2> HIDE DEF m
  <2> QED
    BY <1>1, <1>3, <1>4, MetricReplaced
<1> QED
  BY <1>3, <1>5

-----------------------------------------------------------------------------
(* Types *)

LEMMA StepsStep == StepsTyped /\ [Next]_vars => StepsTyped'
<1> SUFFICES ASSUME StepsTyped, [Next]_vars PROVE StepsTyped'
  OBVIOUS
<1>1. ASSUME NEW t \in Threads, NEW x \in Steps, Goto(t, x), t = "server" => x \notin FlushSteps
      PROVE  StepsTyped'
  BY <1>1 DEF StepsTyped, Goto
<1>2. ASSUME UNCHANGED pc PROVE StepsTyped'
  BY <1>2 DEF StepsTyped
<1>3. "reporter" \in Threads
  BY ContextsAre
<1> QED
  BY ZenonT(30), <1>1, <1>2, <1>3 DEF Steps, FlushSteps, Next, SubmitStep, Submit, Lookup, UseCached, Find, CreateBucket, GetBucket,
     SetCurrentBucket, SetCurrentMbc, Forgotten, CreateContext, ReadValue, WriteValue,
     SetLastSampleTime, Sampled, Flush, FlushBegin, SkipBucket, FlushBucket, FlushBucketEnd,
     ClearMetric, ExpireMetric, FlushMetric, ResetCurrentBucket, ResetCurrentMbc, Tick, shared, submitVars, flushVars, history, vars

LEMMA TimesStep == TimesTyped /\ [Next]_vars => TimesTyped'
<1> SUFFICES ASSUME TimesTyped, [Next]_vars PROVE TimesTyped'
  OBVIOUS
<1>1. ASSUME NEW t \in Threads, Submit(t) PROVE TimesTyped'
  BY <1>1, Bounds DEF TimesTyped, Submit
<1>2. CASE Tick
  BY <1>2, Bounds DEF TimesTyped, Tick, submitVars
<1>3. CASE ResetCurrentMbc
  BY <1>3, Bounds DEF TimesTyped, ResetCurrentMbc, submitVars
<1>4. CASE UNCHANGED <<interleaved, now, stamp, wake>>
  BY <1>4 DEF TimesTyped
<1> QED
  BY <1>1, <1>2, <1>3, <1>4 DEF Next, SubmitStep, Submit, Lookup, UseCached, Find, CreateBucket, GetBucket,
     SetCurrentBucket, SetCurrentMbc, Forgotten, CreateContext, ReadValue, WriteValue,
     SetLastSampleTime, Sampled, Flush, FlushBegin, SkipBucket, FlushBucket, FlushBucketEnd,
     ClearMetric, ExpireMetric, FlushMetric, ResetCurrentBucket, ResetCurrentMbc, Tick, shared, submitVars, flushVars, history, vars

LEMMA PointsStep == TimesTyped /\ StepsTyped /\ PointsTyped /\ [Next]_vars => PointsTyped'
<1> SUFFICES ASSUME TimesTyped, StepsTyped, PointsTyped, [Next]_vars PROVE PointsTyped'
  OBVIOUS
<1>1. ASSUME NEW t \in Threads, Submit(t) PROVE PointsTyped'
  <2>1. interleaved' = interleaved /\ now \in Times
    BY <1>1, Bounds DEF Submit, TimesTyped
  <2>2. CASE t = "server"
    <3>1. received' = received + 1 /\ received < MaxPoints[interleaved]
      BY <1>1, <2>2 DEF Submit
    <3> QED
      BY SMTT(30), <1>1, <2>1, <2>2, <3>1, Bounds DEF PointsTyped, TimesTyped, Submit
  <2>3. CASE t # "server"
    BY <1>1, <2>1, <2>3 DEF PointsTyped, Submit, Goto, Adding, StepsTyped
  <2> QED
    BY <2>2, <2>3
<1>2. ASSUME UNCHANGED <<interleaved, received, submitted>>, Adding' => Adding PROVE PointsTyped'
  BY <1>2 DEF PointsTyped
<1>3. ASSUME NEW t \in Threads, NEW x \in Steps, Goto(t, x), t = "server" => Adding \/ x \in {"idle", "last"}
      PROVE  Adding' => Adding
  BY <1>3, ContextsAre DEF Goto, Adding, StepsTyped
<1>4. ASSUME UNCHANGED pc PROVE Adding' => Adding
  BY <1>4 DEF Adding
<1>5. ASSUME NEW t \in Threads, SubmitStep(t), ~Submit(t)
      PROVE  UNCHANGED <<interleaved, received, submitted>> /\ (Adding' => Adding)
  <2>1. t = "server" => Adding \/ pc[t] = "last"
    BY <1>5 DEF Adding, SubmitStep, Lookup, UseCached, Find, CreateBucket, GetBucket,
     SetCurrentBucket, SetCurrentMbc, Forgotten, CreateContext, ReadValue, WriteValue,
     SetLastSampleTime
  <2>2. \E x \in Steps : Goto(t, x) /\ (pc[t] = "last" /\ t = "server" => x = "idle")
    BY <1>5 DEF Steps, SubmitStep, Lookup, UseCached, Find, CreateBucket, GetBucket,
     SetCurrentBucket, SetCurrentMbc, Forgotten, CreateContext, ReadValue, WriteValue,
     SetLastSampleTime, Sampled
  <2>3. UNCHANGED <<interleaved, received, submitted>>
    BY <1>5 DEF submitVars, SubmitStep, Lookup, UseCached, Find, CreateBucket, GetBucket,
     SetCurrentBucket, SetCurrentMbc, Forgotten, CreateContext, ReadValue, WriteValue,
     SetLastSampleTime
  <2> QED
    BY <1>3, <2>1, <2>2, <2>3
<1>6. CASE Flush
  <2>1. (\E x \in Steps : Goto("reporter", x)) \/ UNCHANGED pc
    BY <1>6 DEF Steps, Flush, FlushBegin, SkipBucket, FlushBucket, FlushBucketEnd,
     ClearMetric, ExpireMetric, FlushMetric, ResetCurrentBucket, ResetCurrentMbc
  <2>2. UNCHANGED <<interleaved, received, submitted>>
    BY <1>6 DEF submitVars, Flush, FlushBegin, SkipBucket, FlushBucket, FlushBucketEnd,
     ClearMetric, ExpireMetric, FlushMetric, ResetCurrentBucket, ResetCurrentMbc
  <2> QED
    BY <1>2, <1>3, <1>4, <2>1, <2>2, ContextsAre
<1>7. CASE Tick \/ UNCHANGED vars
  BY <1>2, <1>4, <1>7 DEF Tick, vars, submitVars
<1> QED
  BY <1>1, <1>2, <1>5, <1>6, <1>7 DEF Next

\* The dicts only grow: a dict keeps its contexts, and no dict goes.
Grown ==
    /\ dicts' \in Seq(MetricDicts) /\ Len(dicts) \in Nat /\ Len(dicts') \in Nat
    /\ Len(dicts) <= Len(dicts')
    /\ \A d \in 1..Len(dicts) : DOMAIN dicts[d] \subseteq DOMAIN dicts'[d]

LEMMA DictsGrow == TypeInv /\ DictsInv /\ [Next]_vars => Grown
<1> SUFFICES ASSUME TypeInv, DictsInv, [Next]_vars PROVE Grown
  OBVIOUS
<1>1. dicts \in Seq(MetricDicts) /\ mbc \in [Threads -> Dicts] /\ Len(dicts) \in Nat
  BY DEF TypeInv, DictsTyped
<1>2. ASSUME NEW t \in Threads, Sampling(t)
      PROVE  mbc[t] \in 1..Len(dicts) /\ Context(t) \in DOMAIN dicts[mbc[t]]
  <2>1. mbc[t] # NoDict /\ Context(t) \in DOMAIN dicts[mbc[t]]
    BY <1>2 DEF DictsInv
  <2> QED
    BY <1>1, <2>1 DEF Dicts, NoDict
<1>3. CASE UNCHANGED dicts
  BY <1>1, <1>3 DEF Grown
<1>4. ASSUME NEW t \in Threads, CreateBucket(t) PROVE Grown
  BY <1>1, <1>4, CreateBucketDicts DEF Grown
<1>5. ASSUME NEW t \in Threads, CreateContext(t) PROVE Grown
  <2>1. /\ dicts' \in Seq(MetricDicts) /\ Len(dicts') = Len(dicts)
        /\ DOMAIN dicts'[mbc[t]] = DOMAIN dicts[mbc[t]] \cup {Context(t)}
        /\ \A d \in 1..Len(dicts) : d # mbc[t] => dicts'[d] = dicts[d]
    BY <1>1, <1>5, CreateContextDicts
  <2> QED
    BY <1>1, <2>1 DEF Grown
<1>6. ASSUME NEW t \in Threads, WriteValue(t) PROVE Grown
  <2>1. mbc[t] \in 1..Len(dicts) /\ Context(t) \in DOMAIN dicts[mbc[t]]
    BY <1>2, <1>6 DEF WriteValue, Sampling
  <2>2. sum[t] \in SUBSET Points
    BY DEF TypeInv, ValuesTyped
  <2>3. t = "server" => received \in Points
    BY <1>6, Bounds DEF TypeInv, PointsTyped, TimesTyped, Adding, WriteValue
  <2>4. /\ dicts' \in Seq(MetricDicts) /\ Len(dicts') = Len(dicts)
        /\ DOMAIN dicts'[mbc[t]] = DOMAIN dicts[mbc[t]]
        /\ \A d \in 1..Len(dicts) : d # mbc[t] => dicts'[d] = dicts[d]
    BY <1>1, <1>6, <2>1, <2>2, <2>3, WriteValueDicts
  <2> QED
    BY <1>1, <2>4 DEF Grown
<1>7. ASSUME NEW t \in Threads, SetLastSampleTime(t) PROVE Grown
  <2>1. mbc[t] \in 1..Len(dicts) /\ Context(t) \in DOMAIN dicts[mbc[t]]
    BY <1>2, <1>7 DEF SetLastSampleTime, Sampling
  <2>2. now \in Times
    BY Bounds DEF TypeInv, TimesTyped
  <2>3. /\ dicts' \in Seq(MetricDicts) /\ Len(dicts') = Len(dicts)
        /\ DOMAIN dicts'[mbc[t]] = DOMAIN dicts[mbc[t]]
        /\ \A d \in 1..Len(dicts) : d # mbc[t] => dicts'[d] = dicts[d]
    BY <1>1, <1>7, <2>1, <2>2, LastSampleDicts
  <2> QED
    BY <1>1, <2>3 DEF Grown
<1>8. CASE ClearMetric
  <2>1. /\ mbc["reporter"] \in 1..Len(dicts) /\ Counter \in DOMAIN dicts[mbc["reporter"]]
    BY <1>1, <1>8, ContextsAre DEF ClearMetric, DictsInv, InBucket, Dicts, NoDict
  <2>2. /\ dicts' \in Seq(MetricDicts) /\ Len(dicts') = Len(dicts)
        /\ DOMAIN dicts'[mbc["reporter"]] = DOMAIN dicts[mbc["reporter"]]
        /\ \A d \in 1..Len(dicts) : d # mbc["reporter"] => dicts'[d] = dicts[d]
    BY <1>1, <1>8, <2>1, ClearMetricDicts
  <2> QED
    BY <1>1, <2>2 DEF Grown
<1>9. ASSUME NEW t \in Threads, SubmitStep(t)
      PROVE  \/ UNCHANGED dicts
             \/ CreateBucket(t) \/ CreateContext(t) \/ WriteValue(t) \/ SetLastSampleTime(t)
  BY <1>9 DEF SubmitStep, Submit, Lookup, UseCached, Find, GetBucket,
     SetCurrentBucket, SetCurrentMbc, Forgotten, ReadValue, shared
<1>10. CASE Flush
  <2>1. ClearMetric \/ UNCHANGED dicts
    BY <1>10 DEF Flush, FlushBegin, SkipBucket, FlushBucket, FlushBucketEnd,
     ExpireMetric, FlushMetric, ResetCurrentBucket, ResetCurrentMbc, shared
  <2> QED
    BY <1>3, <1>8, <2>1
<1>11. Tick \/ UNCHANGED vars => UNCHANGED dicts
  BY DEF Tick, vars, shared
<1> QED
  BY <1>3, <1>4, <1>5, <1>6, <1>7, <1>9, <1>10, <1>11 DEF Next

LEMMA DictsTypedStep == TypeInv /\ DictsInv /\ [Next]_vars => DictsTyped'
<1> SUFFICES ASSUME TypeInv, DictsInv, [Next]_vars PROVE DictsTyped'
  OBVIOUS
<1>1. Grown
  BY DictsGrow
<1>2. /\ metricByBucket \in [Buckets -> Dicts] /\ mbc \in [Threads -> Dicts]
      /\ currentBucket \in Buckets \cup {None} /\ currentMbc \in Dicts
      /\ stamp \in [Threads -> Times] /\ todo \subseteq Buckets
  BY DEF TypeInv, DictsTyped, TimesTyped, FlushTyped
<1>3. /\ Dicts \subseteq Dicts' /\ NoDict \in Dicts'
      /\ \A d \in Dicts : d \in Dicts'
  BY <1>1 DEF Dicts, NoDict, Grown
<1>4. ASSUME NEW t \in Threads PROVE Bucket(t) \in Buckets
  BY <1>2, BucketsAre DEF Bucket
<1>5. "reporter" \in Threads
  BY ContextsAre
<1>6. todo # {} => Earliest \in Buckets
  BY <1>2, EarliestIsThere
<1>7. UNCHANGED metricByBucket => metricByBucket' \in [Buckets -> Dicts']
  BY <1>2, <1>3
<1>8. UNCHANGED mbc => mbc' \in [Threads -> Dicts']
  BY <1>2, <1>3
<1>9. UNCHANGED <<currentBucket, currentMbc>> =>
          currentBucket' \in Buckets \cup {None} /\ currentMbc' \in Dicts'
  BY <1>2, <1>3
<1>10. dicts' \in Seq(MetricDicts)
  BY <1>1 DEF Grown
<1>11. ASSUME NEW t \in Threads, NEW d \in Dicts, mbc' = [mbc EXCEPT ![t] = d]
       PROVE  mbc' \in [Threads -> Dicts']
  BY <1>2, <1>3, <1>11
<1>12. ASSUME NEW b \in Buckets, NEW d \in Dicts', metricByBucket' = [metricByBucket EXCEPT ![b] = d]
       PROVE  metricByBucket' \in [Buckets -> Dicts']
  BY <1>2, <1>3, <1>12
<1>13. ASSUME NEW t \in Threads, SubmitStep(t) PROVE DictsTyped'
  <2>1. mbc' \in [Threads -> Dicts']
    BY <1>2, <1>4, <1>8, <1>11, <1>13 DEF submitVars, SubmitStep, Submit, Lookup, UseCached, Find, CreateBucket, GetBucket,
     SetCurrentBucket, SetCurrentMbc, Forgotten, CreateContext, ReadValue, WriteValue,
     SetLastSampleTime
  <2>2. CASE CreateBucket(t)
    <3>1. Len(dicts') \in Dicts'
      BY <1>1 DEF Grown, Dicts
    <3>2. metricByBucket' = [metricByBucket EXCEPT ![Bucket(t)] = Len(dicts')]
          /\ UNCHANGED <<currentBucket, currentMbc>>
      BY <2>2 DEF CreateBucket
    <3> QED
      BY <1>4, <1>9, <1>10, <1>12, <2>1, <3>1, <3>2 DEF DictsTyped
  <2>3. CASE SetCurrentBucket(t)
    BY <1>2, <1>3, <1>4, <1>7, <1>10, <2>1, <2>3 DEF DictsTyped, SetCurrentBucket
  <2>4. CASE SetCurrentMbc(t)
    BY <1>2, <1>3, <1>7, <1>10, <2>1, <2>4 DEF DictsTyped, SetCurrentMbc
  <2>5. UNCHANGED <<metricByBucket, currentBucket, currentMbc>>
        \/ CreateBucket(t) \/ SetCurrentBucket(t) \/ SetCurrentMbc(t)
    BY <1>13 DEF shared, SubmitStep, Submit, Lookup, UseCached, Find, GetBucket,
     Forgotten, CreateContext, ReadValue, WriteValue, SetLastSampleTime
  <2> QED
    BY <1>7, <1>9, <1>10, <2>1, <2>2, <2>3, <2>4, <2>5 DEF DictsTyped
<1>14. CASE Flush
  <2>1. mbc' \in [Threads -> Dicts']
    BY <1>2, <1>5, <1>6, <1>8, <1>11, <1>14 DEF submitVars, Flush, FlushBegin, SkipBucket, FlushBucket,
     FlushBucketEnd, ClearMetric, ExpireMetric, FlushMetric, ResetCurrentBucket, ResetCurrentMbc
  <2>2. CASE FlushBucketEnd
    <3>1. InBucket
      BY <2>2 DEF FlushBucketEnd, InBucket
    <3>2. Earliest \in Buckets
      BY <1>6, <3>1 DEF DictsInv
    <3>3. metricByBucket' = [metricByBucket EXCEPT ![Earliest] = NoDict]
      BY <2>2 DEF FlushBucketEnd, BucketDeleted
    <3>4. UNCHANGED <<currentBucket, currentMbc>>
      BY <2>2 DEF FlushBucketEnd
    <3> QED
      BY <1>3, <1>9, <1>10, <1>12, <2>1, <3>2, <3>3, <3>4 DEF DictsTyped
  <2>3. CASE ResetCurrentBucket
    BY <1>2, <1>3, <1>7, <1>10, <2>1, <2>3 DEF DictsTyped, ResetCurrentBucket, NoCurrent
  <2>4. CASE ResetCurrentMbc
    BY <1>2, <1>3, <1>7, <1>10, <2>1, <2>4 DEF DictsTyped, ResetCurrentMbc
  <2>5. UNCHANGED <<metricByBucket, currentBucket, currentMbc>>
        \/ FlushBucketEnd \/ ResetCurrentBucket \/ ResetCurrentMbc
    BY <1>14 DEF shared, Flush, FlushBegin, SkipBucket, FlushBucket, ClearMetric, ExpireMetric, FlushMetric
  <2> QED
    BY <1>7, <1>9, <1>10, <2>1, <2>2, <2>3, <2>4, <2>5 DEF DictsTyped
<1>15. CASE Tick \/ UNCHANGED vars
  <2>1. UNCHANGED <<metricByBucket, currentBucket, currentMbc, mbc>>
    BY <1>15 DEF Tick, vars, shared, submitVars
  <2> QED
    BY <1>7, <1>8, <1>9, <1>10, <2>1 DEF DictsTyped
<1> QED
  BY <1>13, <1>14, <1>15 DEF Next

\* The bucket that is flushed, its dict and what is left of it.
LEMMA BucketFlushed ==
    TypeInv /\ DictsInv /\ InBucket =>
        /\ Earliest \in todo /\ Earliest \in Buckets /\ mbc["reporter"] \in 1..Len(dicts)
        /\ items \subseteq DOMAIN dicts[mbc["reporter"]]
<1> SUFFICES ASSUME TypeInv, DictsInv, InBucket
             PROVE  /\ Earliest \in todo /\ Earliest \in Buckets /\ mbc["reporter"] \in 1..Len(dicts)
                    /\ items \subseteq DOMAIN dicts[mbc["reporter"]]
  OBVIOUS
<1>1. todo # {} /\ mbc["reporter"] # NoDict /\ items \subseteq DOMAIN dicts[mbc["reporter"]]
  BY DEF DictsInv
<1>2. todo \subseteq Buckets /\ mbc["reporter"] \in Dicts
  BY ContextsAre DEF TypeInv, FlushTyped, DictsTyped
<1>3. Len(dicts) \in Nat
  BY DEF TypeInv, DictsTyped
<1> QED
  BY <1>1, <1>2, <1>3, EarliestIsThere DEF Dicts, NoDict

LEMMA BucketFound ==
    TypeInv /\ DictsInv /\ FlushBucket =>
        Earliest \in todo /\ Earliest \in Buckets /\ metricByBucket[Earliest] \in 1..Len(dicts)
<1> SUFFICES ASSUME TypeInv, DictsInv, FlushBucket
             PROVE  /\ Earliest \in todo /\ Earliest \in Buckets
                    /\ metricByBucket[Earliest] \in 1..Len(dicts)
  OBVIOUS
<1>1. todo # {} /\ InFlush
  BY DEF FlushBucket, InFlush
<1>2. Earliest \in todo /\ Earliest \in Buckets
  BY <1>1, EarliestIsThere DEF TypeInv, FlushTyped
<1>3. metricByBucket[Earliest] # NoDict
  BY <1>1, <1>2 DEF DictsInv
<1>4. metricByBucket[Earliest] \in Dicts /\ Len(dicts) \in Nat
  BY <1>2 DEF TypeInv, DictsTyped
<1> QED
  BY <1>2, <1>3, <1>4 DEF Dicts, NoDict

LEMMA FlushStep == TypeInv /\ DictsInv /\ [Next]_vars => FlushTyped'
<1> SUFFICES ASSUME TypeInv, DictsInv, [Next]_vars PROVE FlushTyped'
  OBVIOUS
<1>1. FlushTyped
  BY DEF TypeInv
<1>2. now \in Times /\ now \in Nat /\ now <= LastTime
  BY Bounds DEF TypeInv, TimesTyped
<1>3. calculateBucketStart(now) \in Buckets
  BY <1>2, BucketsAre
<1>4. ASSUME NEW t \in Threads, SubmitStep(t) PROVE FlushTyped'
  BY <1>1, <1>4 DEF flushVars, FlushTyped, SubmitStep, Submit, Lookup, UseCached, Find, CreateBucket, GetBucket,
     SetCurrentBucket, SetCurrentMbc, Forgotten, CreateContext, ReadValue, WriteValue,
     SetLastSampleTime
<1>5. CASE FlushBegin
  <2>1. lastSampleTime' \in Times \cup {None}
    BY <1>1, <1>5 DEF FlushTyped, FlushBegin, EmptyMetric
  <2>2. todo' \subseteq Buckets
    BY <1>5 DEF FlushBegin
  <2>3. cutoff' \in Buckets
    BY <1>3, <1>5 DEF FlushBegin
  <2>4. expiry' \in Int /\ -ExpirySeconds <= expiry' /\ expiry' <= LastTime
    BY <1>2, <1>5, Bounds DEF FlushBegin
  <2>5. UNCHANGED <<items, notSampled, lastFlushCutoff>>
    BY <1>5 DEF FlushBegin
  <2> QED
    BY <1>1, <2>1, <2>2, <2>3, <2>4, <2>5 DEF FlushTyped
<1>6. CASE SkipBucket
  BY <1>1, <1>6 DEF FlushTyped, SkipBucket
<1>7. CASE FlushBucket
  <2>1. "reporter" \in Threads /\ mbc \in [Threads -> Dicts]
    BY ContextsAre DEF TypeInv, DictsTyped
  <2>2. mbc' = [mbc EXCEPT !["reporter"] = metricByBucket[Earliest]]
        /\ items' = DOMAIN dicts[mbc'["reporter"]]
    BY <1>7 DEF FlushBucket
  <2>3. items' = DOMAIN dicts[metricByBucket[Earliest]]
    BY <2>1, <2>2
  <2>4. items' \subseteq Contexts
    <3>1. dicts \in Seq(MetricDicts)
      BY DEF TypeInv, DictsTyped
    <3> QED
      BY <1>7, <2>3, <3>1, BucketFound, DictTyped
  <2>5. notSampled' \in BOOLEAN /\ UNCHANGED <<lastSampleTime, lastFlushCutoff, cutoff, expiry, todo>>
    BY <1>7 DEF FlushBucket
  <2> QED
    BY <1>1, <2>4, <2>5 DEF FlushTyped
<1>8. CASE FlushBucketEnd
  <2>1. lastSampleTime' \in Times \cup {None}
    BY <1>1, <1>8 DEF FlushTyped, FlushBucketEnd, EmptyMetric
  <2>2. todo' \subseteq todo /\ UNCHANGED <<expiry, cutoff, items, notSampled, lastFlushCutoff>>
    BY <1>8 DEF FlushBucketEnd
  <2> QED
    BY <1>1, <2>1, <2>2 DEF FlushTyped
<1>9. CASE ClearMetric
  <2>1. mbc["reporter"] \in 1..Len(dicts) /\ Counter \in DOMAIN dicts[mbc["reporter"]]
    BY <1>9, BucketFlushed DEF ClearMetric, DictsInv, InBucket
  <2>2. dicts \in Seq(MetricDicts)
    BY DEF TypeInv, DictsTyped
  <2>3. Flushed(Counter).last \in Times \cup {None}
    BY <2>1, <2>2, DictTyped DEF Flushed
  <2>4. /\ notSampled' \in BOOLEAN /\ lastSampleTime' = Flushed(Counter).last /\ items' \subseteq items
        /\ UNCHANGED <<cutoff, expiry, todo, lastFlushCutoff>>
    BY <1>9 DEF ClearMetric
  <2> QED
    BY <1>1, <2>3, <2>4 DEF FlushTyped
<1>10. ASSUME NEW c \in Contexts, ExpireMetric(c) PROVE FlushTyped'
  BY <1>1, <1>10 DEF FlushTyped, ExpireMetric
<1>11. ASSUME NEW c \in Contexts, FlushMetric(c) PROVE FlushTyped'
  BY <1>1, <1>11 DEF FlushTyped, FlushMetric
<1>12. CASE ResetCurrentBucket
  BY <1>1, <1>12 DEF FlushTyped, ResetCurrentBucket, flushVars
<1>13. CASE ResetCurrentMbc
  BY <1>1, <1>13 DEF FlushTyped, ResetCurrentMbc
<1>14. CASE Tick \/ UNCHANGED vars
  BY <1>1, <1>14 DEF FlushTyped, Tick, vars, flushVars
<1> QED
  BY <1>4, <1>5, <1>6, <1>7, <1>8, <1>9, <1>10, <1>11, <1>12, <1>13, <1>14 DEF Next, Flush

LEMMA ValuesStep == TypeInv /\ DictsInv /\ [Next]_vars => ValuesTyped'
<1> SUFFICES ASSUME TypeInv, DictsInv, [Next]_vars PROVE ValuesTyped'
  OBVIOUS
<1>1. ValuesTyped
  BY DEF TypeInv
<1>2. CASE UNCHANGED <<sum, history>>
  BY <1>1, <1>2 DEF ValuesTyped, history
<1>3. ASSUME NEW t \in Threads, ReadValue(t) PROVE ValuesTyped'
  <2>1. mbc[t] # NoDict /\ Context(t) \in DOMAIN dicts[mbc[t]]
    BY <1>3 DEF ReadValue, Sampling, DictsInv
  <2>2. mbc[t] \in 1..Len(dicts) /\ dicts \in Seq(MetricDicts)
    BY <2>1 DEF TypeInv, DictsTyped, Dicts, NoDict
  <2>3. dicts[mbc[t]][Context(t)].points \in SUBSET Points
    BY <2>1, <2>2, DictTyped
  <2> QED
    BY <1>1, <1>3, <2>3 DEF ValuesTyped, ReadValue, history
<1>4. ASSUME NEW t \in Threads, WriteValue(t) PROVE ValuesTyped'
  BY <1>1, <1>4 DEF ValuesTyped, WriteValue, history
<1>5. ASSUME NEW b \in Buckets, Value(b) PROVE values' \in [Buckets -> Nat]
  BY <1>1, <1>5 DEF ValuesTyped, Value
<1>6. CASE FlushBegin
  <2>1. values' \in [Buckets -> Nat]
    BY <1>1, <1>5, <1>6 DEF FlushBegin, EmptyMetric, ValuesTyped
  <2> QED
    BY <1>1, <1>6, <2>1 DEF FlushBegin, ValuesTyped, submitVars
<1>7. CASE FlushBucketEnd
  <2>1. values' \in [Buckets -> Nat]
    BY <1>1, <1>5, <1>7 DEF FlushBucketEnd, EmptyMetric, ValuesTyped
  <2> QED
    BY <1>1, <1>7, <2>1 DEF FlushBucketEnd, ValuesTyped, submitVars
<1>8. ASSUME NEW c \in Contexts, ExpireMetric(c) PROVE ValuesTyped'
  BY <1>1, <1>8 DEF ValuesTyped, ExpireMetric, submitVars
<1>9. ASSUME NEW c \in Contexts, FlushMetric(c) PROVE ValuesTyped'
  <2>1. Earliest \in Buckets
    BY <1>9, BucketFlushed DEF FlushMetric, InBucket
  <2>2. sum' \in [Threads -> SUBSET Points]
    BY <1>1, <1>9 DEF FlushMetric, submitVars, ValuesTyped
  <2>3. reported' \in [Points -> Buckets \cup {None}]
    BY <1>1, <1>9, <2>1 DEF FlushMetric, ValuesTyped
  <2>4. twice' \in BOOLEAN /\ neverHappened' \in BOOLEAN
    BY <1>1, <1>9, Zenon DEF FlushMetric, ValuesTyped
  <2>5. values' \in [Buckets -> Nat]
    BY <1>1, <1>5, <1>9, <2>1 DEF FlushMetric, ValuesTyped
  <2> QED
    BY <2>2, <2>3, <2>4, <2>5 DEF ValuesTyped
<1>10. ASSUME NEW t \in Threads, SubmitStep(t)
       PROVE  UNCHANGED <<sum, history>> \/ ReadValue(t) \/ WriteValue(t)
  BY <1>10 DEF submitVars, SubmitStep, Submit, Lookup, UseCached, Find, CreateBucket, GetBucket,
     SetCurrentBucket, SetCurrentMbc, Forgotten, CreateContext, SetLastSampleTime
<1>11. CASE SkipBucket \/ FlushBucket \/ ClearMetric \/ ResetCurrentBucket \/ ResetCurrentMbc
  BY <1>2, <1>11 DEF SkipBucket, FlushBucket, ClearMetric, ResetCurrentBucket, ResetCurrentMbc, submitVars
<1>12. CASE Tick \/ UNCHANGED vars
  BY <1>2, <1>12 DEF Tick, vars, submitVars
<1> QED
  BY <1>2, <1>3, <1>4, <1>6, <1>7, <1>8, <1>9, <1>10, <1>11, <1>12 DEF Next, Flush

LEMMA TypeStep == TypeInv /\ DictsInv /\ [Next]_vars => TypeInv'
  BY StepsStep, TimesStep, PointsStep, DictsTypedStep, FlushStep, ValuesStep DEF TypeInv

LEMMA TypeInit == Init => TypeInv
<1> SUFFICES ASSUME Init PROVE TypeInv
  OBVIOUS
<1>1. 0 \in Times /\ 0 \in Buckets
  <2>1. 0 \in Times
    BY Bounds
  <2>2. calculateBucketStart(0) = 0
    BY BucketOf
  <2> QED
    BY <2>1, <2>2, BucketsAre
<1>2. StepsTyped
  BY DEF Init, StepsTyped, Steps, FlushSteps, Threads
<1>3. DictsTyped
  <2>1. dicts = <<>> /\ dicts \in Seq(MetricDicts) /\ Len(dicts) = 0
    BY DEF Init
  <2>2. NoDict \in Dicts
    BY <2>1 DEF Dicts, NoDict
  <2> QED
    BY <2>1, <2>2 DEF Init, DictsTyped
<1>4. TimesTyped
  BY <1>1, Bounds DEF Init, TimesTyped
<1>5. PointsTyped
  BY <1>1, Bounds DEF Init, PointsTyped, Adding, Threads
<1>6. FlushTyped
  <2>1. /\ lastSampleTime = None /\ lastFlushCutoff = 0 /\ cutoff = 0 /\ expiry = 0
        /\ todo = {} /\ items = {} /\ notSampled \in BOOLEAN
    BY DEF Init
  <2>2. -ExpirySeconds <= 0 /\ 0 <= LastTime
    BY Bounds
  <2> QED
    BY <1>1, <2>1, <2>2 DEF FlushTyped
<1>7. ValuesTyped
  BY <1>1 DEF Init, ValuesTyped
<1> QED
  BY <1>2, <1>3, <1>4, <1>5, <1>6, <1>7 DEF TypeInv

LEMMA Typed == TypeInv => TypeOK
<1> SUFFICES ASSUME TypeInv PROVE TypeOK
  OBVIOUS
<1>1. dicts \in Seq(MetricDicts)
  BY DEF TypeInv, DictsTyped
<1>2. \A i \in DOMAIN dicts :
         /\ DOMAIN dicts[i] \subseteq Contexts
         /\ \A c \in DOMAIN dicts[i] :
               dicts[i][c].points \subseteq Points /\ dicts[i][c].last \in Times \cup {None}
  <2>1. DOMAIN dicts = 1..Len(dicts)
    BY <1>1
  <2> QED
    BY <1>1, <2>1, DictTyped
<1>3. interleaved \in BOOLEAN /\ now \in Times /\ stamp \in [Threads -> Times]
      /\ wake \in 0..Max(Times) + FlushInterval
  BY Bounds DEF TypeInv, TimesTyped
<1>4. received \in {0} \cup Points /\ submitted \in [Points -> Times]
  BY <1>3, Bounds DEF TypeInv, PointsTyped
<1>5. expiry \in -ExpirySeconds..Max(Times)
  BY Bounds DEF TypeInv, FlushTyped
<1> QED
  BY <1>2, <1>3, <1>4, <1>5 DEF TypeOK, TypeInv, StepsTyped, Steps, DictsTyped, FlushTyped, ValuesTyped

-----------------------------------------------------------------------------
(* The dicts of the buckets *)

\* A thread's step is its own.
LEMMA StepTaken ==
    ASSUME TypeInv, NEW t \in Threads, NEW x, Goto(t, x)
    PROVE  pc'[t] = x /\ \A u \in Threads : u # t => pc'[u] = pc[u]
  BY DEF TypeInv, StepsTyped, Goto

\* What becomes of the dicts of the buckets.
LEMMA BucketsStep ==
    TypeInv /\ DictsInv /\ [Next]_vars =>
        \/ UNCHANGED metricByBucket
        \/ \E t \in Threads :
              /\ CreateBucket(t) /\ Bucket(t) \in Buckets
              /\ metricByBucket' = [metricByBucket EXCEPT ![Bucket(t)] = Len(dicts) + 1]
        \/ /\ FlushBucketEnd /\ Earliest \in Buckets
           /\ metricByBucket' = [metricByBucket EXCEPT ![Earliest] = NoDict]
<1> SUFFICES ASSUME TypeInv, DictsInv, [Next]_vars
             PROVE  \/ UNCHANGED metricByBucket
                    \/ \E t \in Threads :
                          /\ CreateBucket(t) /\ Bucket(t) \in Buckets
                          /\ metricByBucket' = [metricByBucket EXCEPT ![Bucket(t)] = Len(dicts) + 1]
                    \/ /\ FlushBucketEnd /\ Earliest \in Buckets
                       /\ metricByBucket' = [metricByBucket EXCEPT ![Earliest] = NoDict]
  OBVIOUS
<1>1. ASSUME NEW t \in Threads, CreateBucket(t)
      PROVE  /\ Bucket(t) \in Buckets
             /\ metricByBucket' = [metricByBucket EXCEPT ![Bucket(t)] = Len(dicts) + 1]
  <2>1. Len(dicts') = Len(dicts) + 1
    BY <1>1, CreateBucketDicts DEF TypeInv, DictsTyped
  <2> QED
    BY <1>1, <2>1, BucketsAre DEF CreateBucket, Bucket, TypeInv, TimesTyped
<1>2. CASE FlushBucketEnd
  <2>1. Earliest \in Buckets
    BY <1>2, BucketFlushed DEF FlushBucketEnd, InBucket
  <2> QED
    BY <1>2, <2>1 DEF FlushBucketEnd, BucketDeleted
<1>3. ASSUME NEW t \in Threads, SubmitStep(t) PROVE CreateBucket(t) \/ UNCHANGED metricByBucket
  BY <1>3 DEF shared, SubmitStep, Submit, Lookup, UseCached, Find, GetBucket,
     SetCurrentBucket, SetCurrentMbc, Forgotten, CreateContext, ReadValue, WriteValue,
     SetLastSampleTime
<1>4. CASE Flush
  <2>1. FlushBucketEnd \/ UNCHANGED metricByBucket
    BY <1>4 DEF shared, Flush, FlushBegin, SkipBucket, FlushBucket, ClearMetric,
       ExpireMetric, FlushMetric, ResetCurrentBucket, ResetCurrentMbc
  <2> QED
    BY <1>2, <2>1
<1>5. CASE Tick \/ UNCHANGED vars
  BY <1>5 DEF shared, Tick, vars
<1> QED
  BY <1>1, <1>3, <1>4, <1>5 DEF Next

\* How a thread comes to sample, and how the flush comes to a bucket.
LEMMA SamplingStep ==
    ASSUME TypeInv, [Next]_vars, NEW t \in Threads, Sampling(t)'
    PROVE  CreateContext(t) \/ (Sampling(t) /\ mbc'[t] = mbc[t])
<1>1. mbc \in [Threads -> Dicts]
  BY DEF TypeInv, DictsTyped
<1>2. ASSUME NEW u \in Threads, SubmitStep(u)
      PROVE  CreateContext(t) \/ (Sampling(t) /\ mbc'[t] = mbc[t])
  <2>1. CASE u # t
    <3>1. pc'[t] = pc[t]
      BY <1>2, <2>1, StepTaken DEF SubmitStep, Submit, Lookup, UseCached, Find, CreateBucket, GetBucket,
     SetCurrentBucket, SetCurrentMbc, Forgotten, CreateContext, ReadValue, WriteValue,
     SetLastSampleTime, Sampled
    <3>2. mbc'[t] = mbc[t]
      BY <1>1, <1>2, <2>1 DEF submitVars, SubmitStep, Submit, Lookup, UseCached, Find, CreateBucket, GetBucket,
     SetCurrentBucket, SetCurrentMbc, Forgotten, CreateContext, ReadValue, WriteValue,
     SetLastSampleTime
    <3> QED
      BY <3>1, <3>2 DEF Sampling
  <2>2. CASE u = t
    <3>1. \/ CreateContext(t) \/ (ReadValue(t) /\ pc'[t] = "add") \/ (WriteValue(t) /\ pc'[t] = "last")
          \/ pc'[t] \notin {"sample", "add", "last"}
      BY <1>2, <2>2, StepTaken DEF SubmitStep, Submit, Lookup, UseCached, Find, CreateBucket, GetBucket,
     SetCurrentBucket, SetCurrentMbc, Forgotten, CreateContext, ReadValue, WriteValue,
     SetLastSampleTime, Sampled
    <3> QED
      BY <3>1 DEF Sampling, ReadValue, WriteValue
  <2> QED
    BY <2>1, <2>2
<1>3. CASE Flush
  <2>1. "reporter" \in Threads
    BY ContextsAre
  <2>2. CASE t = "reporter"
    <3>1. UNCHANGED pc \/ pc'[t] \in {"idle", "buckets", "items", "clear", "reset"}
      BY <1>3, <2>1, <2>2, StepTaken DEF Flush, FlushBegin, SkipBucket, FlushBucket, FlushBucketEnd, ClearMetric,
     ExpireMetric, FlushMetric, ResetCurrentBucket, ResetCurrentMbc
    <3>2. pc[t] \notin {"sample", "add", "last"}
      BY <1>3, <2>2 DEF Flush, FlushBegin, SkipBucket, FlushBucket, FlushBucketEnd, ClearMetric,
     ExpireMetric, FlushMetric, ResetCurrentBucket, ResetCurrentMbc
    <3> QED
      BY <3>1, <3>2 DEF Sampling
  <2>3. CASE t # "reporter"
    <3>1. pc'[t] = pc[t]
      BY <1>3, <2>1, <2>3, StepTaken DEF Flush, FlushBegin, SkipBucket, FlushBucket, FlushBucketEnd, ClearMetric,
     ExpireMetric, FlushMetric, ResetCurrentBucket, ResetCurrentMbc
    <3>2. mbc'[t] = mbc[t]
      BY <1>1, <1>3, <2>3 DEF submitVars, Flush, FlushBegin, SkipBucket, FlushBucket, FlushBucketEnd, ClearMetric,
     ExpireMetric, FlushMetric, ResetCurrentBucket, ResetCurrentMbc
    <3> QED
      BY <3>1, <3>2 DEF Sampling
  <2> QED
    BY <2>2, <2>3
<1>4. CASE Tick \/ UNCHANGED vars
  BY <1>4 DEF Tick, vars, submitVars, Sampling
<1> QED
  BY <1>2, <1>3, <1>4 DEF Next

LEMMA InFlushStep ==
    TypeInv /\ [Next]_vars /\ InFlush' => FlushBegin \/ (InFlush /\ todo' \subseteq todo)
<1> SUFFICES ASSUME TypeInv, [Next]_vars, InFlush'
             PROVE  FlushBegin \/ (InFlush /\ todo' \subseteq todo)
  OBVIOUS
<1>1. ASSUME NEW t \in Threads, SubmitStep(t) PROVE InFlush /\ todo' = todo
  <2>1. CASE t = "reporter"
    <3>1. pc'[t] \notin {"buckets", "items", "clear"}
      BY <1>1, <2>1, StepTaken DEF SubmitStep, Submit, Lookup, UseCached, Find, CreateBucket, GetBucket,
     SetCurrentBucket, SetCurrentMbc, Forgotten, CreateContext, ReadValue, WriteValue,
     SetLastSampleTime, Sampled
    <3> QED
      BY <2>1, <3>1 DEF InFlush
  <2>2. CASE t # "reporter"
    <3>1. pc'["reporter"] = pc["reporter"]
      BY <1>1, <2>2, StepTaken, ContextsAre DEF SubmitStep, Submit, Lookup, UseCached, Find, CreateBucket, GetBucket,
     SetCurrentBucket, SetCurrentMbc, Forgotten, CreateContext, ReadValue, WriteValue,
     SetLastSampleTime, Sampled
    <3>2. todo' = todo
      BY <1>1 DEF flushVars, SubmitStep, Submit, Lookup, UseCached, Find, CreateBucket, GetBucket,
     SetCurrentBucket, SetCurrentMbc, Forgotten, CreateContext, ReadValue, WriteValue,
     SetLastSampleTime
    <3> QED
      BY <3>1, <3>2 DEF InFlush
  <2> QED
    BY <2>1, <2>2
<1>2. CASE Flush
  <2>1. FlushBegin \/ (todo' \subseteq todo)
    BY <1>2 DEF flushVars, Flush, SkipBucket, FlushBucket, FlushBucketEnd, ClearMetric,
     ExpireMetric, FlushMetric, ResetCurrentBucket, ResetCurrentMbc
  <2>2. FlushBegin \/ InFlush \/ ResetCurrentMbc
    BY <1>2 DEF InFlush, Flush, SkipBucket, FlushBucket, FlushBucketEnd, ClearMetric,
     ExpireMetric, FlushMetric, ResetCurrentBucket
  <2>3. ~ResetCurrentMbc
    <3> SUFFICES ASSUME ResetCurrentMbc PROVE FALSE
      OBVIOUS
    <3>1. pc'["reporter"] = "idle"
      BY StepTaken, ContextsAre DEF ResetCurrentMbc
    <3> QED
      BY <3>1 DEF InFlush
  <2> QED
    BY <2>1, <2>2, <2>3
<1>3. CASE Tick \/ UNCHANGED vars
  BY <1>3 DEF Tick, vars, flushVars, InFlush
<1> QED
  BY <1>1, <1>2, <1>3 DEF Next

\* While a bucket is flushed, its dict and the bucket stay what they are.
SameBucket == InBucket /\ todo' = todo /\ Earliest' = Earliest /\ mbc'["reporter"] = mbc["reporter"]
              /\ items' \subseteq items

LEMMA InBucketStep ==
    TypeInv /\ [Next]_vars /\ InBucket' => FlushBucket \/ SameBucket
<1> SUFFICES ASSUME TypeInv, [Next]_vars, InBucket' PROVE FlushBucket \/ SameBucket
  OBVIOUS
<1>1. mbc \in [Threads -> Dicts]
  BY DEF TypeInv, DictsTyped
<1>2. ASSUME NEW t \in Threads, SubmitStep(t) PROVE SameBucket
  <2>1. CASE t = "reporter"
    <3>1. pc'[t] \notin {"items", "clear"}
      BY <1>2, <2>1, StepTaken DEF SubmitStep, Submit, Lookup, UseCached, Find, CreateBucket, GetBucket,
     SetCurrentBucket, SetCurrentMbc, Forgotten, CreateContext, ReadValue, WriteValue,
     SetLastSampleTime, Sampled
    <3> QED
      BY <2>1, <3>1 DEF InBucket
  <2>2. CASE t # "reporter"
    <3>1. pc'["reporter"] = pc["reporter"]
      BY <1>2, <2>2, StepTaken, ContextsAre DEF SubmitStep, Submit, Lookup, UseCached, Find, CreateBucket, GetBucket,
     SetCurrentBucket, SetCurrentMbc, Forgotten, CreateContext, ReadValue, WriteValue,
     SetLastSampleTime, Sampled
    <3>2. todo' = todo /\ items' = items
      BY <1>2 DEF flushVars, SubmitStep, Submit, Lookup, UseCached, Find, CreateBucket, GetBucket,
     SetCurrentBucket, SetCurrentMbc, Forgotten, CreateContext, ReadValue, WriteValue,
     SetLastSampleTime
    <3>3. mbc'["reporter"] = mbc["reporter"]
      BY <1>1, <1>2, <2>2, ContextsAre DEF submitVars, SubmitStep, Submit, Lookup, UseCached, Find, CreateBucket, GetBucket,
     SetCurrentBucket, SetCurrentMbc, Forgotten, CreateContext, ReadValue, WriteValue,
     SetLastSampleTime
    <3> QED
      BY <3>1, <3>2, <3>3 DEF InBucket, SameBucket, Earliest
  <2> QED
    BY <2>1, <2>2
<1>3. CASE Flush
  <2>1. CASE ClearMetric \/ (\E c \in Contexts : ExpireMetric(c) \/ FlushMetric(c))
    <3>1. InBucket
      BY <2>1 DEF InBucket, ClearMetric, ExpireMetric, FlushMetric
    <3>2. todo' = todo /\ mbc' = mbc /\ items' \subseteq items
      BY <2>1 DEF ClearMetric, ExpireMetric, FlushMetric, submitVars
    <3> QED
      BY <3>1, <3>2 DEF SameBucket, Earliest
  <2>2. CASE FlushBegin \/ SkipBucket \/ FlushBucketEnd \/ ResetCurrentBucket \/ ResetCurrentMbc
    <3>1. pc'["reporter"] \in {"idle", "buckets", "reset"}
      BY <2>2, StepTaken, ContextsAre DEF FlushBegin, SkipBucket, FlushBucketEnd, ResetCurrentBucket, ResetCurrentMbc
    <3> QED
      BY <3>1 DEF InBucket
  <2> QED
    BY <1>3, <2>1, <2>2 DEF Flush
<1>4. CASE Tick \/ UNCHANGED vars
  BY <1>4 DEF Tick, vars, flushVars, submitVars, InBucket, SameBucket, Earliest
<1> QED
  BY <1>2, <1>3, <1>4 DEF Next

LEMMA DictsStep == TypeInv /\ DictsInv /\ [Next]_vars => DictsInv'
<1> SUFFICES ASSUME TypeInv, DictsInv, [Next]_vars PROVE DictsInv'
  OBVIOUS
<1>1. /\ metricByBucket \in [Buckets -> Dicts] /\ mbc \in [Threads -> Dicts] /\ todo \subseteq Buckets
      /\ Len(dicts) \in Nat /\ dicts \in Seq(MetricDicts)
  BY DEF TypeInv, DictsTyped, FlushTyped
<1>2. Grown
  BY DictsGrow
<1>3. ASSUME NEW b \in Buckets, NEW c \in Buckets,
             metricByBucket'[b] = metricByBucket'[c], metricByBucket'[b] # NoDict
      PROVE  b = c
  <2>1. CASE UNCHANGED metricByBucket
    BY <1>3, <2>1 DEF DictsInv
  <2>2. ASSUME NEW t \in Threads, Bucket(t) \in Buckets,
               metricByBucket' = [metricByBucket EXCEPT ![Bucket(t)] = Len(dicts) + 1]
        PROVE  b = c
    BY <1>1, <1>3, <2>2 DEF DictsInv, Dicts
  <2>3. ASSUME Earliest \in Buckets, metricByBucket' = [metricByBucket EXCEPT ![Earliest] = NoDict]
        PROVE  b = c
    BY <1>1, <1>3, <2>3 DEF DictsInv
  <2> QED
    BY <2>1, <2>2, <2>3, BucketsStep
<1>4. ASSUME NEW t \in Threads, Sampling(t)'
      PROVE  mbc'[t] # NoDict /\ Context(t) \in DOMAIN dicts'[mbc'[t]]
  <2>1. CASE CreateContext(t)
    BY <1>1, <2>1, CreateContextDicts DEF NoDict, CreateContext, submitVars
  <2>2. CASE Sampling(t) /\ mbc'[t] = mbc[t]
    BY <1>1, <1>2, <2>2 DEF DictsInv, Grown, Dicts, NoDict
  <2> QED
    BY <1>4, <2>1, <2>2, SamplingStep
<1>5. InFlush' => \A b \in todo' : metricByBucket'[b] # NoDict
  <2> SUFFICES ASSUME InFlush', NEW b \in todo' PROVE metricByBucket'[b] # NoDict
    OBVIOUS
  <2>1. CASE FlushBegin
    BY <2>1 DEF FlushBegin, shared
  <2>2. CASE InFlush /\ todo' \subseteq todo
    <3>1. b \in Buckets /\ metricByBucket[b] # NoDict
      BY <1>1, <2>2 DEF DictsInv
    <3>2. FlushBucketEnd => b # Earliest
      BY DEF FlushBucketEnd
    <3> QED
      BY <1>1, <3>1, <3>2, BucketsStep DEF NoDict
  <2> QED
    BY <2>1, <2>2, InFlushStep
<1>6. ASSUME InBucket'
      PROVE  /\ todo' # {} /\ mbc'["reporter"] # NoDict
             /\ items' \subseteq DOMAIN dicts'[mbc'["reporter"]]
             /\ \A b \in Buckets : metricByBucket'[b] = mbc'["reporter"] => b = Earliest'
  <2>1. CASE FlushBucket
    <3>1. /\ Earliest \in todo /\ Earliest \in Buckets /\ metricByBucket[Earliest] \in 1..Len(dicts)
      BY <2>1, BucketFound
    <3>2. mbc'["reporter"] = metricByBucket[Earliest]
      BY <1>1, <2>1, ContextsAre DEF FlushBucket
    <3>3. /\ todo' = todo /\ Earliest' = Earliest /\ items' = DOMAIN dicts[mbc'["reporter"]]
          /\ dicts' = dicts /\ metricByBucket' = metricByBucket
      BY <2>1 DEF FlushBucket, Earliest, shared
    <3> QED
      BY <3>1, <3>2, <3>3 DEF DictsInv, NoDict
  <2>2. CASE SameBucket
    <3>1. /\ Earliest \in todo /\ Earliest \in Buckets /\ mbc["reporter"] \in 1..Len(dicts)
          /\ items \subseteq DOMAIN dicts[mbc["reporter"]]
      BY <2>2, BucketFlushed DEF SameBucket
    <3>2. items' \subseteq DOMAIN dicts'[mbc'["reporter"]]
      BY <1>2, <2>2, <3>1 DEF SameBucket, Grown
    <3>3. ASSUME NEW b \in Buckets, metricByBucket'[b] = mbc'["reporter"] PROVE b = Earliest'
      BY <1>1, <2>2, <3>1, <3>3, BucketsStep DEF SameBucket, DictsInv, NoDict
    <3> QED
      BY <2>2, <3>1, <3>2, <3>3 DEF SameBucket, NoDict
  <2> QED
    BY <1>6, <2>1, <2>2, InBucketStep
<1>7. pc'["reporter"] = "clear" => Counter \in items'
  <2> SUFFICES ASSUME pc'["reporter"] = "clear" PROVE Counter \in items'
    OBVIOUS
  <2>1. ASSUME NEW c \in Contexts, FlushMetric(c) PROVE Counter \in items'
    <3>1. pc["reporter"] = "items"
      BY <2>1 DEF FlushMetric
    <3>2. c = Counter
      BY <2>1, <3>1 DEF FlushMetric
    <3> QED
      BY <2>1, <3>2 DEF FlushMetric
  <2>2. CASE UNCHANGED <<pc, items>>
    BY <2>2 DEF DictsInv
  <2>3. ASSUME NEW t \in Threads, SubmitStep(t) PROVE Counter \in items'
    <3>1. CASE t = "reporter"
      <4>1. pc'[t] # "clear"
        BY <2>3, StepTaken DEF SubmitStep, Submit, Lookup, UseCached, Find, CreateBucket, GetBucket,
     SetCurrentBucket, SetCurrentMbc, Forgotten, CreateContext, ReadValue, WriteValue,
     SetLastSampleTime, Sampled
      <4> QED
        BY <3>1, <4>1
    <3>2. CASE t # "reporter"
      <4>1. pc'["reporter"] = pc["reporter"]
        BY <2>3, <3>2, StepTaken, ContextsAre DEF SubmitStep, Submit, Lookup, UseCached, Find, CreateBucket, GetBucket,
     SetCurrentBucket, SetCurrentMbc, Forgotten, CreateContext, ReadValue, WriteValue,
     SetLastSampleTime, Sampled
      <4>2. items' = items
        BY <2>3 DEF flushVars, SubmitStep, Submit, Lookup, UseCached, Find, CreateBucket, GetBucket,
     SetCurrentBucket, SetCurrentMbc, Forgotten, CreateContext, ReadValue, WriteValue,
     SetLastSampleTime
      <4> QED
        BY <4>1, <4>2 DEF DictsInv
    <3> QED
      BY <3>1, <3>2
  <2>4. ASSUME NEW c \in Contexts, ExpireMetric(c) PROVE FALSE
    BY <2>4 DEF ExpireMetric
  <2>5. CASE SkipBucket
    BY <2>2, <2>5 DEF SkipBucket
  <2>6. CASE FlushBegin \/ FlushBucket \/ FlushBucketEnd \/ ClearMetric
             \/ ResetCurrentBucket \/ ResetCurrentMbc
    <3>1. pc'["reporter"] # "clear"
      BY <2>6, StepTaken, ContextsAre DEF FlushBegin, FlushBucket, FlushBucketEnd, ClearMetric,
         ResetCurrentBucket, ResetCurrentMbc
    <3> QED
      BY <3>1
  <2>7. CASE Tick \/ UNCHANGED vars
    BY <2>2, <2>7 DEF Tick, vars, flushVars
  <2> QED
    BY <2>1, <2>3, <2>4, <2>5, <2>6, <2>7 DEF Next, Flush
<1> QED
  BY <1>3, <1>4, <1>5, <1>6, <1>7 DEF DictsInv, Sampling

-----------------------------------------------------------------------------
(* Points *)

\* What the other thread does is not the server's step.
LEMMA OtherStep ==
    ASSUME TypeInv, [Next]_vars, ~SubmitStep("server")
    PROVE  /\ pc'["server"] = pc["server"] /\ mbc'["server"] = mbc["server"]
           /\ sum'["server"] = sum["server"] /\ stamp'["server"] = stamp["server"]
           /\ received' = received /\ submitted' = submitted
<1>1. /\ mbc \in [Threads -> Dicts] /\ sum \in [Threads -> SUBSET Points]
      /\ stamp \in [Threads -> Times]
  BY DEF TypeInv, DictsTyped, ValuesTyped, TimesTyped
<1>2. "server" \in Threads /\ "reporter" \in Threads /\ Threads = {"server", "reporter"}
  BY ContextsAre
<1>3. CASE SubmitStep("reporter")
  <2>1. pc'["server"] = pc["server"]
    BY <1>2, <1>3, StepTaken DEF SubmitStep, Submit, Lookup, UseCached, Find, CreateBucket, GetBucket,
     SetCurrentBucket, SetCurrentMbc, Forgotten, CreateContext, ReadValue, WriteValue,
     SetLastSampleTime, Sampled
  <2>2. mbc'["server"] = mbc["server"]
    BY <1>1, <1>2, <1>3 DEF submitVars, SubmitStep, Submit, Lookup, UseCached, Find, CreateBucket, GetBucket,
     SetCurrentBucket, SetCurrentMbc, Forgotten, CreateContext, ReadValue, WriteValue,
     SetLastSampleTime
  <2>3. sum'["server"] = sum["server"]
    BY <1>1, <1>2, <1>3 DEF submitVars, SubmitStep, Submit, Lookup, UseCached, Find, CreateBucket, GetBucket,
     SetCurrentBucket, SetCurrentMbc, Forgotten, CreateContext, ReadValue, WriteValue,
     SetLastSampleTime
  <2>4. stamp'["server"] = stamp["server"]
    BY <1>1, <1>2, <1>3 DEF submitVars, SubmitStep, Submit, Lookup, UseCached, Find, CreateBucket, GetBucket,
     SetCurrentBucket, SetCurrentMbc, Forgotten, CreateContext, ReadValue, WriteValue,
     SetLastSampleTime
  <2>5. received' = received /\ submitted' = submitted
    BY <1>3 DEF submitVars, SubmitStep, Submit, Lookup, UseCached, Find, CreateBucket, GetBucket,
     SetCurrentBucket, SetCurrentMbc, Forgotten, CreateContext, ReadValue, WriteValue,
     SetLastSampleTime
  <2> QED
    BY <2>1, <2>2, <2>3, <2>4, <2>5
<1>4. CASE Flush
  <2>1. pc'["server"] = pc["server"]
    BY <1>2, <1>4, StepTaken DEF Flush, FlushBegin, SkipBucket, FlushBucket, FlushBucketEnd, ClearMetric,
     ExpireMetric, FlushMetric, ResetCurrentBucket, ResetCurrentMbc
  <2>2. mbc'["server"] = mbc["server"]
    BY <1>1, <1>2, <1>4 DEF submitVars, Flush, FlushBegin, SkipBucket, FlushBucket, FlushBucketEnd, ClearMetric,
     ExpireMetric, FlushMetric, ResetCurrentBucket, ResetCurrentMbc
  <2>3. UNCHANGED <<sum, stamp, received, submitted>>
    BY <1>4 DEF submitVars, Flush, FlushBegin, SkipBucket, FlushBucket, FlushBucketEnd, ClearMetric,
     ExpireMetric, FlushMetric, ResetCurrentBucket, ResetCurrentMbc
  <2> QED
    BY <2>1, <2>2, <2>3
<1>5. CASE Tick \/ UNCHANGED vars
  BY <1>5 DEF Tick, vars, submitVars
<1> QED
  BY <1>2, <1>3, <1>4, <1>5 DEF Next

LEMMA AddingStep ==
    ASSUME TypeInv, [Next]_vars, Adding'
    PROVE  /\ Submit("server") \/ (Adding /\ UNCHANGED <<received, submitted>>)
           /\ ~WriteValue("server")
<1>1. "server" \in Threads
  BY ContextsAre
<1>2. CASE SubmitStep("server")
  <2>1. ~WriteValue("server")
    <3> SUFFICES ASSUME WriteValue("server") PROVE FALSE
      OBVIOUS
    <3>1. pc'["server"] = "last"
      BY <1>1, StepTaken DEF WriteValue
    <3> QED
      BY <3>1 DEF Adding
  <2>2. ~SetLastSampleTime("server")
    <3> SUFFICES ASSUME SetLastSampleTime("server") PROVE FALSE
      OBVIOUS
    <3>1. pc'["server"] = "idle"
      BY <1>1, StepTaken DEF SetLastSampleTime, Sampled
    <3> QED
      BY <3>1 DEF Adding
  <2>3. Submit("server") \/ (Adding /\ UNCHANGED <<received, submitted>>)
    BY <1>2, <2>1, <2>2 DEF Adding, submitVars, SubmitStep, Submit, Lookup, UseCached, Find, CreateBucket, GetBucket,
     SetCurrentBucket, SetCurrentMbc, Forgotten, CreateContext, ReadValue, WriteValue,
     SetLastSampleTime
  <2> QED
    BY <2>1, <2>3
<1>3. CASE ~SubmitStep("server")
  BY <1>3, OtherStep DEF Adding, SubmitStep
<1> QED
  BY <1>2, <1>3

\* What becomes of the counter of a dict.
CounterKept(d) ==
    d \in 1..Len(dicts) /\ Counter \in DOMAIN dicts[d] /\ dicts'[d][Counter] = dicts[d][Counter]
CounterChanged(d, sampled, last) ==
    /\ d \in 1..Len(dicts) /\ Counter \in DOMAIN dicts[d]
    /\ dicts'[d][Counter].points = sampled /\ dicts'[d][Counter].last = last
CounterWritten(d) ==
    \/ WriteValue("server") /\ CounterChanged(d, sum["server"] \cup {received}, dicts[d][Counter].last)
    \/ SetLastSampleTime("server") /\ CounterChanged(d, dicts[d][Counter].points, now)

LEMMA CounterStep ==
    ASSUME TypeInv, DictsInv, [Next]_vars, NEW d \in 1..Len(dicts'), Counter \in DOMAIN dicts'[d]
    PROVE  \/ CounterKept(d)
           \/ /\ CreateContext("server") /\ d = mbc["server"] /\ Counter \notin DOMAIN dicts[d]
              /\ dicts'[d][Counter] = NewMetric
           \/ CounterWritten(d) /\ d = mbc["server"]
           \/ ClearMetric /\ d = mbc["reporter"] /\ CounterChanged(d, {}, dicts[d][Counter].last)
<1>1. /\ dicts \in Seq(MetricDicts) /\ mbc \in [Threads -> Dicts] /\ Len(dicts) \in Nat
      /\ sum \in [Threads -> SUBSET Points]
  BY DEF TypeInv, DictsTyped, ValuesTyped
<1>2. ASSUME NEW t \in Threads, Sampling(t)
      PROVE  mbc[t] \in 1..Len(dicts) /\ Context(t) \in DOMAIN dicts[mbc[t]]
  <2>1. mbc[t] # NoDict /\ Context(t) \in DOMAIN dicts[mbc[t]]
    BY <1>2 DEF DictsInv
  <2> QED
    BY <1>1, <2>1 DEF Dicts, NoDict
<1>3. CASE UNCHANGED dicts
  BY <1>3 DEF CounterKept
<1>4. ASSUME NEW t \in Threads, CreateBucket(t) PROVE CounterKept(d)
  <2>1. /\ Len(dicts') = Len(dicts) + 1 /\ DOMAIN dicts'[Len(dicts) + 1] = {}
        /\ \A e \in 1..Len(dicts) : dicts'[e] = dicts[e]
    BY <1>1, <1>4, CreateBucketDicts
  <2> QED
    BY <1>1, <2>1 DEF CounterKept
<1>5. \A t \in Threads : (t = "server" /\ Context(t) = Counter) \/ Context(t) # Counter
  BY ContextsAre
<1>6. ASSUME NEW t \in Threads, CreateContext(t)
      PROVE  \/ CounterKept(d)
             \/ /\ t = "server" /\ d = mbc["server"] /\ Counter \notin DOMAIN dicts[d]
                /\ dicts'[d][Counter] = NewMetric
  <2> DEFINE m == mbc[t]
  <2>1. /\ Len(dicts') = Len(dicts)
        /\ DOMAIN dicts'[m] = DOMAIN dicts[m] \cup {Context(t)}
        /\ \A c \in DOMAIN dicts[m] : dicts'[m][c] = dicts[m][c]
        /\ Context(t) \notin DOMAIN dicts[m] => dicts'[m][Context(t)] = NewMetric
        /\ \A e \in 1..Len(dicts) : e # m => dicts'[e] = dicts[e]
    BY <1>1, <1>6, CreateContextDicts
  <2>2. t = "server" => m = mbc["server"]
    OBVIOUS
  <2> HIDE DEF m
  <2> QED
    BY <1>1, <1>5, <2>1, <2>2 DEF CounterKept
<1>7. ASSUME NEW t \in Threads, WriteValue(t)
      PROVE  CounterKept(d) \/ (CounterWritten(d) /\ d = mbc["server"])
  <2> DEFINE m == mbc[t]
  <2>1. m \in 1..Len(dicts) /\ Context(t) \in DOMAIN dicts[m]
    BY <1>2, <1>7 DEF WriteValue, Sampling
  <2>2. sum[t] \in SUBSET Points
    BY <1>1
  <2>3. t = "server" => received \in Points
    BY SMTT(30), <1>7, Bounds DEF TypeInv, PointsTyped, TimesTyped, Adding, WriteValue
  <2>4. /\ Len(dicts') = Len(dicts) /\ DOMAIN dicts'[m] = DOMAIN dicts[m]
        /\ dicts'[m][Context(t)].points = IF t = "server" THEN sum[t] \cup {received} ELSE {}
        /\ dicts'[m][Context(t)].last = dicts[m][Context(t)].last
        /\ \A c \in DOMAIN dicts[m] : c # Context(t) => dicts'[m][c] = dicts[m][c]
        /\ \A e \in 1..Len(dicts) : e # m => dicts'[e] = dicts[e]
    BY <1>1, <1>7, <2>1, <2>2, <2>3, WriteValueDicts
  <2>5. t = "server" => m = mbc["server"] /\ WriteValue("server")
    BY <1>7
  <2> HIDE DEF m
  <2> QED
    BY <1>1, <1>5, <2>1, <2>4, <2>5 DEF CounterKept, CounterWritten, CounterChanged
<1>8. ASSUME NEW t \in Threads, SetLastSampleTime(t)
      PROVE  CounterKept(d) \/ (CounterWritten(d) /\ d = mbc["server"])
  <2> DEFINE m == mbc[t]
  <2>1. m \in 1..Len(dicts) /\ Context(t) \in DOMAIN dicts[m]
    BY <1>2, <1>8 DEF SetLastSampleTime, Sampling
  <2>2. now \in Times
    BY Bounds DEF TypeInv, TimesTyped
  <2>3. /\ Len(dicts') = Len(dicts) /\ DOMAIN dicts'[m] = DOMAIN dicts[m]
        /\ dicts'[m][Context(t)].points = dicts[m][Context(t)].points
        /\ dicts'[m][Context(t)].last = now
        /\ \A c \in DOMAIN dicts[m] : c # Context(t) => dicts'[m][c] = dicts[m][c]
        /\ \A e \in 1..Len(dicts) : e # m => dicts'[e] = dicts[e]
    BY <1>1, <1>8, <2>1, <2>2, LastSampleDicts
  <2>4. t = "server" => m = mbc["server"] /\ SetLastSampleTime("server")
    BY <1>8
  <2> HIDE DEF m
  <2> QED
    BY <1>1, <1>5, <2>1, <2>3, <2>4 DEF CounterKept, CounterWritten, CounterChanged
<1>9. CASE ClearMetric
  <2> DEFINE m == mbc["reporter"]
  <2>1. m \in 1..Len(dicts) /\ Counter \in DOMAIN dicts[m]
    BY <1>9, BucketFlushed DEF ClearMetric, DictsInv, InBucket
  <2>2. /\ Len(dicts') = Len(dicts) /\ DOMAIN dicts'[m] = DOMAIN dicts[m]
        /\ dicts'[m][Counter].points = {} /\ dicts'[m][Counter].last = dicts[m][Counter].last
        /\ \A e \in 1..Len(dicts) : e # m => dicts'[e] = dicts[e]
    BY <1>1, <1>9, <2>1, ClearMetricDicts
  <2>3. CounterKept(d) \/ (d = m /\ CounterChanged(d, {}, dicts[d][Counter].last))
    <3> HIDE DEF m
    <3> QED
      BY <1>1, <2>1, <2>2 DEF CounterKept, CounterChanged
  <2> QED
    BY <1>9, <2>3
<1>10. ASSUME NEW t \in Threads, SubmitStep(t)
       PROVE  \/ UNCHANGED dicts
              \/ CreateBucket(t) \/ CreateContext(t) \/ WriteValue(t) \/ SetLastSampleTime(t)
  BY <1>10 DEF SubmitStep, Submit, Lookup, UseCached, Find, GetBucket,
     SetCurrentBucket, SetCurrentMbc, Forgotten, ReadValue, shared
<1>11. CASE Flush
  <2>1. ClearMetric \/ UNCHANGED dicts
    BY <1>11 DEF Flush, FlushBegin, SkipBucket, FlushBucket, FlushBucketEnd,
     ExpireMetric, FlushMetric, ResetCurrentBucket, ResetCurrentMbc, shared
  <2> QED
    BY <1>3, <1>9, <2>1
<1>12. Tick \/ UNCHANGED vars => UNCHANGED dicts
  BY DEF Tick, vars, shared
<1> QED
  BY <1>3, <1>4, <1>6, <1>7, <1>8, <1>10, <1>11, <1>12 DEF Next

\* The points of the counter of a dict are those it had, but for the point that the
\* server adds.
LEMMA HoldsStep ==
    ASSUME TypeInv, DictsInv, [Next]_vars, NEW d \in 1..Len(dicts'), NEW p, Holds(d, p)'
    PROVE  \/ d \in 1..Len(dicts) /\ Holds(d, p)
           \/ WriteValue("server") /\ d = mbc["server"] /\ p \in sum["server"] \cup {received}
<1>1. Counter \in DOMAIN dicts'[d] /\ p \in dicts'[d][Counter].points
  BY DEF Holds
<1>2. NewMetric.points = {}
  BY DEF NewMetric
<1> QED
  BY <1>1, <1>2, CounterStep DEF Holds, CounterKept, CounterWritten, CounterChanged

\* A dict keeps its points, unless a flush clears them or the server writes others.
LEMMA HoldsKept ==
    ASSUME TypeInv, DictsInv, [Next]_vars, NEW d \in 1..Len(dicts), NEW p, Holds(d, p)
    PROVE  \/ Holds(d, p)'
           \/ WriteValue("server") /\ d = mbc["server"] /\ p \notin sum["server"] \cup {received}
           \/ ClearMetric /\ d = mbc["reporter"]
<1>1. d \in 1..Len(dicts') /\ Counter \in DOMAIN dicts'[d]
  BY DictsGrow DEF Holds, Grown
<1> QED
  BY <1>1, CounterStep DEF Holds, CounterKept, CounterWritten, CounterChanged

LEMMA CarriesStep ==
    ASSUME TypeInv, DictsInv, PointsInv, [Next]_vars, NEW d \in Dicts', NEW p, Carries(d, p)'
    PROVE  \/ d \in Dicts /\ Carries(d, p)
           \/ WriteValue("server") /\ d = mbc["server"] /\ d # NoDict /\ p = received
<1>1. /\ mbc \in [Threads -> Dicts] /\ Len(dicts) \in Nat /\ sum \in [Threads -> SUBSET Points]
      /\ "server" \in Threads /\ Context("server") = Counter
  BY ContextsAre DEF TypeInv, DictsTyped, ValuesTyped
<1>2. CASE Holds(d, p)'
  <2>1. d \in 1..Len(dicts')
    BY <1>2 DEF Holds
  <2>2. CASE d \in 1..Len(dicts) /\ Holds(d, p)
    BY <2>2 DEF Carries, Dicts
  <2>3. CASE WriteValue("server") /\ d = mbc["server"] /\ p \in sum["server"] \cup {received}
    <3>1. d \in Dicts /\ d # NoDict
      BY <1>1, <2>3 DEF WriteValue, Sampling, DictsInv
    <3> QED
      BY <2>3, <3>1 DEF Carries
  <2> QED
    BY <1>2, <2>1, <2>2, <2>3, HoldsStep
<1>3. CASE d = mbc'["server"] /\ p \in sum'["server"]
  <2>1. CASE ~SubmitStep("server")
    BY <1>1, <1>3, <2>1, OtherStep DEF Carries
  <2>2. CASE ReadValue("server")
    <3>1. mbc'["server"] = mbc["server"] /\ sum'["server"] = dicts[mbc["server"]][Counter].points
      BY <1>1, <2>2 DEF ReadValue
    <3>2. mbc["server"] # NoDict /\ Counter \in DOMAIN dicts[mbc["server"]] /\ mbc["server"] \in Dicts
      BY <1>1, <2>2 DEF ReadValue, Sampling, DictsInv
    <3> QED
      BY <1>1, <1>3, <3>1, <3>2 DEF Carries, Holds, Dicts, NoDict
  <2>3. CASE WriteValue("server")
    BY <1>1, <1>3, <2>3 DEF WriteValue
  <2>4. CASE SubmitStep("server") /\ ~ReadValue("server") /\ ~WriteValue("server")
    <3>1. sum'["server"] = sum["server"]
      BY <2>4 DEF submitVars, SubmitStep, Submit, Lookup, UseCached, Find, CreateBucket, GetBucket,
         SetCurrentBucket, SetCurrentMbc, Forgotten, CreateContext, SetLastSampleTime
    <3>2. pc["server"] = "add"
      BY <1>3, <3>1 DEF PointsInv
    <3> QED
      BY <2>4, <3>2 DEF SubmitStep, Submit, Lookup, UseCached, Find, CreateBucket, GetBucket,
         SetCurrentBucket, SetCurrentMbc, Forgotten, CreateContext, SetLastSampleTime
  <2> QED
    BY <2>1, <2>2, <2>3, <2>4
<1> QED
  BY <1>2, <1>3 DEF Carries

\* A dict whose counter was flushed is not flushed again.
LEMMA FlushableStep ==
    ASSUME TypeInv, DictsInv, [Next]_vars, NEW d \in Dicts, d # NoDict, Flushable(d)'
    PROVE  Flushable(d)
<1>1. /\ metricByBucket \in [Buckets -> Dicts] /\ mbc \in [Threads -> Dicts] /\ Len(dicts) \in Nat
  BY DEF TypeInv, DictsTyped
<1>2. CASE FlushBucket
  <2>1. metricByBucket' = metricByBucket /\ ~InBucket
    BY <1>2 DEF FlushBucket, shared, InBucket
  <2>2. mbc'["reporter"] = metricByBucket[Earliest] /\ Earliest \in Buckets
    BY <1>1, <1>2, ContextsAre, BucketFound DEF FlushBucket
  <2> QED
    BY <2>1, <2>2 DEF Flushable
<1>3. CASE SameBucket /\ InBucket'
  <2>1. CASE d = mbc["reporter"]
    <3>1. pc'["reporter"] = "items" /\ Counter \in items'
      BY <1>3, <2>1 DEF SameBucket, Flushable
    <3>2. pc["reporter"] = "items"
      <4> SUFFICES ASSUME pc["reporter"] = "clear" PROVE FALSE
        BY <1>3 DEF SameBucket, InBucket
      <4>1. ClearMetric
        <5>1. ASSUME NEW t \in Threads, SubmitStep(t) PROVE pc'["reporter"] = "clear"
          <6>1. t # "reporter"
            BY <5>1 DEF SubmitStep, Submit, Lookup, UseCached, Find, CreateBucket, GetBucket,
     SetCurrentBucket, SetCurrentMbc, Forgotten, CreateContext, ReadValue, WriteValue,
     SetLastSampleTime
          <6> QED
            BY <5>1, <6>1, StepTaken, ContextsAre DEF SubmitStep, Submit, Lookup, UseCached, Find, CreateBucket, GetBucket,
     SetCurrentBucket, SetCurrentMbc, Forgotten, CreateContext, ReadValue, WriteValue,
     SetLastSampleTime, Sampled
        <5>2. Flush => ClearMetric
          BY DEF Flush, FlushBegin, SkipBucket, FlushBucket, FlushBucketEnd, ClearMetric,
     ExpireMetric, FlushMetric, ResetCurrentBucket, ResetCurrentMbc
        <5>3. Tick \/ UNCHANGED vars => pc'["reporter"] = "clear"
          BY DEF Tick, vars
        <5> QED
          BY <3>1, <5>1, <5>2, <5>3 DEF Next
      <4> QED
        BY <3>1, <4>1 DEF ClearMetric
    <3> QED
      BY <1>3, <2>1, <3>1, <3>2 DEF SameBucket, Flushable
  <2>2. CASE d # mbc["reporter"]
    <3>1. PICK b \in Buckets : metricByBucket'[b] = d
      BY <1>3, <2>2 DEF SameBucket, Flushable
    <3>2. metricByBucket[b] = d
      BY <1>1, <3>1, BucketsStep DEF Dicts, NoDict
    <3> QED
      BY <2>2, <3>2 DEF Flushable
  <2> QED
    BY <2>1, <2>2
<1>4. CASE ~InBucket'
  <2>1. PICK b \in Buckets : metricByBucket'[b] = d
    BY <1>4 DEF Flushable
  <2>2. metricByBucket[b] = d /\ (FlushBucketEnd => b # Earliest)
    <3>1. FlushBucketEnd => metricByBucket' = [metricByBucket EXCEPT ![Earliest] = NoDict]
      BY DEF FlushBucketEnd, BucketDeleted
    <3> QED
      BY <1>1, <2>1, <3>1, BucketsStep DEF Dicts, NoDict
  <2>3. CASE ~InBucket
    BY <2>2, <2>3 DEF Flushable
  <2>4. CASE InBucket
    <3>1. FlushBucketEnd
      <4>1. ASSUME NEW t \in Threads, SubmitStep(t) PROVE FALSE
        <5>1. t # "reporter"
          BY <2>4, <4>1 DEF InBucket, SubmitStep, Submit, Lookup, UseCached, Find, CreateBucket, GetBucket,
     SetCurrentBucket, SetCurrentMbc, Forgotten, CreateContext, ReadValue, WriteValue,
     SetLastSampleTime
        <5>2. pc'["reporter"] = pc["reporter"]
          BY <4>1, <5>1, StepTaken, ContextsAre DEF SubmitStep, Submit, Lookup, UseCached, Find, CreateBucket, GetBucket,
     SetCurrentBucket, SetCurrentMbc, Forgotten, CreateContext, ReadValue, WriteValue,
     SetLastSampleTime, Sampled
        <5> QED
          BY <1>4, <2>4, <5>2 DEF InBucket
      <4>2. CASE Flush
        <5>1. ClearMetric => InBucket'
          BY StepTaken, ContextsAre DEF ClearMetric, InBucket
        <5>2. ASSUME NEW c \in Contexts, ExpireMetric(c) PROVE InBucket'
          BY <2>4, <5>2 DEF ExpireMetric, InBucket
        <5>3. ASSUME NEW c \in Contexts, FlushMetric(c) PROVE InBucket'
          <6>1. CASE c = Counter
            BY <5>3, <6>1, StepTaken, ContextsAre DEF FlushMetric, InBucket
          <6>2. CASE c # Counter
            BY <2>4, <5>3, <6>2 DEF FlushMetric, InBucket
          <6> QED
            BY <6>1, <6>2
        <5>4. ~FlushBegin /\ ~SkipBucket /\ ~FlushBucket /\ ~ResetCurrentBucket /\ ~ResetCurrentMbc
          BY <2>4 DEF InBucket, FlushBegin, SkipBucket, FlushBucket, ResetCurrentBucket, ResetCurrentMbc
        <5> QED
          BY <1>4, <4>2, <5>1, <5>2, <5>3, <5>4 DEF Flush
      <4>3. CASE Tick \/ UNCHANGED vars
        BY <1>4, <2>4, <4>3 DEF Tick, vars, InBucket
      <4> QED
        BY <4>1, <4>2, <4>3 DEF Next
    <3>2. d # mbc["reporter"]
      BY <2>2, <2>4, <3>1 DEF DictsInv
    <3> QED
      BY <2>2, <3>2 DEF Flushable
  <2> QED
    BY <2>3, <2>4
<1> QED
  BY <1>2, <1>3, <1>4, InBucketStep

\* What a flush reports are the points of the dict it flushes.
LEMMA ReportedStep ==
    ASSUME TypeInv, DictsInv, [Next]_vars
    PROVE  \/ UNCHANGED <<reported, twice>>
           \/ /\ FlushMetric(Counter) /\ ~Flushable(mbc["reporter"])' /\ Flushable(mbc["reporter"])
              /\ mbc["reporter"] \in Dicts
              /\ \A p \in Points :
                    /\ reported'[p] # None => reported[p] # None \/ Holds(mbc["reporter"], p)
                    /\ ~Holds(mbc["reporter"], p) => reported'[p] = reported[p]
              /\ twice' => twice \/ \E p \in Points : Holds(mbc["reporter"], p) /\ reported[p] # None
<1>1. ASSUME NEW t \in Threads, SubmitStep(t) PROVE UNCHANGED <<reported, twice>>
  BY <1>1 DEF history, SubmitStep, Submit, Lookup, UseCached, Find, CreateBucket, GetBucket,
     SetCurrentBucket, SetCurrentMbc, Forgotten, CreateContext, ReadValue, WriteValue,
     SetLastSampleTime
<1>2. CASE FlushMetric(Counter)
  <2>1. InBucket /\ pc["reporter"] = "items" /\ Counter \in items
    BY <1>2 DEF FlushMetric, InBucket
  <2>2. /\ mbc["reporter"] \in 1..Len(dicts) /\ Counter \in DOMAIN dicts[mbc["reporter"]]
    BY <2>1, BucketFlushed
  <2>3. pc'["reporter"] = "clear" /\ mbc' = mbc
    BY <1>2, StepTaken, ContextsAre DEF FlushMetric, submitVars
  <2>4. /\ reported' = [p \in Points |->
               IF p \in dicts[mbc["reporter"]][Counter].points THEN Earliest ELSE reported[p]]
        /\ twice' => twice \/ \E p \in dicts[mbc["reporter"]][Counter].points : reported[p] # None
    BY <1>2 DEF FlushMetric, Flushed
  <2>5. dicts[mbc["reporter"]][Counter].points \subseteq Points
    BY <2>2, DictTyped DEF TypeInv, DictsTyped
  <2>6. \A p \in Points : Holds(mbc["reporter"], p) <=> p \in dicts[mbc["reporter"]][Counter].points
    BY <2>2 DEF Holds
  <2>7. mbc["reporter"] \in Dicts
    BY <2>2 DEF Dicts
  <2>8. \A p \in Points :
            /\ reported'[p] # None => reported[p] # None \/ Holds(mbc["reporter"], p)
            /\ ~Holds(mbc["reporter"], p) => reported'[p] = reported[p]
    BY <2>4, <2>6
  <2>9. twice' => twice \/ \E p \in Points : Holds(mbc["reporter"], p) /\ reported[p] # None
    BY <2>4, <2>5, <2>6, Zenon
  <2>10. Flushable(mbc["reporter"])
    BY <2>1 DEF Flushable
  <2>11. ~Flushable(mbc["reporter"])'
    BY <2>3 DEF Flushable, InBucket
  <2> QED
    BY <1>2, <2>7, <2>8, <2>9, <2>10, <2>11
<1>3. CASE Flush
  <2>1. ASSUME NEW c \in Contexts, FlushMetric(c), c # Counter PROVE UNCHANGED <<reported, twice>>
    BY <2>1 DEF FlushMetric
  <2>2. ASSUME NEW c \in Contexts, ExpireMetric(c) PROVE UNCHANGED <<reported, twice>>
    BY <2>2 DEF ExpireMetric
  <2>3. FlushBegin \/ SkipBucket \/ FlushBucket \/ FlushBucketEnd \/ ClearMetric
        \/ ResetCurrentBucket \/ ResetCurrentMbc => UNCHANGED <<reported, twice>>
    BY DEF history, FlushBegin, SkipBucket, FlushBucket, FlushBucketEnd, ClearMetric,
       ResetCurrentBucket, ResetCurrentMbc
  <2> QED
    BY <1>2, <1>3, <2>1, <2>2, <2>3 DEF Flush
<1>4. Tick \/ UNCHANGED vars => UNCHANGED <<reported, twice>>
  BY DEF Tick, vars, history
<1> QED
  BY <1>1, <1>3, <1>4 DEF Next

LEMMA PointsInvStep == TypeInv /\ DictsInv /\ PointsInv /\ [Next]_vars => PointsInv'
<1> SUFFICES ASSUME TypeInv, DictsInv, PointsInv, [Next]_vars PROVE PointsInv'
  OBVIOUS
<1>1. /\ received \in Nat /\ received' \in Nat /\ received <= received' /\ received' <= received + 1
      /\ twice \in BOOLEAN /\ "server" \in Threads /\ Points \subseteq Nat
      /\ reported \in [Points -> Buckets \cup {None}]
  <2>1. CASE Submit("server")
    BY <2>1, ContextsAre, Bounds DEF Submit, TypeInv, PointsTyped, ValuesTyped
  <2>2. CASE ~Submit("server")
    <3>1. received' = received
      <4>1. CASE SubmitStep("server")
        BY <2>2, <4>1 DEF submitVars, SubmitStep, Submit, Lookup, UseCached, Find, CreateBucket, GetBucket,
     SetCurrentBucket, SetCurrentMbc, Forgotten, CreateContext, ReadValue, WriteValue,
     SetLastSampleTime
      <4>2. CASE ~SubmitStep("server")
        BY <4>2, OtherStep
      <4> QED
        BY <4>1, <4>2
    <3> QED
      BY <3>1, ContextsAre, Bounds DEF TypeInv, PointsTyped, ValuesTyped
  <2> QED
    BY <2>1, <2>2
<1>2. ASSUME NEW d \in Dicts, NEW p \in Points, Carries(d, p)
      PROVE  p <= received /\ d # NoDict /\ (reported[p] # None => ~Flushable(d))
  BY <1>2 DEF PointsInv
<1>3. ASSUME NEW d \in Dicts, NEW e \in Dicts, NEW p \in Points, Carries(d, p), Carries(e, p)
      PROVE  d = e
  BY <1>3 DEF PointsInv
<1>4. Adding => reported[received] = None /\ \A d \in Dicts : ~Carries(d, received)
  BY DEF PointsInv
<1>5. ASSUME WriteValue("server") PROVE Adding /\ received \in Points /\ UNCHANGED <<received, reported>>
  BY <1>5, Bounds DEF WriteValue, Adding, history, TypeInv, PointsTyped, TimesTyped
<1>6. ~twice'
  <2>1. ~twice
    BY DEF PointsInv
  <2>2. ~(\E p \in Points : Holds(mbc["reporter"], p) /\ reported[p] # None)
        \/ ~Flushable(mbc["reporter"]) \/ mbc["reporter"] \notin Dicts
    BY <1>2 DEF Carries
  <2> QED
    BY <2>1, <2>2, ReportedStep
<1>7. ASSUME NEW p \in Points, reported'[p] # None PROVE p <= received'
  <2>1. CASE reported[p] # None
    BY <1>1, <2>1 DEF PointsInv
  <2>2. CASE mbc["reporter"] \in Dicts /\ Holds(mbc["reporter"], p)
    BY <1>1, <1>2, <2>2 DEF Carries
  <2> QED
    BY <1>7, <2>1, <2>2, ReportedStep
<1>8. ASSUME NEW d \in Dicts', NEW p \in Points, Carries(d, p)'
      PROVE  p <= received' /\ d # NoDict /\ (reported'[p] # None => ~Flushable(d)')
  <2>1. CASE d \in Dicts /\ Carries(d, p)
    <3>1. p <= received /\ d # NoDict /\ (reported[p] # None => ~Flushable(d))
      BY <1>2, <2>1
    <3>2. CASE reported[p] # None
      BY <1>1, <2>1, <3>1, <3>2, FlushableStep
    <3>3. CASE reported[p] = None /\ reported'[p] # None
      <4>1. /\ Holds(mbc["reporter"], p) /\ mbc["reporter"] \in Dicts
            /\ ~Flushable(mbc["reporter"])'
        BY <3>3, ReportedStep
      <4>2. d = mbc["reporter"]
        BY <1>3, <2>1, <4>1 DEF Carries
      <4>3. mbc'["reporter"] = mbc["reporter"]
        <5>1. FlushMetric(Counter)
          BY <3>3, ReportedStep
        <5> QED
          BY <5>1 DEF FlushMetric, submitVars
      <4>4. ~Flushable(d)'
        BY <4>1, <4>2, <4>3 DEF Flushable
      <4> QED
        BY <1>1, <3>1, <4>4
    <3> QED
      BY <1>1, <3>1, <3>2, <3>3
  <2>2. CASE WriteValue("server") /\ d = mbc["server"] /\ d # NoDict /\ p = received
    BY <1>1, <1>4, <1>5, <2>2
  <2> QED
    BY <1>8, <2>1, <2>2, CarriesStep
<1>9. ASSUME NEW d \in Dicts', NEW e \in Dicts', NEW p \in Points, Carries(d, p)', Carries(e, p)'
      PROVE  d = e
  <2>1. \/ d \in Dicts /\ Carries(d, p)
        \/ WriteValue("server") /\ d = mbc["server"] /\ p = received
    BY <1>9, CarriesStep
  <2>2. \/ e \in Dicts /\ Carries(e, p)
        \/ WriteValue("server") /\ e = mbc["server"] /\ p = received
    BY <1>9, CarriesStep
  <2> QED
    BY <1>3, <1>4, <1>5, <2>1, <2>2
<1>10. ASSUME Adding'
       PROVE  reported'[received'] = None /\ \A d \in Dicts' : ~Carries(d, received)'
  <2>1. received' \in Points
    <3>1. TypeInv'
      BY TypeStep
    <3>2. /\ received' \in Nat /\ received' <= MaxPoints[interleaved'] /\ received' # 0
          /\ interleaved' \in BOOLEAN
      BY <1>10, <3>1 DEF TypeInv, PointsTyped, TimesTyped
    <3> QED
      BY <3>2, Bounds
  <2>2. CASE Submit("server")
    <3>1. received' = received + 1 /\ UNCHANGED reported
      BY <2>2 DEF Submit, history
    <3>2. reported'[received'] = None
      <4>1. ~(received' <= received)
        BY <1>1, <3>1
      <4> QED
        BY <2>1, <3>1, <4>1 DEF PointsInv
    <3>3. ASSUME NEW d \in Dicts', Carries(d, received)' PROVE FALSE
      <4>1. ~WriteValue("server")
        BY <2>2 DEF Submit, WriteValue
      <4>2. Carries(d, received') /\ d \in Dicts
        BY <3>3, <4>1, CarriesStep
      <4> QED
        BY <1>1, <1>2, <2>1, <3>1, <4>2
    <3> QED
      BY <3>2, <3>3
  <2>3. CASE Adding /\ received' = received
    <3>1. ~WriteValue("server")
      BY <1>10, AddingStep
    <3>2. reported'[received'] = None
      <4>1. mbc["reporter"] \in Dicts => ~Holds(mbc["reporter"], received)
        BY <1>4, <2>3 DEF Carries
      <4> QED
        BY <1>4, <2>1, <2>3, <4>1, ReportedStep
    <3>3. ASSUME NEW d \in Dicts', Carries(d, received)' PROVE FALSE
      BY <1>4, <2>3, <3>1, <3>3, CarriesStep
    <3> QED
      BY <3>2, <3>3
  <2> QED
    BY <1>10, <2>2, <2>3, AddingStep
<1>11. ASSUME sum'["server"] # {} PROVE pc'["server"] = "add"
  <2>0. sum \in [Threads -> SUBSET Points]
    BY DEF TypeInv, ValuesTyped
  <2>1. CASE ~SubmitStep("server")
    BY <1>11, <2>1, OtherStep DEF PointsInv
  <2>2. CASE ReadValue("server")
    BY <1>1, <2>2, StepTaken DEF ReadValue
  <2>3. CASE WriteValue("server")
    BY <1>1, <1>11, <2>0, <2>3 DEF WriteValue
  <2>4. CASE SubmitStep("server") /\ ~ReadValue("server") /\ ~WriteValue("server")
    <3>1. sum' = sum
      BY <2>4 DEF submitVars, SubmitStep, Submit, Lookup, UseCached, Find, CreateBucket, GetBucket,
         SetCurrentBucket, SetCurrentMbc, Forgotten, CreateContext, SetLastSampleTime
    <3>2. pc["server"] = "add"
      BY <1>11, <3>1 DEF PointsInv
    <3> QED
      BY <2>4, <3>2 DEF SubmitStep, Submit, Lookup, UseCached, Find, CreateBucket, GetBucket,
         SetCurrentBucket, SetCurrentMbc, Forgotten, CreateContext, SetLastSampleTime
  <2> QED
    BY <2>1, <2>2, <2>3, <2>4
<1> QED
  BY <1>6, <1>7, <1>8, <1>9, <1>10, <1>11 DEF PointsInv

-----------------------------------------------------------------------------
(* Taking turns *)

LEMMA SubmitFrame ==
    ASSUME TypeInv, NEW t \in Threads, SubmitStep(t)
    PROVE  /\ UNCHANGED <<interleaved, now, wake, lastSampleTime>>
           /\ UNCHANGED <<cutoff, expiry, todo, items, notSampled, lastFlushCutoff>>
           /\ UNCHANGED <<reported, twice, values>> /\ Earliest' = Earliest
           /\ \A u \in Threads : u # t =>
                 pc'[u] = pc[u] /\ mbc'[u] = mbc[u] /\ stamp'[u] = stamp[u] /\ sum'[u] = sum[u]
           /\ stamp'[t] = IF Submit(t) THEN now ELSE stamp[t]
           /\ pc[t] = "idle" \/ Submitting(t)
           /\ pc'[t] = "idle" \/ Submitting(t)' \/ (t = "reporter" /\ pc'[t] = "flush")
           /\ t = "reporter" => received' = received /\ submitted' = submitted
<1>1. /\ mbc \in [Threads -> Dicts] /\ sum \in [Threads -> SUBSET Points]
      /\ stamp \in [Threads -> Times]
  BY DEF TypeInv, DictsTyped, ValuesTyped, TimesTyped
<1>2. UNCHANGED <<interleaved, now, wake, lastSampleTime, flushVars, history>>
  BY DEF SubmitStep, Submit, Lookup, UseCached, Find, CreateBucket, GetBucket,
     SetCurrentBucket, SetCurrentMbc, Forgotten, CreateContext, ReadValue, WriteValue,
     SetLastSampleTime
<1>3. ASSUME NEW u \in Threads, u # t
      PROVE  pc'[u] = pc[u] /\ mbc'[u] = mbc[u] /\ stamp'[u] = stamp[u] /\ sum'[u] = sum[u]
  <2>1. pc'[u] = pc[u]
    BY <1>3, StepTaken DEF SubmitStep, Submit, Lookup, UseCached, Find, CreateBucket, GetBucket,
     SetCurrentBucket, SetCurrentMbc, Forgotten, CreateContext, ReadValue, WriteValue,
     SetLastSampleTime, Sampled
  <2>2. mbc'[u] = mbc[u]
    BY <1>1, <1>3 DEF submitVars, SubmitStep, Submit, Lookup, UseCached, Find, CreateBucket, GetBucket,
     SetCurrentBucket, SetCurrentMbc, Forgotten, CreateContext, ReadValue, WriteValue,
     SetLastSampleTime
  <2>3. stamp'[u] = stamp[u]
    BY <1>1, <1>3 DEF submitVars, SubmitStep, Submit, Lookup, UseCached, Find, CreateBucket, GetBucket,
     SetCurrentBucket, SetCurrentMbc, Forgotten, CreateContext, ReadValue, WriteValue,
     SetLastSampleTime
  <2>4. sum'[u] = sum[u]
    BY <1>1, <1>3 DEF submitVars, SubmitStep, Submit, Lookup, UseCached, Find, CreateBucket, GetBucket,
     SetCurrentBucket, SetCurrentMbc, Forgotten, CreateContext, ReadValue, WriteValue,
     SetLastSampleTime
  <2> QED
    BY <2>1, <2>2, <2>3, <2>4
<1>4. stamp'[t] = IF Submit(t) THEN now ELSE stamp[t]
  BY <1>1 DEF submitVars, SubmitStep, Submit, Lookup, UseCached, Find, CreateBucket, GetBucket,
     SetCurrentBucket, SetCurrentMbc, Forgotten, CreateContext, ReadValue, WriteValue,
     SetLastSampleTime
<1>5. pc[t] = "idle" \/ Submitting(t)
  BY DEF Submitting, Looking, HasDict, SubmitStep, Submit, Lookup, UseCached, Find, CreateBucket, GetBucket,
     SetCurrentBucket, SetCurrentMbc, Forgotten, CreateContext, ReadValue, WriteValue,
     SetLastSampleTime
<1>6. pc'[t] = "idle" \/ Submitting(t)' \/ (t = "reporter" /\ pc'[t] = "flush")
  <2>1. t = "server" \/ t = "reporter"
    BY ContextsAre
  <2>2. pc'[t] \in {"idle", "lookup", "cached", "find", "create", "get", "setbucket", "setmbc",
                    "context", "sample", "add", "last"}
        \/ (t # "server" /\ pc'[t] = "flush")
    BY StepTaken DEF SubmitStep, Submit, Lookup, UseCached, Find, CreateBucket, GetBucket,
     SetCurrentBucket, SetCurrentMbc, Forgotten, CreateContext, ReadValue, WriteValue,
     SetLastSampleTime, Sampled
  <2> QED
    BY <2>1, <2>2 DEF Submitting, Looking, HasDict
<1>7. t = "reporter" => received' = received /\ submitted' = submitted
  BY DEF submitVars, SubmitStep, Submit, Lookup, UseCached, Find, CreateBucket, GetBucket,
     SetCurrentBucket, SetCurrentMbc, Forgotten, CreateContext, ReadValue, WriteValue,
     SetLastSampleTime
<1> QED
  BY <1>2, <1>3, <1>4, <1>5, <1>6, <1>7 DEF flushVars, history, Earliest

LEMMA FlushFrame ==
    ASSUME TypeInv, Flush
    PROVE  /\ UNCHANGED <<interleaved, now, stamp, sum, received, submitted>>
           /\ pc'["server"] = pc["server"] /\ mbc'["server"] = mbc["server"]
           /\ pc["reporter"] \in FlushSteps
           /\ pc'["reporter"] \in {"buckets", "items", "clear", "reset", "idle"}
<1>1. mbc \in [Threads -> Dicts] /\ "reporter" \in Threads /\ "server" \in Threads
  BY ContextsAre DEF TypeInv, DictsTyped
<1>2. UNCHANGED <<interleaved, now, stamp, sum, received, submitted>>
  BY DEF submitVars, Flush, FlushBegin, SkipBucket, FlushBucket, FlushBucketEnd, ClearMetric,
     ExpireMetric, FlushMetric, ResetCurrentBucket, ResetCurrentMbc
<1>3. pc'["server"] = pc["server"]
  BY <1>1, StepTaken DEF Flush, FlushBegin, SkipBucket, FlushBucket, FlushBucketEnd, ClearMetric,
     ExpireMetric, FlushMetric, ResetCurrentBucket, ResetCurrentMbc
<1>4. mbc'["server"] = mbc["server"]
  BY <1>1 DEF submitVars, Flush, FlushBegin, SkipBucket, FlushBucket, FlushBucketEnd, ClearMetric,
     ExpireMetric, FlushMetric, ResetCurrentBucket, ResetCurrentMbc
<1>5. pc["reporter"] \in FlushSteps
  BY DEF FlushSteps, Flush, FlushBegin, SkipBucket, FlushBucket, FlushBucketEnd, ClearMetric,
     ExpireMetric, FlushMetric, ResetCurrentBucket, ResetCurrentMbc
<1>6. pc'["reporter"] \in {"buckets", "items", "clear", "reset", "idle"}
  BY <1>1, StepTaken DEF Flush, FlushBegin, SkipBucket, FlushBucket, FlushBucketEnd, ClearMetric,
     ExpireMetric, FlushMetric, ResetCurrentBucket, ResetCurrentMbc
<1> QED
  BY <1>2, <1>3, <1>4, <1>5, <1>6

LEMMA TickFrame ==
    ASSUME Tick \/ UNCHANGED vars
    PROVE  /\ UNCHANGED <<interleaved, wake, lastSampleTime, pc, dicts, metricByBucket, currentBucket,
                          currentMbc, stamp, mbc, sum, received, submitted>>
           /\ UNCHANGED <<cutoff, expiry, todo, items, notSampled, lastFlushCutoff>>
           /\ UNCHANGED <<reported, twice, values>> /\ Earliest' = Earliest
           /\ now' = now \/ (now' = now + 1 /\ now < wake + MaxDelay)
  BY DEF Tick, vars, shared, submitVars, flushVars, history, Earliest

\* Whose turn it is.
LEMMA TurnOf ==
    ASSUME TypeInv, ~interleaved, TurnsTaken
    PROVE  /\ \A t, u \in Threads : SubmitStep(t) /\ u # t => pc[u] = "idle"
           /\ Flush => pc["server"] = "idle"
           /\ Submitting("server") => pc["reporter"] = "idle"
           /\ Submitting("reporter") \/ Flushing => pc["server"] = "idle"
<1>1. Flushing => pc["reporter"] # "idle"
  BY DEF Flushing
<1>2. \A t \in Threads : Submitting(t) => pc[t] # "idle"
  BY DEF Submitting, Looking, HasDict
<1>3. ASSUME NEW t \in Threads, NEW u \in Threads, SubmitStep(t), u # t PROVE pc[u] = "idle"
  <2>1. CASE Submit(t)
    BY <1>3, <2>1 DEF Submit
  <2>2. CASE ~Submit(t)
    <3>1. pc[t] # "idle"
      BY <1>3, <2>2 DEF SubmitStep, Submit, Lookup, UseCached, Find, CreateBucket, GetBucket,
     SetCurrentBucket, SetCurrentMbc, Forgotten, CreateContext, ReadValue, WriteValue,
     SetLastSampleTime
    <3> QED
      BY <1>3, <3>1, ContextsAre DEF TurnsTaken
  <2> QED
    BY <2>1, <2>2
<1>4. Flush => pc["server"] = "idle"
  BY FlushFrame DEF TurnsTaken, FlushSteps
<1> QED
  BY <1>1, <1>2, <1>3, <1>4, ContextsAre DEF TurnsTaken

\* The buckets and the times, as numbers.
LEMMA Numbers ==
    ASSUME TypeInv
    PROVE  /\ now \in Nat /\ now \in Times /\ wake \in Nat /\ expiry \in Int
           /\ \A t \in Threads : stamp[t] \in Nat /\ Bucket(t) \in Buckets /\ Bucket(t) <= stamp[t]
           /\ calculateBucketStart(now) \in Buckets /\ calculateBucketStart(now) <= now
           /\ Buckets \subseteq Nat /\ cutoff \in Nat /\ lastFlushCutoff \in Nat
           /\ todo # {} => Earliest \in todo /\ Earliest \in Buckets
           /\ \A b \in Buckets : DictOf(b) \in Dicts /\ (DictOf(b) # NoDict => DictOf(b) \in 1..Len(dicts))
           /\ Len(dicts) \in Nat
<1>1. /\ now \in Nat /\ now \in Times /\ wake \in Nat /\ expiry \in Int
      /\ cutoff \in Buckets /\ lastFlushCutoff \in Buckets /\ todo \subseteq Buckets
      /\ stamp \in [Threads -> Times] /\ metricByBucket \in [Buckets -> Dicts] /\ Len(dicts) \in Nat
  BY Bounds DEF TypeInv, TimesTyped, FlushTyped, DictsTyped
<1>2. ASSUME NEW t \in Threads
      PROVE  stamp[t] \in Nat /\ Bucket(t) \in Buckets /\ Bucket(t) <= stamp[t]
  <2>1. stamp[t] \in Times /\ stamp[t] \in Nat
    BY <1>1, Bounds
  <2> QED
    BY <2>1, BucketOf, BucketsAre DEF Bucket
<1>3. calculateBucketStart(now) \in Buckets /\ calculateBucketStart(now) <= now
  BY <1>1, BucketOf, BucketsAre
<1>4. \A b \in Buckets : DictOf(b) \in Dicts /\ (DictOf(b) # NoDict => DictOf(b) \in 1..Len(dicts))
  BY <1>1 DEF DictOf, Dicts, NoDict
<1> QED
  BY <1>1, <1>2, <1>3, <1>4, BucketsAre, EarliestIsThere

LEMMA DictOfStep ==
    ASSUME TypeInv, DictsInv, [Next]_vars, NEW b \in Buckets
    PROVE  \/ DictOf(b)' = DictOf(b)
           \/ \E t \in Threads : CreateBucket(t) /\ b = Bucket(t) /\ DictOf(b)' = Len(dicts) + 1
           \/ FlushBucketEnd /\ b = Earliest /\ DictOf(b)' = NoDict
<1>1. metricByBucket \in [Buckets -> Dicts]
  BY DEF TypeInv, DictsTyped
<1> QED
  BY <1>1, BucketsStep DEF DictOf

\* How a flush goes on: its cutoff is set when it begins, its first bucket is skipped or
\* flushed, and it ends when there is none left.
LEMMA FlushingStep ==
    ASSUME TypeInv, [Next]_vars, Flushing'
    PROVE  \/ FlushBegin
           \/ Flushing /\ cutoff' = cutoff /\ expiry' = expiry
<1>1. ASSUME NEW t \in Threads, SubmitStep(t) PROVE Flushing /\ cutoff' = cutoff /\ expiry' = expiry
  <2>1. t # "reporter"
    BY <1>1, SubmitFrame DEF Flushing, Submitting, Looking, HasDict
  <2> QED
    BY <1>1, <2>1, SubmitFrame, ContextsAre DEF Flushing
<1>2. CASE Flush /\ ~FlushBegin
  BY <1>2 DEF Flushing, Flush, FlushBegin, SkipBucket, FlushBucket, FlushBucketEnd, ClearMetric,
     ExpireMetric, FlushMetric, ResetCurrentBucket, ResetCurrentMbc, flushVars
<1>3. CASE Tick \/ UNCHANGED vars
  BY <1>3, TickFrame DEF Flushing
<1> QED
  BY <1>1, <1>2, <1>3 DEF Next, Flush

LEMMA TurnsTakenStep ==
    ASSUME Inv, ~interleaved, Turns, [Next]_vars PROVE TurnsTaken'
<1> USE DEF Inv
<1>1. TurnsTaken /\ TypeInv' /\ lastFlushCutoff <= calculateBucketStart(now)
  BY TypeStep DEF Turns, TurnsTaken
<1>2. now <= now' /\ now \in Nat /\ now' \in Nat
  <2>1. now \in Nat
    BY Numbers
  <2>2. ASSUME NEW t \in Threads, SubmitStep(t) PROVE now' = now
    BY <2>2, SubmitFrame
  <2> QED
    BY <2>1, <2>2, FlushFrame, TickFrame DEF Next
<1>3. calculateBucketStart(now) <= calculateBucketStart(now')
  BY <1>2, LaterBucket
<1>4. calculateBucketStart(now) \in Nat /\ calculateBucketStart(now') \in Nat
  BY <1>2, BucketOf
<1>5. lastFlushCutoff' = lastFlushCutoff
      \/ (ResetCurrentMbc /\ Flushing /\ lastFlushCutoff' = cutoff /\ todo = {}
          /\ lastFlushCutoff <= cutoff /\ cutoff <= calculateBucketStart(now))
  <2>1. ASSUME NEW t \in Threads, SubmitStep(t) PROVE lastFlushCutoff' = lastFlushCutoff
    BY <2>1, SubmitFrame
  <2>2. CASE ResetCurrentMbc
    BY <1>1, <2>2 DEF ResetCurrentMbc, Flushing, TurnsTaken
  <2>3. CASE Flush /\ ~ResetCurrentMbc
    BY <2>3 DEF Flush, FlushBegin, SkipBucket, FlushBucket, FlushBucketEnd, ClearMetric,
     ExpireMetric, FlushMetric, ResetCurrentBucket, ResetCurrentMbc, flushVars
  <2> QED
    BY <2>1, <2>2, <2>3, TickFrame DEF Next
<1>6. pc'["server"] = "idle" \/ pc'["reporter"] = "idle"
  <2>1. ASSUME NEW t \in Threads, SubmitStep(t) PROVE pc'["server"] = "idle" \/ pc'["reporter"] = "idle"
    BY <1>1, <2>1, SubmitFrame, TurnOf, ContextsAre
  <2> QED
    BY <1>1, <2>1, FlushFrame, TurnOf, TickFrame DEF Next, TurnsTaken
<1>7. lastFlushCutoff' <= calculateBucketStart(now')
  BY <1>1, <1>3, <1>4, <1>5, Numbers
<1>8. ASSUME NEW t \in Threads, Submitting(t)'
      PROVE  stamp'[t] <= now' /\ lastFlushCutoff' <= Bucket(t)'
  <2>1. CASE SubmitStep(t)
    <3>1. CASE Submit(t)
      <4>1. stamp'[t] = now /\ now' = now /\ lastFlushCutoff' = lastFlushCutoff
        BY <2>1, <3>1, SubmitFrame
      <4> QED
        BY <1>1, <1>2, <4>1 DEF Bucket
    <3>2. CASE ~Submit(t)
      <4>1. /\ stamp'[t] = stamp[t] /\ now' = now /\ lastFlushCutoff' = lastFlushCutoff
            /\ pc[t] = "idle" \/ Submitting(t)
        BY <2>1, <3>2, SubmitFrame
      <4>2. Submitting(t)
        BY <2>1, <3>2, <4>1 DEF SubmitStep, Submit, Lookup, UseCached, Find, CreateBucket, GetBucket,
     SetCurrentBucket, SetCurrentMbc, Forgotten, CreateContext, ReadValue, WriteValue,
     SetLastSampleTime
      <4> QED
        BY <1>1, <4>1, <4>2 DEF Bucket, TurnsTaken
    <3> QED
      BY <3>1, <3>2
  <2>2. CASE ~SubmitStep(t)
    <3>1. Submitting(t) /\ stamp'[t] = stamp[t] /\ ~Flush
      <4>1. ASSUME NEW u \in Threads, SubmitStep(u) PROVE Submitting(t) /\ stamp'[t] = stamp[t] /\ ~Flush
        <5>1. u # t
          BY <2>2, <4>1
        <5>2. pc'[t] = pc[t] /\ pc[t] = "idle"
          BY <1>1, <4>1, <5>1, SubmitFrame, TurnOf
        <5> QED
          BY <1>8, <5>2 DEF Submitting, Looking, HasDict
      <4>2. CASE Flush
        <5>1. pc'[t] \in {"idle", "buckets", "items", "clear", "reset"}
          BY <1>1, <4>2, FlushFrame, TurnOf, ContextsAre
        <5> QED
          BY <1>8, <5>1 DEF Submitting, Looking, HasDict
      <4>3. CASE (Tick \/ UNCHANGED vars) /\ ~Flush
        BY <1>8, <4>3, TickFrame DEF Submitting, Looking, HasDict
      <4> QED
        BY <4>1, <4>2, <4>3 DEF Next
    <3>2. lastFlushCutoff' = lastFlushCutoff
      BY <1>5, <3>1 DEF Flush
    <3>3. stamp[t] <= now /\ lastFlushCutoff <= Bucket(t)
      BY <1>1, <3>1 DEF TurnsTaken
    <3> QED
      BY <1>2, <3>1, <3>2, <3>3, Numbers DEF Bucket
  <2> QED
    BY <2>1, <2>2
<1>9. ASSUME NEW b \in Buckets, DictOf(b)' # NoDict PROVE lastFlushCutoff' <= b
  <2>1. CASE ResetCurrentMbc /\ lastFlushCutoff' = cutoff /\ Flushing /\ todo = {}
    <3>1. DictOf(b)' = DictOf(b)
      BY <2>1 DEF ResetCurrentMbc, DictOf
    <3>2. ~Due(b)
      BY <1>1, <1>9, <2>1, <3>1 DEF TurnsTaken
    <3> QED
      BY <2>1, <3>2, Numbers DEF Due
  <2>2. CASE lastFlushCutoff' = lastFlushCutoff
    <3>1. CASE DictOf(b)' = DictOf(b)
      BY <1>1, <1>9, <2>2, <3>1 DEF TurnsTaken
    <3>2. ASSUME NEW t \in Threads, CreateBucket(t), b = Bucket(t) PROVE lastFlushCutoff' <= b
      <4>1. Submitting(t)
        BY <3>2 DEF CreateBucket, Submitting, Looking
      <4> QED
        BY <1>1, <2>2, <3>2, <4>1 DEF TurnsTaken
    <3> QED
      BY <1>9, <3>1, <3>2, DictOfStep
  <2> QED
    BY <1>5, <2>1, <2>2
<1>10. ASSUME Flushing'
       PROVE  /\ lastFlushCutoff' <= cutoff' /\ cutoff' <= calculateBucketStart(now')
              /\ \A b \in Buckets : DictOf(b)' # NoDict /\ b < cutoff' => b \in todo'
  <2>1. ~ResetCurrentMbc
    <3> SUFFICES ASSUME ResetCurrentMbc PROVE FALSE
      OBVIOUS
    <3>1. pc'["reporter"] = "idle"
      BY StepTaken, ContextsAre DEF ResetCurrentMbc
    <3> QED
      BY <1>10, <3>1 DEF Flushing
  <2>2. lastFlushCutoff' = lastFlushCutoff
    BY <1>5, <2>1
  <2>3. CASE FlushBegin
    <3>1. /\ cutoff' = calculateBucketStart(now)
          /\ metricByBucket' = metricByBucket /\ todo' = {b \in Buckets : metricByBucket[b] # NoDict}
      BY <2>3 DEF FlushBegin, shared, DictOf
    <3> QED
      BY <1>1, <1>3, <2>2, <3>1 DEF DictOf
  <2>4. CASE Flushing /\ cutoff' = cutoff
    <3>1. lastFlushCutoff' <= cutoff' /\ cutoff' <= calculateBucketStart(now')
      BY <1>1, <1>3, <1>4, <2>2, <2>4, Numbers DEF TurnsTaken
    <3>2. ASSUME NEW b \in Buckets, DictOf(b)' # NoDict, b < cutoff' PROVE b \in todo'
      <4>1. DictOf(b)' = DictOf(b)
        <5>1. ASSUME NEW t \in Threads, CreateBucket(t) PROVE FALSE
          <6>1. t = "reporter"
            <7>1. Submitting(t)
              BY <5>1 DEF CreateBucket, Submitting, Looking
            <7> QED
              BY <1>1, <2>4, <7>1, TurnOf, ContextsAre DEF Submitting, Looking, HasDict
          <6> QED
            BY <2>4, <5>1, <6>1 DEF CreateBucket, Flushing
        <5> QED
          BY <3>2, <5>1, DictOfStep
      <4>2. b \in todo
        BY <1>1, <2>4, <3>2, <4>1 DEF TurnsTaken, Due
      <4>3. todo' = todo \/ (todo' = todo \ {Earliest} /\ (SkipBucket \/ FlushBucketEnd))
        <5>1. ASSUME NEW t \in Threads, SubmitStep(t) PROVE todo' = todo
          BY <5>1, SubmitFrame
        <5>2. ~FlushBegin
          BY <2>4 DEF FlushBegin, Flushing
        <5>3. Flush => todo' = todo \/ (todo' = todo \ {Earliest} /\ (SkipBucket \/ FlushBucketEnd))
          BY <5>2 DEF Flush, FlushBegin, SkipBucket, FlushBucket, FlushBucketEnd, ClearMetric,
     ExpireMetric, FlushMetric, ResetCurrentBucket, ResetCurrentMbc, flushVars
        <5> QED
          BY <5>1, <5>3, TickFrame DEF Next
      <4>4. SkipBucket => b # Earliest
        BY <2>4, <3>2 DEF SkipBucket, Due
      <4>5. FlushBucketEnd => b # Earliest
        <5>1. FlushBucketEnd => metricByBucket' = [metricByBucket EXCEPT ![Earliest] = NoDict]
          BY DEF FlushBucketEnd, BucketDeleted
        <5> QED
          BY <3>2, <5>1 DEF DictOf, TypeInv, DictsTyped
      <4> QED
        BY <4>2, <4>3, <4>4, <4>5
    <3> QED
      BY <3>1, <3>2
  <2> QED
    BY <1>10, <2>3, <2>4, FlushingStep
<1>11. ASSUME InBucket' PROVE Earliest' < cutoff' /\ mbc'["reporter"] = DictOf(Earliest)'
  <2>1. CASE FlushBucket
    <3>1. mbc \in [Threads -> Dicts] /\ "reporter" \in Threads
      BY ContextsAre DEF TypeInv, DictsTyped
    <3>2. /\ Earliest' = Earliest /\ cutoff' = cutoff /\ metricByBucket' = metricByBucket
          /\ mbc'["reporter"] = metricByBucket[Earliest] /\ Due(Earliest)
      BY <2>1, <3>1 DEF FlushBucket, shared, Earliest
    <3> QED
      BY <3>2 DEF Due, DictOf
  <2>2. CASE SameBucket
    <3>1. InBucket /\ Flushing /\ Due(Earliest) /\ mbc["reporter"] = DictOf(Earliest)
      BY <1>1, <2>2 DEF SameBucket, TurnsTaken, InBucket, Flushing
    <3>2. Earliest \in Buckets
      BY <3>1, BucketFlushed
    <3>3. cutoff' = cutoff
      <4>1. Flushing' /\ ~FlushBegin
        BY <1>11, <3>1 DEF InBucket, Flushing, FlushBegin
      <4> QED
        BY <4>1, FlushingStep
    <3>4. DictOf(Earliest) = metricByBucket'[Earliest]
      <4>1. ASSUME NEW t \in Threads, CreateBucket(t) PROVE FALSE
        <5>1. Submitting(t)
          BY <4>1 DEF CreateBucket, Submitting, Looking
        <5>2. t = "reporter"
          BY <1>1, <3>1, <5>1, TurnOf, ContextsAre DEF Submitting, Looking, HasDict
        <5> QED
          BY <3>1, <4>1, <5>2 DEF CreateBucket, InBucket
      <4>2. ~FlushBucketEnd
        <5> SUFFICES ASSUME FlushBucketEnd PROVE FALSE
          OBVIOUS
        <5>1. pc'["reporter"] = "buckets"
          BY StepTaken, ContextsAre DEF FlushBucketEnd
        <5> QED
          BY <1>11, <5>1 DEF InBucket
      <4> QED
        BY <4>1, <4>2, BucketsStep DEF DictOf
    <3> QED
      BY <2>2, <3>1, <3>3, <3>4 DEF SameBucket, Due, DictOf
  <2> QED
    BY <1>11, <2>1, <2>2, InBucketStep
<1>12. ASSUME pc'["reporter"] = "reset" PROVE todo' = {}
  <2>1. ASSUME NEW t \in Threads, SubmitStep(t) PROVE todo' = {}
    <3>1. t # "reporter"
      BY <1>12, <2>1, SubmitFrame DEF Submitting, Looking, HasDict
    <3> QED
      BY <1>1, <1>12, <2>1, <3>1, SubmitFrame, ContextsAre DEF TurnsTaken
  <2>2. CASE ResetCurrentBucket
    BY <2>2 DEF ResetCurrentBucket, flushVars
  <2>3. CASE FlushBegin \/ FlushBucket \/ FlushBucketEnd \/ ClearMetric \/ ResetCurrentMbc
    <3>1. pc'["reporter"] \in {"buckets", "items", "idle"}
      BY <2>3, StepTaken, ContextsAre DEF FlushBegin, FlushBucket, FlushBucketEnd, ClearMetric, ResetCurrentMbc
    <3> QED
      BY <1>12, <3>1
  <2>4. ~SkipBucket
    BY <1>12 DEF SkipBucket
  <2>5. ASSUME NEW c \in Contexts, ExpireMetric(c) \/ FlushMetric(c) PROVE FALSE
    <3>1. pc'["reporter"] \in {"items", "clear"}
      BY <2>5, StepTaken, ContextsAre DEF ExpireMetric, FlushMetric
    <3> QED
      BY <1>12, <3>1
  <2>6. CASE Tick \/ UNCHANGED vars
    BY <1>1, <1>12, <2>6, TickFrame DEF TurnsTaken
  <2> QED
    BY <2>1, <2>2, <2>3, <2>4, <2>5, <2>6 DEF Next, Flush
<1> QED
  BY <1>6, <1>7, <1>8, <1>9, <1>10, <1>11, <1>12 DEF TurnsTaken, Due

LEMMA TimeKeptStep ==
    ASSUME Inv, ~interleaved, Turns, [Next]_vars PROVE TimeKept'
<1> USE DEF Inv
<1>1. /\ now \in Nat /\ wake \in Nat /\ expiry \in Int /\ lastFlushCutoff \in Nat
      /\ Interval \in Nat \ {0} /\ FlushInterval \in Nat \ {0} /\ MaxDelay \in Nat /\ ExpirySeconds \in Nat
  BY Numbers, Bounds
<1>2. TimeKept /\ TurnsTaken
  BY DEF Turns
<1>3. CASE SubmitStep("server") \/ SubmitStep("reporter")
  <2>1. PICK t \in Threads : SubmitStep(t)
    BY <1>3, ContextsAre
  <2>2. UNCHANGED <<now, wake, lastFlushCutoff, cutoff, expiry>>
    BY <2>1, SubmitFrame
  <2>3. CASE t = "server"
    <3>1. pc'["reporter"] = pc["reporter"]
      BY <2>1, <2>3, SubmitFrame, ContextsAre
    <3> QED
      BY <1>2, <2>2, <3>1 DEF TimeKept, Flushing
  <2>4. CASE t # "server"
    <3>1. t = "reporter"
      BY <2>4, ContextsAre
    <3>2. wake <= now
      <4>1. CASE Submit(t)
        BY <1>1, <2>4, <4>1 DEF Submit
      <4>2. CASE ~Submit(t)
        BY <1>2, <2>1, <3>1, <4>2 DEF TimeKept, SubmitStep, Submit, Lookup, UseCached, Find, CreateBucket, GetBucket,
     SetCurrentBucket, SetCurrentMbc, Forgotten, CreateContext, ReadValue, WriteValue,
     SetLastSampleTime
      <4> QED
        BY <4>1, <4>2
    <3>3. ~Flushing'
      BY <2>1, <3>1, SubmitFrame DEF Flushing, Submitting, Looking, HasDict
    <3> QED
      BY <1>2, <2>2, <3>2, <3>3 DEF TimeKept
  <2> QED
    BY <2>3, <2>4
<1>4. CASE FlushBegin
  <2>1. /\ cutoff' = calculateBucketStart(now) /\ expiry' = now - ExpirySeconds
        /\ UNCHANGED <<now, wake, lastFlushCutoff>> /\ pc["reporter"] = "flush"
    BY <1>4 DEF FlushBegin
  <2>2. expiry' + ExpirySeconds = now
    BY <1>1, <2>1
  <2> QED
    BY <1>1, <1>2, <2>1, <2>2 DEF TimeKept
<1>5. CASE ResetCurrentMbc
  <2>1. /\ wake' = now + FlushInterval /\ lastFlushCutoff' = cutoff /\ now' = now
        /\ pc["reporter"] = "reset" /\ pc'["reporter"] = "idle"
    BY <1>5, StepTaken, ContextsAre DEF ResetCurrentMbc
  <2> DEFINE began == expiry + ExpirySeconds
  <2>2. began <= now /\ wake <= began /\ cutoff = calculateBucketStart(began)
    BY <1>2, <2>1 DEF TimeKept, Flushing
  <2>3. began \in Nat
    BY <1>1, <2>2
  <2> HIDE DEF began
  <2>4. cutoff \in Nat /\ began < cutoff + Interval
    BY <2>2, <2>3, BucketOf
  <2>5. now <= wake + MaxDelay
    BY <1>2 DEF TimeKept
  <2>6. wake' < lastFlushCutoff' + Interval + MaxDelay + FlushInterval
    BY <1>1, <2>1, <2>2, <2>3, <2>4, <2>5
  <2>7. now' <= wake' + MaxDelay
    BY <1>1, <2>1
  <2> QED
    BY <2>1, <2>6, <2>7 DEF TimeKept, Flushing
<1>6. CASE Flush /\ ~FlushBegin /\ ~ResetCurrentMbc
  <2>1. UNCHANGED <<now, wake, lastFlushCutoff, cutoff, expiry>>
    BY <1>6 DEF Flush, FlushBegin, SkipBucket, FlushBucket, FlushBucketEnd, ClearMetric,
     ExpireMetric, FlushMetric, ResetCurrentBucket, ResetCurrentMbc, flushVars
  <2>2. Flushing /\ pc["reporter"] # "idle"
    BY <1>6 DEF Flushing, Flush, FlushBegin, SkipBucket, FlushBucket, FlushBucketEnd, ClearMetric,
     ExpireMetric, FlushMetric, ResetCurrentBucket, ResetCurrentMbc
  <2> QED
    BY <1>2, <2>1, <2>2 DEF TimeKept
<1>7. CASE Tick \/ UNCHANGED vars
  <2>1. /\ UNCHANGED <<wake, lastFlushCutoff, cutoff, expiry, pc>>
        /\ now' = now \/ (now' = now + 1 /\ now < wake + MaxDelay)
    BY <1>7, TickFrame
  <2>2. now <= now' /\ (now <= wake + MaxDelay => now' <= wake' + MaxDelay) /\ now' \in Nat
    BY <1>1, <2>1
  <2>3. Flushing' = Flushing
    BY <2>1 DEF Flushing
  <2>4. pc'["reporter"] # "idle" => wake' <= now'
    BY <1>1, <1>2, <2>1, <2>2 DEF TimeKept
  <2>5. Flushing' => /\ expiry' + ExpirySeconds <= now' /\ wake' <= expiry' + ExpirySeconds
                     /\ cutoff' = calculateBucketStart(expiry' + ExpirySeconds)
    BY <1>1, <1>2, <2>1, <2>2, <2>3 DEF TimeKept
  <2> QED
    BY <1>1, <1>2, <2>1, <2>2, <2>3, <2>4, <2>5 DEF TimeKept
<1> QED
  BY <1>3, <1>4, <1>5, <1>6, <1>7, ContextsAre DEF Next, Flush

LEMMA CacheKeptStep ==
    ASSUME Inv, ~interleaved, Turns, [Next]_vars PROVE CacheKept'
<1> USE DEF Inv
<1>1. CacheKept /\ TurnsTaken
  BY DEF Turns
<1>2. /\ mbc \in [Threads -> Dicts] /\ metricByBucket \in [Buckets -> Dicts]
      /\ currentBucket \in Buckets \cup {None} /\ Len(dicts) \in Nat /\ None \notin Buckets
  BY BucketsAre DEF TypeInv, DictsTyped, None
<1>3. \A t \in Threads : Bucket(t) \in Buckets
  BY Numbers
<1>4. ASSUME NEW t \in Threads, SubmitStep(t) PROVE CacheKept'
  <2> DEFINE Others == \A u \in Threads : u # t => pc'[u] = "idle"
             NoSetmbc == \A u \in Threads : pc[u] # "setmbc"
             Cached == ~InFlush' /\ currentBucket # None =>
                           currentMbc = DictOf(currentBucket) /\ currentMbc # NoDict
  <2>1. Others
    BY <1>1, <1>4, SubmitFrame, TurnOf
  <2>2. pc[t] # "setmbc" => NoSetmbc
    <3>1. ASSUME NEW u \in Threads, u # t PROVE pc[u] = "idle"
      BY <1>1, <1>4, <3>1, TurnOf
    <3> QED
      BY <3>1
  <2>3. ~InFlush /\ ~InFlush' /\ pc'["reporter"] # "reset"
    <3>1. t = "reporter" => pc[t] \notin {"buckets", "items", "clear"}
      BY <1>4, SubmitFrame DEF Submitting, Looking, HasDict
    <3>2. t = "reporter" => pc'[t] \notin {"buckets", "items", "clear", "reset"}
      BY <1>4, SubmitFrame DEF Submitting, Looking, HasDict
    <3>3. t # "reporter" => pc["reporter"] = "idle" /\ pc'["reporter"] = "idle"
      BY <1>1, <1>4, <2>1, TurnOf, ContextsAre
    <3> QED
      BY <3>1, <3>2, <3>3 DEF InFlush
  <2>4. pc[t] # "setmbc" => Cached
    BY <1>1, <2>2, <2>3 DEF CacheKept
  <2>5. ~Submit(t) => Bucket(t)' = Bucket(t)
    BY <1>4, SubmitFrame DEF Bucket
  <2>6. ASSUME \/ pc'[t] \in {"idle", "lookup", "find", "flush"}
               \/ pc'[t] = "cached" /\ currentBucket' = Bucket(t)'
               \/ pc'[t] = "create" /\ DictOf(Bucket(t))' = NoDict
               \/ pc'[t] = "get" /\ DictOf(Bucket(t))' # NoDict
               \/ /\ HasDict(t)' /\ mbc'[t] = DictOf(Bucket(t))' /\ mbc'[t] # NoDict
                  /\ pc'[t] = "setmbc" => currentBucket' = Bucket(t)',
               pc'[t] = "setmbc" \/ (currentBucket' # None =>
                   currentMbc' = DictOf(currentBucket)' /\ currentMbc' # NoDict)
        PROVE  CacheKept'
    <3>1. ASSUME NEW u \in Threads
          PROVE  /\ pc'[u] = "cached" => currentBucket' = Bucket(u)'
                 /\ pc'[u] = "create" => DictOf(Bucket(u))' = NoDict
                 /\ pc'[u] = "get" => DictOf(Bucket(u))' # NoDict
                 /\ HasDict(u)' => mbc'[u] = DictOf(Bucket(u))' /\ mbc'[u] # NoDict
                 /\ pc'[u] = "setmbc" => currentBucket' = Bucket(u)'
      <4>1. CASE u # t
        BY <2>1, <4>1 DEF HasDict
      <4>2. CASE u = t
        BY <2>6, <4>2 DEF HasDict
      <4> QED
        BY <4>1, <4>2
    <3> QED
      BY <2>3, <2>6, <3>1 DEF CacheKept
  <2> HIDE DEF Others, NoSetmbc, Cached
  <2>7. UNCHANGED <<metricByBucket, currentBucket, currentMbc>> /\ pc[t] # "setmbc" =>
            (currentBucket' # None => currentMbc' = DictOf(currentBucket)' /\ currentMbc' # NoDict)
    BY <2>3, <2>4 DEF Cached, DictOf
  <2>8. CASE Submit(t)
    BY <2>6, <2>7, <2>8, StepTaken DEF Submit, shared
  <2>9. CASE Lookup(t)
    <3>1. \/ pc'[t] = "cached" /\ currentBucket' = Bucket(t)'
          \/ pc'[t] = "find"
      BY <2>5, <2>9, StepTaken DEF Lookup, shared, Submit
    <3> QED
      BY <2>6, <2>7, <2>9, <3>1 DEF Lookup, shared
  <2>10. CASE UseCached(t)
    <3>1. pc'[t] = "context" /\ mbc'[t] = currentMbc /\ pc[t] = "cached"
          /\ UNCHANGED <<metricByBucket, currentBucket, currentMbc>>
      BY <1>2, <2>10, StepTaken DEF UseCached, shared
    <3>2. currentBucket = Bucket(t) /\ currentBucket # None
      BY <1>1, <1>2, <1>3, <3>1 DEF CacheKept
    <3>3. currentMbc = DictOf(Bucket(t)) /\ currentMbc # NoDict
      BY <2>3, <2>4, <3>1, <3>2 DEF Cached
    <3>4. Bucket(t)' = Bucket(t)
      BY <2>5, <3>1 DEF Submit
    <3> QED
      BY <2>6, <2>7, <3>1, <3>3, <3>4 DEF HasDict, DictOf
  <2>11. CASE Find(t)
    <3>1. /\ pc'[t] = IF DictOf(Bucket(t)) = NoDict THEN "create" ELSE "get"
          /\ pc[t] = "find" /\ UNCHANGED <<metricByBucket, currentBucket, currentMbc>>
      BY <2>11, StepTaken DEF Find, shared, DictOf
    <3>2. DictOf(Bucket(t))' = DictOf(Bucket(t))
      BY <2>5, <3>1 DEF Submit, DictOf
    <3> QED
      BY <2>6, <2>7, <3>1, <3>2
  <2>12. CASE CreateBucket(t)
    <3>1. /\ pc'[t] = "get" /\ pc[t] = "create" /\ UNCHANGED <<currentBucket, currentMbc>>
          /\ metricByBucket' = [metricByBucket EXCEPT ![Bucket(t)] = Len(dicts')]
      BY <2>12, StepTaken DEF CreateBucket
    <3>2. Len(dicts') = Len(dicts) + 1
      BY <2>12, CreateBucketDicts DEF TypeInv, DictsTyped
    <3>3. Bucket(t)' = Bucket(t) /\ DictOf(Bucket(t)) = NoDict
      BY <1>1, <2>5, <3>1 DEF Submit, CacheKept
    <3>4. DictOf(Bucket(t))' # NoDict
      BY <1>2, <1>3, <3>1, <3>2, <3>3 DEF DictOf, NoDict
    <3>5. currentBucket # None => currentMbc = DictOf(currentBucket) /\ currentMbc # NoDict
      BY <2>3, <2>4, <3>1 DEF Cached
    <3>6. currentBucket # None => DictOf(currentBucket)' = DictOf(currentBucket)
      BY <1>2, <3>1, <3>3, <3>5 DEF DictOf
    <3> QED
      BY <2>6, <3>1, <3>4, <3>5, <3>6
  <2>13. CASE GetBucket(t)
    <3>1. /\ mbc'[t] = DictOf(Bucket(t)) /\ pc[t] = "get"
          /\ pc'[t] = IF DictOf(Bucket(t)) = NoDict THEN "idle" ELSE "setbucket"
          /\ UNCHANGED <<metricByBucket, currentBucket, currentMbc>>
      BY <1>2, <2>13, StepTaken DEF GetBucket, shared, DictOf
    <3>2. DictOf(Bucket(t))' = DictOf(Bucket(t)) /\ DictOf(Bucket(t)) # NoDict
      BY <1>1, <2>5, <3>1 DEF Submit, DictOf, CacheKept
    <3> QED
      BY <2>6, <2>7, <3>1, <3>2 DEF HasDict
  <2>14. ASSUME HasDict(t), ~Submit(t)
         PROVE  mbc[t] = DictOf(Bucket(t)) /\ mbc[t] # NoDict /\ Bucket(t)' = Bucket(t)
    BY <1>1, <2>5, <2>14 DEF CacheKept
  <2>15. CASE SetCurrentBucket(t)
    <3>1. /\ pc'[t] = "setmbc" /\ pc[t] = "setbucket" /\ currentBucket' = Bucket(t)
          /\ mbc' = mbc /\ metricByBucket' = metricByBucket
      BY <2>15, StepTaken DEF SetCurrentBucket, submitVars
    <3>2. mbc[t] = DictOf(Bucket(t)) /\ mbc[t] # NoDict /\ Bucket(t)' = Bucket(t)
      BY <2>14, <3>1 DEF HasDict, Submit
    <3> QED
      BY <2>6, <3>1, <3>2 DEF HasDict, DictOf
  <2>16. CASE SetCurrentMbc(t)
    <3>1. /\ pc'[t] = "context" /\ pc[t] = "setmbc" /\ currentMbc' = mbc[t]
          /\ mbc' = mbc /\ metricByBucket' = metricByBucket /\ currentBucket' = currentBucket
      BY <2>16, StepTaken DEF SetCurrentMbc, submitVars
    <3>2. mbc[t] = DictOf(Bucket(t)) /\ mbc[t] # NoDict /\ Bucket(t)' = Bucket(t)
      BY <2>14, <3>1 DEF HasDict, Submit
    <3>3. currentBucket = Bucket(t)
      BY <1>1, <3>1 DEF CacheKept
    <3> QED
      BY <2>6, <3>1, <3>2, <3>3 DEF HasDict, DictOf
  <2>17. CASE Forgotten(t)
    BY <2>14, <2>17 DEF Forgotten, HasDict, Submit
  <2>18. CASE CreateContext(t) \/ ReadValue(t) \/ WriteValue(t)
    <3>1. /\ pc'[t] \in {"sample", "add", "last"} /\ pc[t] \in {"context", "sample", "add"}
          /\ mbc' = mbc /\ UNCHANGED <<metricByBucket, currentBucket, currentMbc>>
      BY <2>18, StepTaken DEF CreateContext, ReadValue, WriteValue, submitVars, shared
    <3>2. mbc[t] = DictOf(Bucket(t)) /\ mbc[t] # NoDict /\ Bucket(t)' = Bucket(t)
      BY <2>14, <3>1 DEF HasDict, Submit
    <3> QED
      BY <2>6, <2>7, <3>1, <3>2 DEF HasDict, DictOf
  <2>19. CASE SetLastSampleTime(t)
    <3>1. /\ pc'[t] \in {"idle", "flush"} /\ pc[t] = "last"
          /\ UNCHANGED <<metricByBucket, currentBucket, currentMbc>>
      BY <2>19, StepTaken DEF SetLastSampleTime, Sampled
    <3> QED
      BY <2>6, <2>7, <3>1
  <2> QED
    BY <1>4, <2>8, <2>9, <2>10, <2>11, <2>12, <2>13, <2>15, <2>16, <2>17, <2>18, <2>19 DEF SubmitStep
<1>5. ASSUME Flush PROVE CacheKept'
  <2>1. /\ pc'["server"] = "idle" /\ pc["server"] = "idle"
        /\ pc'["reporter"] \in {"idle", "buckets", "items", "clear", "reset"}
        /\ pc["reporter"] \in {"flush", "buckets", "items", "clear", "reset"}
    BY <1>1, <1>5, FlushFrame, TurnOf DEF FlushSteps
  <2>2. ASSUME NEW u \in Threads
        PROVE  pc'[u] \notin {"cached", "create", "get", "setmbc"} /\ ~HasDict(u)' /\ pc[u] # "setmbc"
    BY <2>1, ContextsAre DEF HasDict
  <2>3. CASE InFlush'
    BY <2>2, <2>3 DEF CacheKept, InFlush
  <2>4. CASE ~InFlush'
    <3>1. ResetCurrentBucket \/ ResetCurrentMbc
      <4>1. FlushBegin \/ FlushBucket \/ FlushBucketEnd \/ ClearMetric => InFlush'
        BY StepTaken, ContextsAre DEF FlushBegin, FlushBucket, FlushBucketEnd, ClearMetric, InFlush
      <4>2. SkipBucket => InFlush'
        BY DEF SkipBucket, InFlush
      <4>3. ASSUME NEW c \in Contexts, ExpireMetric(c) PROVE InFlush'
        BY <4>3 DEF ExpireMetric, InFlush
      <4>4. ASSUME NEW c \in Contexts, FlushMetric(c) PROVE InFlush'
        <5>1. c = Counter => pc'["reporter"] = "clear"
          BY <4>4, StepTaken, ContextsAre DEF FlushMetric
        <5>2. c # Counter => pc' = pc
          BY <4>4 DEF FlushMetric
        <5> QED
          BY <4>4, <5>1, <5>2 DEF FlushMetric, InFlush
      <4> QED
        BY <1>5, <2>4, <4>1, <4>2, <4>3, <4>4 DEF Flush
    <3>2. currentBucket' = None
      BY <1>1, <3>1 DEF ResetCurrentBucket, NoCurrent, ResetCurrentMbc, CacheKept
    <3> QED
      BY <2>2, <3>2 DEF CacheKept
  <2> QED
    BY <2>3, <2>4
<1>6. CASE Tick \/ UNCHANGED vars
  BY <1>1, <1>6, TickFrame DEF CacheKept, InFlush, DictOf, HasDict, Bucket
<1> QED
  BY <1>4, <1>5, <1>6 DEF Next

LEMMA PastStep ==
    ASSUME Inv, ~interleaved, Turns, [Next]_vars, NEW b \in Buckets, Past(b)
    PROVE  Past(b)'
<1> USE DEF Inv
<1>1. TurnsTaken /\ b \in Nat /\ cutoff \in Nat /\ lastFlushCutoff \in Nat
  BY Numbers DEF Turns
<1>2. ASSUME NEW t \in Threads, SubmitStep(t) PROVE Past(b)'
  <2>1. UNCHANGED <<lastFlushCutoff, cutoff, todo, items, notSampled>> /\ Earliest' = Earliest
    BY <1>2, SubmitFrame
  <2>2. CASE b < lastFlushCutoff
    BY <2>1, <2>2 DEF Past
  <2>3. CASE Flushing
    <3>1. t # "reporter"
      BY <1>2, <2>3, SubmitFrame DEF Flushing, Submitting, Looking, HasDict
    <3>2. pc'["reporter"] = pc["reporter"]
      BY <1>2, <3>1, SubmitFrame, ContextsAre
    <3> QED
      BY <2>1, <3>2 DEF Past, Flushing, InBucket, Due
  <2> QED
    BY <2>2, <2>3 DEF Past
<1>3. CASE FlushBegin
  BY <1>3 DEF FlushBegin, Past, Flushing
<1>4. CASE ResetCurrentMbc
  <2>1. lastFlushCutoff' = cutoff /\ Flushing
    BY <1>4 DEF ResetCurrentMbc, Flushing
  <2> QED
    BY <1>1, <2>1 DEF Past, Due, TurnsTaken
<1>5. CASE SkipBucket
  <2>1. UNCHANGED <<lastFlushCutoff, cutoff, pc>> /\ todo' \subseteq todo /\ ~InBucket
    BY <1>5 DEF SkipBucket, InBucket
  <2> QED
    BY <2>1 DEF Past, Flushing, Due
<1>6. CASE FlushBucket
  <2>1. /\ UNCHANGED <<lastFlushCutoff, cutoff, todo>> /\ ~InBucket /\ pc'["reporter"] = "items"
    BY <1>6, StepTaken, ContextsAre DEF FlushBucket, InBucket
  <2> QED
    BY <2>1 DEF Past, Flushing, Due
<1>7. CASE FlushBucketEnd
  <2>1. /\ UNCHANGED <<lastFlushCutoff, cutoff>> /\ pc'["reporter"] = "buckets"
        /\ todo' = todo \ {Earliest}
    BY <1>7, StepTaken, ContextsAre DEF FlushBucketEnd
  <2> QED
    BY <2>1 DEF Past, Flushing, Due
<1>8. CASE ClearMetric
  <2>1. /\ UNCHANGED <<lastFlushCutoff, cutoff, todo>> /\ Earliest' = Earliest
        /\ pc'["reporter"] = "items" /\ ~notSampled' /\ Counter \notin items'
    BY <1>8, StepTaken, ContextsAre DEF ClearMetric, Earliest
  <2> QED
    BY <2>1 DEF Past, Flushing, Due, InBucket
<1>9. ASSUME NEW c \in Contexts, ExpireMetric(c) PROVE Past(b)'
  <2>1. /\ UNCHANGED <<lastFlushCutoff, cutoff, todo, pc>> /\ Earliest' = Earliest
        /\ pc["reporter"] = "items" /\ items' \subseteq items /\ c \in items
        /\ c = Counter \/ notSampled' = notSampled
    BY <1>9 DEF ExpireMetric, Earliest
  <2> QED
    BY <2>1 DEF Past, Flushing, Due, InBucket
<1>10. ASSUME NEW c \in Contexts, FlushMetric(c) PROVE Past(b)'
  <2>1. /\ UNCHANGED <<lastFlushCutoff, cutoff, todo, notSampled>> /\ Earliest' = Earliest
        /\ pc["reporter"] = "items" /\ items' \subseteq items /\ c \in items
    BY <1>10 DEF FlushMetric, Earliest
  <2>2. pc'["reporter"] \in {"items", "clear"} /\ (pc'["reporter"] = "clear" => c = Counter)
    BY <1>10, <2>1, StepTaken, ContextsAre DEF FlushMetric
  <2> QED
    BY <2>1, <2>2 DEF Past, Flushing, Due, InBucket
<1>11. CASE ResetCurrentBucket
  <2>1. /\ UNCHANGED <<lastFlushCutoff, cutoff, todo>> /\ todo = {} /\ pc'["reporter"] = "reset"
    BY <1>11, StepTaken, ContextsAre DEF ResetCurrentBucket, flushVars
  <2> QED
    BY <2>1 DEF Past, Flushing, Due
<1>12. CASE Tick \/ UNCHANGED vars
  BY <1>12, TickFrame DEF Past, Flushing, Due, InBucket
<1> QED
  BY <1>2, <1>3, <1>4, <1>5, <1>6, <1>7, <1>8, <1>9, <1>10, <1>11, <1>12 DEF Next, Flush

LEMMA ValuesOnceStep ==
    ASSUME Inv, ~interleaved, Turns, [Next]_vars PROVE ValuesOnce'
<1> USE DEF Inv
<1>1. TurnsTaken /\ ValuesOnce /\ values \in [Buckets -> Nat]
  BY DEF Turns, TypeInv, ValuesTyped
<1>2. CASE UNCHANGED values
  BY <1>1, <1>2, PastStep DEF ValuesOnce
<1>3. ASSUME NEW b \in Buckets, Value(b), ~Past(b), Past(b)' PROVE ValuesOnce'
  <2> SUFFICES ASSUME NEW c \in Buckets PROVE values'[c] <= 1 /\ (values'[c] = 0 \/ Past(c)')
    BY DEF ValuesOnce
  <2>1. CASE c = b
    <3>1. values[b] = 0
      BY <1>1, <1>3 DEF ValuesOnce
    <3>2. values'[b] = 1
      BY <1>1, <1>3, <3>1 DEF Value
    <3> QED
      BY <1>3, <2>1, <3>2
  <2>2. CASE c # b
    <3>1. values'[c] = values[c]
      BY <1>1, <1>3, <2>2 DEF Value
    <3> QED
      BY <1>1, <3>1, PastStep DEF ValuesOnce
  <2> QED
    BY <2>1, <2>2
<1>4. CASE FlushBegin
  <2>1. /\ pc["reporter"] = "flush" /\ pc'["reporter"] = "buckets"
        /\ lastFlushCutoff' = lastFlushCutoff /\ cutoff' = calculateBucketStart(now)
    BY <1>4, StepTaken, ContextsAre DEF FlushBegin
  <2>2. CASE ~UNCHANGED values
    <3>1. PICK b \in Buckets : b = cutoff' - Interval /\ Value(b)
      BY <1>4, <2>2 DEF FlushBegin, EmptyMetric
    <3>2. todo' = {} /\ cutoff' >= lastFlushCutoff + Interval
      BY <1>4, <2>2 DEF FlushBegin, EmptyMetric, Passed
    <3>3. cutoff' \in Int /\ Interval \in Int /\ lastFlushCutoff \in Int /\ 0 < Interval
      BY <2>1, Numbers, Bounds
    <3>4. ~(b < lastFlushCutoff) /\ b < cutoff'
      <4>1. \A x, y, z \in Int : 0 < y /\ x >= z + y => ~(x - y < z) /\ x - y < x
        OBVIOUS
      <4> QED
        BY <3>1, <3>2, <3>3, <4>1
    <3>5. ~Past(b)
      BY <2>1, <3>4 DEF Past, Flushing
    <3>6. Past(b)'
      BY <2>1, <3>2, <3>4 DEF Past, Flushing, Due
    <3> QED
      BY <1>3, <3>1, <3>5, <3>6
  <2> QED
    BY <1>2, <2>2
<1>5. ASSUME InBucket, pc["reporter"] = "items"
      PROVE  /\ Earliest \in Buckets /\ Earliest \in todo /\ ~(Earliest < lastFlushCutoff) /\ Due(Earliest)
             /\ (Counter \in items \/ notSampled) => ~Past(Earliest)
  <2>1. Earliest \in Buckets /\ Earliest \in todo
    BY <1>5, BucketFlushed
  <2>2. Due(Earliest) /\ DictOf(Earliest) # NoDict
    BY <1>1, <1>5 DEF TurnsTaken, DictsInv
  <2>3. lastFlushCutoff <= Earliest
    BY <1>1, <2>1, <2>2 DEF TurnsTaken
  <2>4. ~(Earliest < lastFlushCutoff)
    BY <2>1, <2>3, Numbers
  <2> QED
    BY <1>5, <2>1, <2>2, <2>4 DEF Past
<1>6. CASE FlushMetric(Counter)
  <2>1. /\ InBucket /\ pc["reporter"] = "items" /\ Counter \in items /\ Value(Earliest)
        /\ UNCHANGED <<cutoff, todo>> /\ Earliest' = Earliest /\ pc'["reporter"] = "clear"
    BY <1>6, StepTaken, ContextsAre DEF FlushMetric, InBucket, Earliest
  <2>2. PICK b \in Buckets : b = Earliest
    BY <1>5, <2>1
  <2>3. Past(b)'
    BY <1>5, <2>1, <2>2 DEF Past, Flushing, InBucket, Due
  <2> QED
    BY <1>3, <1>5, <2>1, <2>2, <2>3
<1>7. CASE FlushBucketEnd
  <2>1. /\ InBucket /\ pc["reporter"] = "items" /\ UNCHANGED cutoff /\ todo' = todo \ {Earliest}
        /\ pc'["reporter"] = "buckets"
    BY <1>7, StepTaken, ContextsAre DEF FlushBucketEnd, InBucket
  <2>2. CASE ~UNCHANGED values
    <3>1. notSampled /\ Value(Earliest)
      BY <1>7, <2>2 DEF FlushBucketEnd, EmptyMetric
    <3>2. PICK b \in Buckets : b = Earliest
      BY <1>5, <2>1
    <3>3. Past(b)'
      BY <1>5, <2>1, <3>2 DEF Past, Flushing, Due
    <3> QED
      BY <1>3, <1>5, <2>1, <3>1, <3>2, <3>3
  <2> QED
    BY <1>2, <2>2
<1>8. ASSUME NEW t \in Threads, SubmitStep(t) PROVE UNCHANGED values
  BY <1>8, SubmitFrame
<1>9. ASSUME NEW c \in Contexts, ExpireMetric(c) \/ (FlushMetric(c) /\ c # Counter) PROVE UNCHANGED values
  BY <1>9 DEF ExpireMetric, FlushMetric
<1>10. SkipBucket \/ FlushBucket \/ ClearMetric \/ ResetCurrentBucket \/ ResetCurrentMbc => UNCHANGED values
  BY DEF SkipBucket, FlushBucket, ClearMetric, ResetCurrentBucket, ResetCurrentMbc, history
<1> QED
  BY <1>2, <1>4, <1>6, <1>7, <1>8, <1>9, <1>10, TickFrame DEF Next, Flush

\* What is sampled while the threads take turns does not expire before its flush.
LEMMA NoExpiry ==
    ASSUME Inv, ~interleaved, Turns PROVE ~ExpireMetric(Counter)
<1> USE DEF Inv
<1> SUFFICES ASSUME ExpireMetric(Counter) PROVE FALSE
  OBVIOUS
<1>1. TurnsTaken /\ TimeKept /\ PointsPlaced
  BY DEF Turns
<1>2. InBucket /\ Flushing /\ Counter \in items /\ Expired(dicts[mbc["reporter"]][Counter].last, expiry)
  BY DEF ExpireMetric, Flushed, InBucket, Flushing
<1> DEFINE e == Earliest
           last == dicts[mbc["reporter"]][Counter].last
<1>3. /\ e \in Buckets /\ mbc["reporter"] \in 1..Len(dicts)
      /\ Counter \in DOMAIN dicts[mbc["reporter"]]
  BY <1>2, BucketFlushed
<1>4. mbc["reporter"] = DictOf(e) /\ DictOf(e) # NoDict
  BY <1>1, <1>2, <1>3 DEF TurnsTaken, NoDict
<1>5. e <= last
  <2>1. ~Sampling("server")
    BY <1>1, <1>2, TurnOf DEF Sampling
  <2> QED
    BY <1>1, <1>3, <1>4, <2>1 DEF PointsPlaced
<1>6. last \in Times \cup {None}
  BY <1>3, DictTyped DEF TypeInv, DictsTyped
<1>7. lastFlushCutoff <= e
  BY <1>1, <1>3, <1>4 DEF TurnsTaken
<1> HIDE DEF e, last
<1>8. e \in Nat /\ last \in Int /\ lastFlushCutoff \in Nat /\ expiry \in Int /\ now \in Nat /\ wake \in Nat
  BY <1>3, <1>6, Numbers, Bounds DEF None
<1>9. last < expiry
  BY <1>2, <1>5, <1>8 DEF Expired, None, last
<1>10. expiry + ExpirySeconds <= now
  BY <1>1, <1>2 DEF TimeKept
<1>11. now <= wake + MaxDelay /\ wake < lastFlushCutoff + Interval + MaxDelay + FlushInterval
  BY <1>1 DEF TimeKept
<1>12. Interval + FlushInterval + 2 * MaxDelay <= ExpirySeconds + 1
  BY FlushedBeforeExpiry
<1> QED
  BY <1>5, <1>7, <1>8, <1>9, <1>10, <1>11, <1>12, Bounds

\* The dict of a bucket held before what it holds now, and for the same bucket, but
\* for the point that the server adds.
LEMMA PlaceStep ==
    ASSUME Inv, [Next]_vars, NEW b \in Buckets, DictOf(b)' # NoDict, NEW p, Holds(DictOf(b), p)'
    PROVE  /\ DictOf(b)' = DictOf(b) /\ DictOf(b) \in 1..Len(dicts)
           /\ \/ Holds(DictOf(b), p)
              \/ WriteValue("server") /\ DictOf(b) = mbc["server"] /\ p \in sum["server"] \cup {received}
<1> USE DEF Inv
<1> DEFINE d == DictOf(b)'
<1>1. d \in 1..Len(dicts')
  BY TypeStep, Numbers DEF Holds
<1>2. \/ d \in 1..Len(dicts) /\ Holds(d, p)
      \/ WriteValue("server") /\ d = mbc["server"] /\ p \in sum["server"] \cup {received}
  <2>1. ASSUME NEW x, x = d PROVE Holds(x, p)'
    BY <2>1 DEF Holds
  <2> QED
    BY <1>1, <2>1, HoldsStep
<1>3. d \in Dicts
  BY <1>2, ContextsAre DEF Dicts, TypeInv, DictsTyped
<1>4. d # Len(dicts) + 1
  BY <1>3, Numbers DEF Dicts
<1>5. DictOf(b)' = DictOf(b)
  BY <1>4, DictOfStep
<1> QED
  BY <1>2, <1>5, Numbers

LEMMA PointsPlacedStep ==
    ASSUME Inv, ~interleaved, Turns, [Next]_vars PROVE PointsPlaced'
<1> USE DEF Inv
<1>1. TurnsTaken /\ CacheKept /\ PointsPlaced /\ RightBucket
  BY DEF Turns
<1>2. "server" \in Threads /\ "reporter" \in Threads /\ Points \subseteq Nat /\ received \in Nat
      /\ submitted \in [Points -> Times]
  BY ContextsAre, Bounds DEF TypeInv, PointsTyped
<1>3. ASSUME NEW p \in Points, p <= received PROVE submitted'[p] = submitted[p]
  <2>1. CASE Submit("server")
    BY <1>2, <1>3, <2>1 DEF Submit
  <2>2. CASE ~Submit("server")
    <3>1. submitted' = submitted
      BY <2>2, OtherStep DEF submitVars, SubmitStep, Submit, Lookup, UseCached, Find, CreateBucket, GetBucket,
     SetCurrentBucket, SetCurrentMbc, Forgotten, CreateContext, ReadValue, WriteValue,
     SetLastSampleTime
    <3> QED
      BY <3>1
  <2> QED
    BY <2>1, <2>2
<1>4. ASSUME NEW b \in Buckets, NEW p \in Points, DictOf(b)' # NoDict, Holds(DictOf(b), p)'
      PROVE  calculateBucketStart(submitted'[p]) = b
  <2>1. CASE Holds(DictOf(b), p) /\ DictOf(b)' = DictOf(b)
    <3>1. calculateBucketStart(submitted[p]) = b
      BY <1>1, <1>4, <2>1 DEF PointsPlaced
    <3>2. p <= received
      BY <2>1, Numbers DEF PointsInv, Carries
    <3> QED
      BY <1>3, <3>1, <3>2
  <2>2. CASE WriteValue("server") /\ DictOf(b) = mbc["server"] /\ DictOf(b)' = DictOf(b)
             /\ p \in sum["server"] \cup {received}
    <3>1. submitted' = submitted
      BY <2>2 DEF WriteValue
    <3>2. CASE p \in sum["server"]
      <4>1. DictOf(b) \in 1..Len(dicts) /\ DictOf(b) # NoDict
        BY <1>4, <2>2, Numbers
      <4>2. sum["server"] = dicts[mbc["server"]][Counter].points
        BY <1>1, <2>2 DEF WriteValue, PointsPlaced
      <4>3. Counter \in DOMAIN dicts[mbc["server"]]
        BY <1>2, <2>2, ContextsAre DEF WriteValue, DictsInv, Sampling
      <4>4. Holds(DictOf(b), p)
        BY <2>2, <3>2, <4>1, <4>2, <4>3 DEF Holds
      <4> QED
        BY <1>1, <3>1, <4>1, <4>4 DEF PointsPlaced
    <3>3. CASE p = received
      <4>1. submitted[p] = stamp["server"]
        BY <1>1, <2>2, <3>3 DEF WriteValue, Adding, PointsPlaced
      <4>2. mbc["server"] = DictOf(Bucket("server")) /\ mbc["server"] # NoDict
        BY <1>1, <1>2, <2>2 DEF WriteValue, HasDict, CacheKept
      <4>3. b = Bucket("server")
        BY <1>2, <2>2, <4>2, Numbers DEF DictsInv, DictOf
      <4> QED
        BY <3>1, <4>1, <4>3 DEF Bucket
    <3> QED
      BY <2>2, <3>2, <3>3
  <2> QED
    BY <1>4, <2>1, <2>2, PlaceStep
<1>5. ASSUME Adding' PROVE submitted'[received'] = stamp'["server"]
  <2>1. CASE Submit("server")
    <3>1. received' = received + 1 /\ received < MaxPoints[interleaved]
      BY <2>1 DEF Submit
    <3>2. received' \in Points
      BY <1>2, <3>1, Bounds DEF TypeInv, TimesTyped
    <3>3. submitted' = [submitted EXCEPT ![received'] = now] /\ stamp' = [stamp EXCEPT !["server"] = now]
      BY <2>1 DEF Submit
    <3>4. stamp'["server"] = now
      BY <1>2, <3>3 DEF TypeInv, TimesTyped
    <3> QED
      BY <1>2, <3>2, <3>3, <3>4
  <2>2. CASE ~Submit("server") /\ Adding /\ UNCHANGED <<received, submitted>>
    <3>1. stamp'["server"] = stamp["server"]
      <4>1. CASE SubmitStep("server")
        BY <1>2, <2>2, <4>1, SubmitFrame
      <4> QED
        BY <4>1, OtherStep
    <3> QED
      BY <1>1, <2>2, <3>1 DEF PointsPlaced
  <2> QED
    BY <1>5, <2>1, <2>2, AddingStep
<1>6. ASSUME pc["server"] # "idle", ~SubmitStep("server") PROVE Tick \/ UNCHANGED vars
  BY <1>1, <1>2, <1>6, TurnOf, ContextsAre DEF Next
<1>7. ASSUME pc'["server"] = "add" PROVE sum'["server"] = dicts'[mbc'["server"]][Counter].points
  <2>1. CASE SubmitStep("server")
    <3>1. ReadValue("server")
      BY <1>2, <1>7, <2>1, StepTaken DEF SubmitStep, Submit, Lookup, UseCached, Find, CreateBucket, GetBucket,
     SetCurrentBucket, SetCurrentMbc, Forgotten, CreateContext, ReadValue, WriteValue,
     SetLastSampleTime, Sampled
    <3>2. sum \in [Threads -> SUBSET Points] /\ dicts' = dicts /\ mbc' = mbc
      BY <3>1 DEF ReadValue, shared, TypeInv, ValuesTyped
    <3> QED
      BY <1>2, <3>1, <3>2, ContextsAre DEF ReadValue
  <2>2. CASE ~SubmitStep("server")
    <3>1. pc["server"] = "add"
      BY <1>7, <2>2, OtherStep
    <3>2. Tick \/ UNCHANGED vars
      BY <1>6, <2>2, <3>1
    <3> QED
      BY <1>1, <3>1, <3>2, TickFrame DEF PointsPlaced
  <2> QED
    BY <2>1, <2>2
<1>8. ASSUME pc'["server"] = "last" PROVE Holds(mbc["server"], received)'
  <2>1. CASE SubmitStep("server")
    <3>1. WriteValue("server")
      BY <1>2, <1>7, <1>8, <2>1, StepTaken DEF SubmitStep, Submit, Lookup, UseCached, Find, CreateBucket, GetBucket,
     SetCurrentBucket, SetCurrentMbc, Forgotten, CreateContext, ReadValue, WriteValue,
     SetLastSampleTime, Sampled
    <3>2. mbc["server"] \in 1..Len(dicts) /\ Counter \in DOMAIN dicts[mbc["server"]]
      <4>1. mbc["server"] # NoDict /\ Counter \in DOMAIN dicts[mbc["server"]]
        BY <1>2, <3>1, ContextsAre DEF WriteValue, DictsInv, Sampling
      <4> QED
        BY <1>2, <4>1, Numbers DEF TypeInv, DictsTyped, Dicts, NoDict
    <3>3. /\ Len(dicts') = Len(dicts) /\ Counter \in DOMAIN dicts'[mbc["server"]]
          /\ dicts'[mbc["server"]][Counter].points = sum["server"] \cup {received}
      <4>1. sum["server"] \in SUBSET Points /\ received \in Points /\ dicts \in Seq(MetricDicts)
        BY SMTT(30), <1>2, <3>1, Bounds DEF TypeInv, ValuesTyped, PointsTyped, TimesTyped, Adding, WriteValue, DictsTyped
      <4> QED
        BY <1>2, <3>1, <3>2, <4>1, WriteValueDicts, ContextsAre
    <3>4. mbc' = mbc /\ received' = received
      BY <3>1 DEF WriteValue
    <3> QED
      BY <3>2, <3>3, <3>4 DEF Holds
  <2>2. CASE ~SubmitStep("server")
    <3>1. pc["server"] = "last"
      BY <1>8, <2>2, OtherStep
    <3>2. Tick \/ UNCHANGED vars
      BY <1>6, <2>2, <3>1
    <3> QED
      BY <1>1, <3>1, <3>2, TickFrame DEF PointsPlaced, Holds
  <2> QED
    BY <2>1, <2>2
<1>9. ASSUME InBucket', pc'["reporter"] = "items" => Counter \notin items', NEW p \in Points,
             Holds(mbc["reporter"], p)'
      PROVE  reported'[p] # None
  <2>1. CASE FlushBucket
    <3>1. /\ pc'["reporter"] = "items" /\ items' = DOMAIN dicts[mbc'["reporter"]] /\ dicts' = dicts
      BY <2>1, StepTaken, ContextsAre DEF FlushBucket, shared
    <3> QED
      BY <1>9, <3>1 DEF Holds
  <2>2. CASE SameBucket
    <3>1. mbc["reporter"] \in 1..Len(dicts) /\ Holds(mbc["reporter"], p)
      <4>1. mbc["reporter"] \in 1..Len(dicts)
        BY <2>2, BucketFlushed DEF SameBucket
      <4>2. mbc'["reporter"] = mbc["reporter"] /\ ~WriteValue("server")
        <5>1. WriteValue("server") => pc["reporter"] = "idle"
          BY <1>1, TurnOf DEF WriteValue, Submitting, HasDict
        <5> QED
          BY <2>2, <5>1 DEF SameBucket, InBucket
      <4>3. ASSUME NEW d \in 1..Len(dicts'), d = mbc["reporter"] PROVE Holds(mbc["reporter"], p)
        <5>1. Holds(d, p)'
          BY <1>9, <4>2, <4>3 DEF Holds
        <5> QED
          BY <4>2, <4>3, <5>1, HoldsStep
      <4>4. mbc["reporter"] \in 1..Len(dicts')
        BY <1>9, <4>2 DEF Holds
      <4> QED
        BY <4>1, <4>3, <4>4
    <3>2. CASE FlushMetric(Counter)
      <4>1. Earliest \in Buckets /\ reported' = [q \in Points |->
               IF q \in dicts[mbc["reporter"]][Counter].points THEN Earliest ELSE reported[q]]
        BY <2>2, <3>2, BucketFlushed DEF FlushMetric, Flushed, SameBucket
      <4> QED
        BY <3>1, <4>1, BucketsAre DEF Holds, None
    <3>3. CASE ~FlushMetric(Counter)
      <4>1. reported' = reported
        BY <3>3, ReportedStep
      <4>2. pc["reporter"] = "items" => Counter \notin items
        <5> SUFFICES ASSUME pc["reporter"] = "items", Counter \in items PROVE FALSE
          OBVIOUS
        <5>1. pc'["reporter"] = pc["reporter"] /\ items' = items
          <6>1. ASSUME NEW t \in Threads, SubmitStep(t) PROVE FALSE
            <7>1. pc[t] = "idle" \/ Submitting(t)
              BY <6>1, SubmitFrame
            <7>2. t # "reporter"
              BY <7>1 DEF Submitting, Looking, HasDict
            <7> QED
              BY <1>1, <1>2, <6>1, <7>2, TurnOf
          <6>2. CASE Flush
            <7>1. ASSUME NEW c \in Contexts, ExpireMetric(c) \/ FlushMetric(c), c # Counter
                  PROVE  FALSE
              <8>1. pc'["reporter"] = "items" /\ Counter \in items'
                BY <7>1 DEF ExpireMetric, FlushMetric
              <8> QED
                BY <1>9, <8>1
            <7>2. ~ExpireMetric(Counter)
              BY NoExpiry
            <7>3. ~FlushBucketEnd
              BY DEF FlushBucketEnd
            <7> QED
              BY <3>3, <6>2, <7>1, <7>2, <7>3 DEF Flush, FlushBegin, SkipBucket, FlushBucket, ClearMetric,
                 ResetCurrentBucket, ResetCurrentMbc
          <6>3. CASE Tick \/ UNCHANGED vars
            BY <6>3, TickFrame
          <6> QED
            BY <6>1, <6>2, <6>3 DEF Next
        <5> QED
          BY <1>9, <5>1
      <4> QED
        BY <1>1, <2>2, <3>1, <4>1, <4>2 DEF PointsPlaced, SameBucket
    <3> QED
      BY <3>2, <3>3
  <2> QED
    BY <1>9, <2>1, <2>2, InBucketStep
<1>10. ASSUME NEW b \in Buckets, DictOf(b)' # NoDict, Counter \in DOMAIN dicts'[DictOf(b)']
       PROVE  \/ b <= dicts'[DictOf(b)'][Counter].last
              \/ Sampling("server")' /\ mbc'["server"] = DictOf(b)'
  <2>1. PICK d \in 1..Len(dicts') : d = DictOf(b)'
    <3>1. metricByBucket' \in [Buckets -> Dicts'] /\ Len(dicts') \in Nat
      BY TypeStep DEF TypeInv, DictsTyped
    <3> QED
      BY <1>10, <3>1 DEF DictOf, Dicts, NoDict
  <2>2. Counter \in DOMAIN dicts'[d]
    BY <1>10, <2>1
  <2>3. ASSUME d \in 1..Len(dicts), Counter \in DOMAIN dicts[d]
        PROVE  d = DictOf(b) /\ (b <= dicts[d][Counter].last \/ (Sampling("server") /\ mbc["server"] = d))
    <3>1. DictOf(b)' = DictOf(b)
      BY <2>1, <2>3, Numbers, DictOfStep DEF NoDict
    <3> QED
      BY <1>1, <1>10, <2>1, <2>3, <3>1 DEF PointsPlaced
  <2>4. CASE CreateContext("server") /\ d = mbc["server"]
    <3>1. pc'["server"] = "sample" /\ mbc' = mbc
      BY <1>2, <2>4, StepTaken DEF CreateContext, submitVars
    <3> QED
      BY <2>1, <2>4, <3>1 DEF Sampling
  <2>5. CASE SetLastSampleTime("server") /\ d = mbc["server"]
             /\ CounterChanged(d, dicts[d][Counter].points, now)
    <3>1. d = DictOf(b) /\ dicts'[d][Counter].last = now
      BY <2>3, <2>5 DEF CounterChanged
    <3>2. /\ mbc["server"] = DictOf(Bucket("server")) /\ mbc["server"] # NoDict
          /\ stamp["server"] <= now
      BY <1>1, <1>2, <2>5 DEF SetLastSampleTime, HasDict, CacheKept, TurnsTaken, Submitting
    <3>3. b = Bucket("server")
      BY <1>2, <2>5, <3>1, <3>2, Numbers DEF DictsInv, DictOf
    <3>4. b <= now
      BY <1>2, <3>2, <3>3, Numbers
    <3> QED
      BY <2>1, <3>1, <3>4
  <2>6. ASSUME d \in 1..Len(dicts), Counter \in DOMAIN dicts[d], dicts'[d][Counter].last = dicts[d][Counter].last,
               ~(SetLastSampleTime("server") /\ d = mbc["server"])
        PROVE  \/ b <= dicts'[d][Counter].last
               \/ Sampling("server")' /\ mbc'["server"] = d
    <3>1. d = DictOf(b) /\ (b <= dicts[d][Counter].last \/ (Sampling("server") /\ mbc["server"] = d))
      BY <2>3, <2>6
    <3>2. CASE b <= dicts[d][Counter].last
      BY <2>6, <3>2
    <3>3. CASE Sampling("server") /\ mbc["server"] = d
      <4>1. CASE SubmitStep("server")
        <5>1. ReadValue("server") \/ WriteValue("server")
          BY <2>6, <3>3, <4>1 DEF Sampling, SubmitStep, Submit, Lookup, UseCached, Find, CreateBucket, GetBucket,
     SetCurrentBucket, SetCurrentMbc, Forgotten, CreateContext, ReadValue, WriteValue,
     SetLastSampleTime
        <5>2. pc'["server"] \in {"add", "last"} /\ mbc' = mbc
          BY <1>2, <5>1, StepTaken DEF ReadValue, WriteValue
        <5> QED
          BY <3>3, <5>2 DEF Sampling
      <4>2. CASE ~SubmitStep("server")
        BY <3>3, <4>2, OtherStep DEF Sampling
      <4> QED
        BY <4>1, <4>2
    <3> QED
      BY <3>1, <3>2, <3>3
  <2>7. CASE CounterKept(d)
    <3>1. CASE SetLastSampleTime("server") /\ d = mbc["server"]
      <4>1. CounterChanged(d, dicts[d][Counter].points, now)
        <5>1. /\ dicts'[d][Counter].last = now /\ dicts'[d][Counter].points = dicts[d][Counter].points
          <6>1. now \in Times /\ dicts \in Seq(MetricDicts)
            BY Numbers DEF TypeInv, DictsTyped
          <6> QED
            BY <1>2, <2>7, <3>1, <6>1, LastSampleDicts, ContextsAre DEF CounterKept
        <5> QED
          BY <2>7, <5>1 DEF CounterKept, CounterChanged
      <4> QED
        BY <2>5, <3>1, <4>1
    <3>2. CASE ~(SetLastSampleTime("server") /\ d = mbc["server"])
      BY <2>1, <2>6, <2>7, <3>2 DEF CounterKept
    <3> QED
      BY <3>1, <3>2
  <2>8. CASE CounterWritten(d) /\ d = mbc["server"]
    <3>1. CASE WriteValue("server") /\ CounterChanged(d, sum["server"] \cup {received}, dicts[d][Counter].last)
      <4>1. ~SetLastSampleTime("server")
        BY <3>1 DEF WriteValue, SetLastSampleTime
      <4> QED
        BY <2>1, <2>6, <3>1, <4>1 DEF CounterChanged
    <3> QED
      BY <2>5, <2>8, <3>1 DEF CounterWritten
  <2>9. CASE ClearMetric /\ d = mbc["reporter"] /\ CounterChanged(d, {}, dicts[d][Counter].last)
    <3>1. ~SetLastSampleTime("server")
      <4>1. ClearMetric => Flush
        BY DEF Flush
      <4> QED
        BY <1>1, <2>9, <4>1, TurnOf DEF SetLastSampleTime
    <3> QED
      BY <2>1, <2>6, <2>9, <3>1 DEF CounterChanged
  <2> QED
    BY <2>2, <2>4, <2>7, <2>8, <2>9, CounterStep
<1> QED
  BY <1>4, <1>5, <1>7, <1>8, <1>9, <1>10 DEF PointsPlaced

\* A point that is held stays held, or was reported when its dict was flushed.
LEMMA HeldStep ==
    ASSUME Inv, ~interleaved, Turns, [Next]_vars, NEW p \in Points, Held(p)
    PROVE  Held(p)' \/ reported[p] # None
<1> USE DEF Inv
<1>1. TurnsTaken /\ CacheKept /\ PointsPlaced
  BY DEF Turns
<1>2. PICK b \in Buckets : DictOf(b) # NoDict /\ Holds(DictOf(b), p)
  BY Numbers DEF Held, Holds, DictOf
<1> DEFINE d == DictOf(b)
<1>3. d \in 1..Len(dicts)
  BY <1>2 DEF Holds
<1>4. CASE FlushBucketEnd /\ b = Earliest
  <2>1. /\ InBucket /\ pc["reporter"] = "items" /\ Counter \notin items
        /\ mbc["reporter"] = d
    BY <1>1, <1>4 DEF FlushBucketEnd, InBucket, TurnsTaken
  <2> QED
    BY <1>1, <1>2, <2>1 DEF PointsPlaced
<1>5. CASE DictOf(b)' = DictOf(b)
  <2>1. CASE Holds(d, p)'
    <3>1. Counter \in DOMAIN dicts'[DictOf(b)'] /\ p \in dicts'[DictOf(b)'][Counter].points
      BY <1>5, <2>1 DEF Holds
    <3> QED
      BY <1>2, <1>5, <3>1 DEF Held, DictOf
  <2>2. CASE ClearMetric /\ d = mbc["reporter"]
    <3>1. InBucket /\ pc["reporter"] = "clear"
      BY <2>2 DEF ClearMetric, InBucket
    <3> QED
      BY <1>1, <1>2, <2>2, <3>1 DEF PointsPlaced
  <2>3. CASE WriteValue("server") /\ d = mbc["server"] /\ p \notin sum["server"] \cup {received}
    <3>1. sum["server"] = dicts[d][Counter].points
      BY <1>1, <2>3 DEF WriteValue, PointsPlaced
    <3> QED
      BY <1>2, <2>3, <3>1 DEF Holds
  <2>4. ASSUME NEW x \in 1..Len(dicts), x = d
        PROVE  \/ Holds(x, p)'
               \/ WriteValue("server") /\ d = mbc["server"] /\ p \notin sum["server"] \cup {received}
               \/ ClearMetric /\ d = mbc["reporter"]
    <3>1. Holds(x, p)
      BY <1>2, <2>4
    <3> QED
      BY <2>4, <3>1, HoldsKept
  <2>5. PICK x \in 1..Len(dicts) : x = d
    BY <1>3
  <2>6. Holds(x, p)' /\ x = DictOf(b)' => Held(p)'
    BY <1>2, <1>5, <2>5 DEF Held, DictOf, Holds
  <2> QED
    BY <1>5, <2>2, <2>3, <2>4, <2>5, <2>6
<1>6. ASSUME NEW t \in Threads, CreateBucket(t), b = Bucket(t) PROVE FALSE
  <2>1. DictOf(Bucket(t)) = NoDict
    BY <1>1, <1>6 DEF CreateBucket, CacheKept
  <2> QED
    BY <1>2, <1>6, <2>1
<1> QED
  BY <1>4, <1>5, <1>6, DictOfStep

LEMMA PointsKeptStep ==
    ASSUME Inv, ~interleaved, Turns, [Next]_vars PROVE PointsKept'
<1> USE DEF Inv
<1>1. TurnsTaken /\ CacheKept /\ PointsPlaced /\ PointsKept
  BY DEF Turns
<1>2. "server" \in Threads /\ received \in Nat /\ received <= LastPoint
  BY ContextsAre, Bounds DEF TypeInv, PointsTyped, TimesTyped
<1>3. ASSUME NEW p \in Points, reported[p] # None PROVE reported'[p] # None
  <2>1. CASE FlushMetric(Counter)
    <3>1. Earliest \in Buckets
      BY <2>1, BucketFlushed DEF FlushMetric, InBucket
    <3> QED
      BY <1>3, <2>1, <3>1, BucketsAre DEF FlushMetric, None
  <2> QED
    BY <1>3, <2>1, ReportedStep
<1> SUFFICES ASSUME NEW p \in 1..received'
             PROVE  reported'[p] # None \/ Held(p)' \/ (p = received' /\ pc'["server"] # "idle")
  BY DEF PointsKept
<1>4. CASE p \in 1..received
  <2>0. p \in Points
    BY <1>2, <1>4, Bounds
  <2>1. CASE reported[p] # None
    BY <1>3, <2>0, <2>1
  <2>2. CASE Held(p)
    BY <1>3, <2>0, <2>2, HeldStep
  <2>3. CASE p = received /\ pc["server"] # "idle" /\ ~Held(p)
    <3>1. CASE pc'["server"] # "idle"
      <4>1. received' = received
        <5>1. ~Submit("server")
          BY <2>3 DEF Submit
        <5> QED
          BY <5>1, OtherStep DEF submitVars, SubmitStep, Submit, Lookup, UseCached, Find, CreateBucket, GetBucket,
     SetCurrentBucket, SetCurrentMbc, Forgotten, CreateContext, ReadValue, WriteValue,
     SetLastSampleTime
      <4> QED
        BY <2>3, <3>1, <4>1
    <3>2. CASE pc'["server"] = "idle"
      <4>1. GetBucket("server") \/ Forgotten("server") \/ SetLastSampleTime("server")
        <5>1. SubmitStep("server")
          BY <2>3, <3>2, OtherStep
        <5> QED
          BY <1>2, <3>2, <5>1, StepTaken DEF SubmitStep, Submit, Lookup, UseCached, Find, CreateBucket, GetBucket,
     SetCurrentBucket, SetCurrentMbc, Forgotten, CreateContext, ReadValue, WriteValue,
     SetLastSampleTime
      <4>2. ~GetBucket("server")
        <5> SUFFICES ASSUME GetBucket("server") PROVE FALSE
          OBVIOUS
        <5>1. DictOf(Bucket("server")) # NoDict
          BY <1>1, <1>2 DEF GetBucket, CacheKept
        <5>2. pc'["server"] = "setbucket"
          BY <1>2, <5>1, StepTaken DEF GetBucket, DictOf
        <5> QED
          BY <3>2, <5>2
      <4>3. ~Forgotten("server")
        BY <1>1, <1>2 DEF Forgotten, CacheKept, HasDict
      <4>4. ASSUME SetLastSampleTime("server") PROVE FALSE
        <5>1. /\ Holds(mbc["server"], received) /\ mbc["server"] = DictOf(Bucket("server"))
              /\ mbc["server"] # NoDict /\ Bucket("server") \in Buckets
          BY <1>1, <1>2, <4>4, Numbers DEF SetLastSampleTime, PointsPlaced, CacheKept, HasDict
        <5> QED
          BY <2>3, <5>1 DEF Held, Holds, DictOf
      <4> QED
        BY <4>1, <4>2, <4>3, <4>4
    <3> QED
      BY <3>1, <3>2
  <2> QED
    BY <1>1, <1>4, <2>1, <2>2, <2>3 DEF PointsKept
<1>5. CASE p \notin 1..received
  <2>1. Submit("server")
    <3>1. ~Submit("server") => received' = received
      BY OtherStep DEF submitVars, SubmitStep, Submit, Lookup, UseCached, Find, CreateBucket, GetBucket,
     SetCurrentBucket, SetCurrentMbc, Forgotten, CreateContext, ReadValue, WriteValue,
     SetLastSampleTime
    <3> QED
      BY <1>5, <3>1
  <2>2. received' = received + 1 /\ pc'["server"] = "lookup"
    BY <1>2, <2>1, StepTaken DEF Submit
  <2> QED
    BY <1>2, <1>5, <2>2
<1> QED
  BY <1>4, <1>5

LEMMA RightBucketStep ==
    ASSUME Inv, ~interleaved, Turns, [Next]_vars PROVE RightBucket'
<1> USE DEF Inv
<1>1. TurnsTaken /\ PointsPlaced /\ RightBucket
  BY DEF Turns
<1>2. /\ received \in Nat /\ submitted \in [Points -> Times] /\ Points \subseteq Nat
      /\ reported \in [Points -> Buckets \cup {None}]
  BY Bounds DEF TypeInv, PointsTyped, ValuesTyped
<1> SUFFICES ASSUME NEW p \in Points, reported'[p] # None
             PROVE  reported'[p] = calculateBucketStart(submitted'[p])
  BY DEF RightBucket
<1>3. p <= received => submitted'[p] = submitted[p]
  <2>1. CASE Submit("server")
    BY <1>2, <2>1 DEF Submit
  <2>2. CASE ~Submit("server")
    BY <2>2, OtherStep DEF submitVars, SubmitStep, Submit, Lookup, UseCached, Find, CreateBucket, GetBucket,
     SetCurrentBucket, SetCurrentMbc, Forgotten, CreateContext, ReadValue, WriteValue,
     SetLastSampleTime
  <2> QED
    BY <2>1, <2>2
<1>4. CASE reported'[p] = reported[p]
  <2>1. p <= received
    BY <1>4 DEF PointsInv
  <2> QED
    BY <1>1, <1>3, <1>4, <2>1 DEF RightBucket
<1>5. CASE reported'[p] # reported[p]
  <2>1. FlushMetric(Counter) /\ Holds(mbc["reporter"], p) /\ mbc["reporter"] \in Dicts
    BY <1>5, ReportedStep
  <2>2. reported'[p] = Earliest /\ InBucket
    BY <1>5, <2>1 DEF FlushMetric, InBucket
  <2>3. mbc["reporter"] = DictOf(Earliest) /\ mbc["reporter"] # NoDict /\ Earliest \in Buckets
    BY <1>1, <2>2, BucketFlushed DEF TurnsTaken, DictsInv
  <2>4. calculateBucketStart(submitted[p]) = Earliest
    BY <1>1, <2>1, <2>3 DEF PointsPlaced
  <2>5. p <= received
    BY <2>1 DEF PointsInv, Carries
  <2> QED
    BY <1>3, <2>2, <2>4, <2>5
<1> QED
  BY <1>4, <1>5

-----------------------------------------------------------------------------
(* PointsReported *)

LEMMA InvInit == Init => Inv
<1> SUFFICES ASSUME Init PROVE Inv
  OBVIOUS
<1>1. TypeInv
  BY TypeInit
<1>2. /\ dicts = <<>> /\ \A b \in Buckets : metricByBucket[b] = NoDict
      /\ \A t \in Threads : pc[t] = "idle" /\ sum[t] = {} /\ mbc[t] = NoDict
      /\ \A p \in Points : reported[p] = None
      /\ \A b \in Buckets : values[b] = 0
      /\ now = 0 /\ lastFlushCutoff = 0 /\ wake = FlushInterval /\ received = 0
      /\ currentBucket = None
  BY DEF Init
<1>3. pc["server"] = "idle" /\ pc["reporter"] = "idle" /\ sum["server"] = {}
  BY <1>2, ContextsAre
<1>4. DictsInv
  BY <1>2, <1>3 DEF DictsInv, Sampling, InFlush, InBucket
<1>5. \A d, p : ~Carries(d, p)
  BY <1>2, <1>3 DEF Carries, Holds
<1>6. PointsInv
  <2>1. ~twice
    BY DEF Init
  <2> QED
    BY <1>2, <1>3, <1>5, <2>1 DEF PointsInv, Adding
<1>7. Turns
  <2>1. TurnsTaken
    <3>1. calculateBucketStart(now) \in Nat
      BY <1>1, Numbers
    <3> QED
      BY <1>2, <1>3, <3>1, Zenon, SMT DEF TurnsTaken, Submitting, Looking, HasDict, Flushing, InBucket, DictOf
  <2>2. TimeKept
    BY <1>2, <1>3, Bounds DEF TimeKept, Flushing
  <2>3. CacheKept
    BY <1>2, <1>3 DEF CacheKept, HasDict
  <2>4. ValuesOnce
    BY <1>2 DEF ValuesOnce
  <2>5. PointsPlaced
    BY <1>2, <1>3 DEF PointsPlaced, Adding, InBucket, DictOf
  <2>6. PointsKept
    BY <1>2 DEF PointsKept
  <2>7. RightBucket
    BY <1>2 DEF RightBucket
  <2> QED
    BY <2>1, <2>2, <2>3, <2>4, <2>5, <2>6, <2>7 DEF Turns
<1> QED
  BY <1>1, <1>4, <1>6, <1>7 DEF Inv, TurnsInv

LEMMA InvStep == Inv /\ [Next]_vars => Inv'
<1> SUFFICES ASSUME Inv, [Next]_vars PROVE Inv'
  OBVIOUS
<1>1. TypeInv' /\ DictsInv' /\ PointsInv'
  BY TypeStep, DictsStep, PointsInvStep DEF Inv
<1>2. interleaved' = interleaved
  <2>1. ASSUME NEW t \in Threads, SubmitStep(t) PROVE interleaved' = interleaved
    BY <2>1, SubmitFrame DEF Inv
  <2> QED
    BY <2>1, FlushFrame, TickFrame DEF Next, Inv
<1>3. ASSUME ~interleaved PROVE Turns'
  <2>1. Turns
    BY <1>3 DEF Inv, TurnsInv
  <2> QED
    BY <1>3, <2>1, TurnsTakenStep, TimeKeptStep, CacheKeptStep, ValuesOnceStep, PointsPlacedStep,
       PointsKeptStep, RightBucketStep DEF Turns
<1> QED
  BY <1>1, <1>2, <1>3 DEF Inv, TurnsInv

LEMMA InvReported == Inv => PointsReported
<1> SUFFICES ASSUME Inv PROVE PointsReported
  OBVIOUS
<1>1. TypeOK
  BY Typed DEF Inv
<1>2. ~twice
  BY DEF Inv, PointsInv
<1>3. ~interleaved => ValuesOnce /\ PointsKept /\ RightBucket
  BY DEF Inv, TurnsInv, Turns
<1> QED
  BY <1>1, <1>2, <1>3 DEF PointsReported, ReportedOnce, TurnsKeepPoints, ValuesOnce

\* However the submissions and the flushes interleave, no point is reported twice;
\* as long as they take turns, each point is reported in its own bucket or still
\* held, and a bucket has one value.
THEOREM PointsCorrect == Spec => []PointsReported
  BY InvInit, InvStep, InvReported, PTL DEF Spec

-----------------------------------------------------------------------------
(* Intake: the watchdog *)

\* The period of the periodic callback that a time is in.
Period(t) == t \div TransactionFlushInterval

LEMMA IntakeConstants ==
    /\ TransactionFlushInterval \in Nat /\ TransactionFlushInterval > 0
    /\ AlarmDelay \in Nat /\ QueueLimit \in Nat /\ Timeframe \in Nat /\ MaxResets \in Nat /\ MaxSetBack \in Nat
    /\ (MaxResets - 1) * TransactionFlushInterval >= Timeframe
<1>1. TransactionFlushInterval \in Nat \ {0}
  BY IntakeAssumption, Zenon
<1>2. AlarmDelay \in Nat /\ QueueLimit \in Nat /\ Timeframe \in Nat /\ MaxResets \in Nat /\ MaxSetBack \in Nat
  BY IntakeAssumption, Zenon
<1>3. (MaxResets - 1) * TransactionFlushInterval >= Timeframe
  BY IntakeAssumption, Zenon
<1> QED
  BY <1>1, <1>2, <1>3

LEMMA Multiples ==
    ASSUME NEW a \in Int, NEW b \in Int, a <= b
    PROVE  TransactionFlushInterval * a <= TransactionFlushInterval * b
<1> DEFINE D == TransactionFlushInterval
<1>1. D \in Nat /\ D > 0
  BY IntakeConstants
<1> HIDE DEF D
<1>2. D * a <= D * b
  BY <1>1
<1> QED
  BY <1>2 DEF D

LEMMA PeriodOf ==
    ASSUME NEW t \in Int
    PROVE  /\ Period(t) \in Int
           /\ TransactionFlushInterval * Period(t) <= t
           /\ t < TransactionFlushInterval * Period(t) + TransactionFlushInterval
<1> DEFINE D == TransactionFlushInterval
<1>1. D \in Nat /\ D > 0
  BY IntakeConstants
<1> HIDE DEF D
<1>2. t \div D \in Int /\ D * (t \div D) <= t /\ t < D * (t \div D) + D
  BY <1>1
<1> QED
  BY <1>2 DEF D, Period

LEMMA PeriodIs ==
    ASSUME NEW t \in Int, NEW q \in Int, TransactionFlushInterval * q <= t,
           t < TransactionFlushInterval * q + TransactionFlushInterval
    PROVE  Period(t) = q
<1> DEFINE D == TransactionFlushInterval
           p == Period(t)
<1>1. D \in Nat /\ D > 0 /\ p \in Int /\ D * p <= t /\ t < D * p + D /\ D * q <= t /\ t < D * q + D
  BY IntakeConstants, PeriodOf
<1>2. p + 1 \in Int /\ q + 1 \in Int
  BY <1>1
<1>3. p + 1 <= q => D * (p + 1) <= D * q
  BY <1>2, Multiples
<1>4. q + 1 <= p => D * (q + 1) <= D * p
  BY <1>1, <1>2, Multiples
<1> HIDE DEF D, p
<1>5. D * (p + 1) = D * p + D /\ D * (q + 1) = D * q + D /\ D * p \in Int /\ D * q \in Int
  BY <1>1
<1>6. p = q
  BY <1>1, <1>3, <1>4, <1>5
<1> QED
  BY <1>6 DEF p

LEMMA PeriodsPass ==
    ASSUME NEW t \in Int, NEW u \in Int, t <= u
    PROVE  Period(t) <= Period(u)
<1> DEFINE D == TransactionFlushInterval
           p == Period(t)
           q == Period(u)
<1>1. D \in Nat /\ D > 0 /\ p \in Int /\ D * p <= t /\ q \in Int /\ u < D * q + D
  BY IntakeConstants, PeriodOf
<1>2. q + 1 \in Int
  BY <1>1
<1>3. q + 1 <= p => D * (q + 1) <= D * p
  BY <1>1, <1>2, Multiples
<1> HIDE DEF D, p, q
<1>4. D * (q + 1) = D * q + D /\ D * p \in Int /\ D * q \in Int
  BY <1>1
<1>5. p <= q
  BY <1>1, <1>3, <1>4
<1> QED
  BY <1>5 DEF p, q

\* flush_trs() is due again at the beginning of the next period.
LEMMA NextPeriod ==
    ASSUME NEW c \in Int, NEW n \in Int, n = TransactionFlushInterval * Period(n), n <= c
    PROVE  LET m == n + TransactionFlushInterval * ((c - n) \div TransactionFlushInterval + 1)
           IN  m \in Int /\ m = TransactionFlushInterval * Period(m) /\ Period(m) = Period(c) + 1
<1> DEFINE D == TransactionFlushInterval
           p == Period(c)
           q == Period(n)
           m == n + D * (Period(c - n) + 1)
<1>1. D \in Nat /\ D > 0 /\ p \in Int /\ q \in Int /\ D * p <= c /\ c < D * p + D /\ n = D * q /\ c - n \in Int
  BY IntakeConstants, PeriodOf
<1>2. p - q \in Int /\ D * (p - q) <= c - n /\ c - n < D * (p - q) + D
  <2> HIDE DEF D, p, q
  <2>1. D * (p - q) = D * p - D * q /\ D * p \in Int /\ D * q \in Int
    BY <1>1
  <2> QED
    BY <1>1, <2>1
<1>3. Period(c - n) = p - q
  BY <1>1, <1>2, PeriodIs
<1>4. m = D * (p + 1) /\ p + 1 \in Int /\ m \in Int /\ m < m + D
  <2>1. m = D * q + D * (p - q + 1)
    BY <1>1, <1>3
  <2> HIDE DEF D, p, q, m
  <2>2. D * q + D * (p - q + 1) = D * (p + 1) /\ D * (p + 1) \in Int
    BY <1>1
  <2> QED
    BY <1>1, <2>1, <2>2
<1>5. Period(m) = p + 1
  <2>1. D * (p + 1) <= m /\ m < D * (p + 1) + D
    <3> HIDE DEF m, p, D
    <3> QED
      BY <1>4
  <2> HIDE DEF m
  <2> QED
    BY <1>4, <2>1, PeriodIs
<1>6. m = n + D * ((c - n) \div D + 1)
  BY DEF Period
<1> HIDE DEF m
<1> QED
  BY <1>4, <1>5, <1>6

LEMMA IntervalIsFinite == ASSUME NEW n \in Nat PROVE IsFiniteSet(1..n) /\ Cardinality(1..n) = n
<1>1. 1 \in Int /\ n \in Int
  OBVIOUS
<1>2. IsFiniteSet(1..n) /\ Cardinality(1..n) = IF 1 > n THEN 0 ELSE n - 1 + 1
  BY <1>1, FS_Interval, Zenon
<1> QED
  BY <1>2

\* What is left of the resets begins with a recent one.
LEMMA RecentLeft ==
    ASSUME NEW times \in Seq(Int), times # <<>>, NEW latest \in Int, times[Len(times)] = latest
    PROVE  \E k \in 0..(Len(times) - 1) :
              /\ Recent(times, latest) = SubSeq(times, k + 1, Len(times))
              /\ times[k + 1] >= latest - Timeframe
<1> DEFINE S == {i \in 1..Len(times) : times[i] >= latest - Timeframe}
           old == {i \in DOMAIN times : \A j \in 1..i : times[j] < latest - Timeframe}
<1>1. Len(times) \in Nat /\ Len(times) >= 1 /\ DOMAIN times = 1..Len(times) /\ Timeframe \in Nat
      /\ \A i \in 1..Len(times) : times[i] \in Int
  BY IntakeConstants
<1>2. PICK m \in S : \A y \in S : m <= y
  <2>1. S \in SUBSET Int /\ S # {}
    BY <1>1
  <2>2. IsFiniteSet(S)
    BY <1>1, IntervalIsFinite, FS_Subset
  <2> HIDE DEF S
  <2> QED
    BY <2>1, <2>2, LeastOfFinite
<1>3. m - 1 \in Nat /\ m - 1 \in 0..(Len(times) - 1) /\ times[m] >= latest - Timeframe
  BY <1>1, <1>2
<1>4. old = 1..(m - 1)
  <2>1. ASSUME NEW i \in 1..Len(times), i < m PROVE times[i] < latest - Timeframe
    <3>1. i \notin S
      BY <1>1, <1>2, <2>1
    <3> QED
      BY <1>1, <2>1, <3>1
  <2>2. ASSUME NEW i \in old PROVE i \in 1..(m - 1)
    <3>1. i < m
      BY <1>1, <1>3, <2>2
    <3> QED
      BY <1>1, <1>3, <2>2, <3>1
  <2>3. ASSUME NEW i \in 1..(m - 1) PROVE i \in old
    BY <1>1, <1>3, <2>1, <2>3
  <2> QED
    BY <2>2, <2>3
<1>5. Cardinality(old) = m - 1
  BY <1>3, <1>4, IntervalIsFinite
<1> HIDE DEF S
<1>6. Recent(times, latest) = SubSeq(times, m - 1 + 1, Len(times))
  BY <1>5 DEF Recent
<1>7. m - 1 + 1 = m
  BY <1>1, <1>2, <1>3 DEF S
<1> QED
  BY <1>3, <1>6, <1>7

\* The loop that is not stuck has not missed its alarm; no two resets are in the same
\* period, and the next flush comes in a later one.
WatchType ==
    /\ tick \in Nat /\ setBack \in Nat /\ lastReset \in Nat /\ alarm = lastReset + AlarmDelay
    /\ ioloop \in {"running", "stuck", "in a call", "killed"}
    /\ nextFlush \in Int /\ resets \in Seq(Int)
AlarmKnown ==
    /\ ioloop \in {"running", "stuck"} => tick <= alarm
    /\ ioloop = "killed" => tick >= alarm
ResetsApart ==
    /\ \A i, j \in DOMAIN resets : i <= j => Period(resets[j]) - Period(resets[i]) >= j - i
    /\ nextFlush = TransactionFlushInterval * Period(nextFlush)
    /\ \A i \in DOMAIN resets : Period(resets[i]) < Period(nextFlush)
WatchInv == WatchType /\ AlarmKnown /\ ResetsApart

LEMMA ClockType == WatchType => Clock \in Int
<1> SUFFICES ASSUME WatchType PROVE Clock \in Int
  OBVIOUS
<1>1. tick \in Nat /\ setBack \in Nat
  BY DEF WatchType
<1> QED
  BY <1>1 DEF Clock

LEMMA WatchInitially == IntakeInit => WatchInv
<1> SUFFICES ASSUME IntakeInit PROVE WatchInv
  OBVIOUS
<1> DEFINE D == TransactionFlushInterval
<1>1. /\ tick = 0 /\ setBack = 0 /\ ioloop = "running" /\ nextFlush = D /\ alarm = AlarmDelay
      /\ resets = <<0>> /\ lastReset = 0
  BY DEF IntakeInit
<1>2. D \in Nat /\ D > 0 /\ AlarmDelay \in Nat
  BY IntakeConstants
<1>3. Period(0) = 0
  <2>1. D * 0 <= 0 /\ 0 < D * 0 + D
    <3> HIDE DEF D
    <3> QED
      BY <1>2
  <2> QED
    BY <2>1, PeriodIs
<1>4. Period(D) = 1
  <2>1. D * 1 <= D /\ D < D * 1 + D /\ D \in Int
    <3> HIDE DEF D
    <3> QED
      BY <1>2
  <2> HIDE DEF D
  <2>2. Period(D) = 1
    <3> USE DEF D
    <3> QED
      BY <2>1, PeriodIs
  <2> QED
    BY <2>2
<1>5. D = D * 1
  <2> HIDE DEF D
  <2> QED
    BY <1>2
<1> HIDE DEF D
<1>6. WatchType /\ AlarmKnown
  BY <1>1, <1>2 DEF WatchType, AlarmKnown
<1>7. DOMAIN resets = {1} /\ resets[1] = 0
  BY <1>1
<1>8. ResetsApart
  BY <1>1, <1>3, <1>4, <1>5, <1>7 DEF ResetsApart, D
<1> QED
  BY <1>6, <1>8 DEF WatchInv

\* A reset never finds more than MaxResets of them in the timeframe.
LEMMA ResetsBounded ==
    ASSUME WatchInv, FlushTrs
    PROVE  Len(resets') <= MaxResets /\ resets' \in Seq(Int) /\ ResetsApart'
<1> USE DEF WatchInv
<1> DEFINE c == Clock
           times == Append(resets, c)
           n == Len(resets)
<1>1. /\ c \in Int /\ c >= nextFlush /\ resets' = Recent(times, c) /\ nextFlush \in Int
      /\ nextFlush' = nextFlush + TransactionFlushInterval * ((c - nextFlush) \div TransactionFlushInterval + 1)
  <2>1. c \in Int
    BY ClockType
  <2>2. nextFlush \in Int
    BY DEF WatchType
  <2>3. /\ resets' = Recent(times, c)
        /\ nextFlush' = nextFlush + TransactionFlushInterval * ((c - nextFlush) \div TransactionFlushInterval + 1)
    BY Zenon DEF FlushTrs, Remembered
  <2>4. c >= nextFlush
    BY Zenon DEF FlushTrs
  <2> QED
    BY <2>1, <2>2, <2>3, <2>4
<1>2. /\ nextFlush' \in Int /\ nextFlush' = TransactionFlushInterval * Period(nextFlush')
      /\ Period(nextFlush') = Period(c) + 1
  <2>1. nextFlush = TransactionFlushInterval * Period(nextFlush)
    BY DEF ResetsApart
  <2> HIDE DEF c
  <2> QED
    BY <1>1, <2>1, NextPeriod
<1>3. /\ resets \in Seq(Int) /\ n \in Nat /\ DOMAIN resets = 1..n /\ \A i \in 1..n : resets[i] \in Int
      /\ times \in Seq(Int) /\ times # <<>> /\ Len(times) = n + 1 /\ times[n + 1] = c
      /\ \A i \in 1..n : times[i] = resets[i]
  <2>1. resets \in Seq(Int)
    BY DEF WatchType
  <2> HIDE DEF c
  <2> QED
    BY SMTT(30), <1>1, <2>1
<1> HIDE DEF c, times, n
<1>4. \A i \in 1..(n + 1) : times[i] \in Int /\ Period(times[i]) \in Int
  <2>1. ASSUME NEW i \in 1..(n + 1) PROVE times[i] \in Int
    BY <1>1, <1>3
  <2> QED
    BY <2>1, PeriodOf
<1>5. \A i \in 1..n : Period(times[i]) < Period(c)
  <2> SUFFICES ASSUME NEW i \in 1..n PROVE Period(times[i]) < Period(c)
    OBVIOUS
  <2>1. Period(times[i]) \in Int /\ Period(nextFlush) \in Int /\ Period(c) \in Int
    BY <1>1, <1>3, PeriodOf
  <2>2. Period(times[i]) < Period(nextFlush)
    BY <1>3 DEF ResetsApart
  <2>3. Period(nextFlush) <= Period(c)
    BY <1>1, PeriodsPass
  <2> QED
    BY <2>1, <2>2, <2>3
<1>6. \A i, j \in 1..(n + 1) : i <= j => Period(times[j]) - Period(times[i]) >= j - i
  <2> SUFFICES ASSUME NEW i \in 1..(n + 1), NEW j \in 1..(n + 1), i <= j
               PROVE  Period(times[j]) - Period(times[i]) >= j - i
    OBVIOUS
  <2>1. CASE j <= n
    <3>1. i \in 1..n /\ j \in 1..n
      BY <1>3, <2>1
    <3> QED
      BY <1>3, <3>1 DEF ResetsApart
  <2>2. CASE j = n + 1 /\ i = n + 1
    BY <1>3, <1>4, <2>2
  <2>3. CASE j = n + 1 /\ i <= n
    <3>1. i \in 1..n /\ n \in 1..n
      BY <1>3, <2>3
    <3>2. Period(times[n]) - Period(times[i]) >= n - i
      BY <1>3, <2>3, <3>1 DEF ResetsApart
    <3>3. Period(times[n]) < Period(times[n + 1])
      BY <1>3, <1>5, <3>1
    <3>4. Period(times[n]) \in Int /\ Period(times[n + 1]) \in Int /\ Period(times[i]) \in Int
      BY <1>3, <1>4, <3>1
    <3> QED
      BY <1>3, <2>3, <3>1, <3>2, <3>3, <3>4
  <2> QED
    BY <1>3, <2>1, <2>2, <2>3
<1>7. PICK k \in 0..n : resets' = SubSeq(times, k + 1, n + 1) /\ times[k + 1] >= c - Timeframe
  <2>1. Len(times) - 1 = n /\ times[Len(times)] = c
    BY <1>3
  <2>2. PICK k \in 0..(Len(times) - 1) :
              /\ Recent(times, c) = SubSeq(times, k + 1, Len(times))
              /\ times[k + 1] >= c - Timeframe
    BY <1>1, <1>3, <2>1, RecentLeft
  <2> QED
    BY <1>1, <1>3, <2>1, <2>2
<1>8. /\ k \in Int /\ resets' \in Seq(Int) /\ Len(resets') = n + 1 - k /\ DOMAIN resets' = 1..(n + 1 - k)
      /\ \A i \in 1..(n + 1 - k) : resets'[i] = times[i + k]
  BY <1>3, <1>4, <1>7
<1>9. Len(resets') <= MaxResets
  <2> DEFINE D == TransactionFlushInterval
             p == Period(times[k + 1])
             q == Period(c)
             M == MaxResets
             T == Timeframe
             x == times[k + 1]
  <2>1. SUFFICES ASSUME M + 1 <= n + 1 - k PROVE FALSE
    BY <1>3, <1>8, IntakeConstants
  <2>2. k + 1 \in 1..(n + 1) /\ n + 1 \in 1..(n + 1) /\ k + 1 <= n + 1
    BY <1>3, <1>7
  <2>3. q - p >= (n + 1) - (k + 1)
    BY <1>3, <1>6, <2>2
  <2>4. x \in Int /\ x >= c - T /\ x < D * p + D /\ p \in Int
    BY <1>4, <1>7, <2>2, PeriodOf
  <2>5. D * q <= c /\ q \in Int
    BY <1>1, PeriodOf
  <2>6. D \in Nat /\ D > 0 /\ M \in Nat /\ T \in Nat /\ (M - 1) * D >= T
    BY IntakeConstants
  <2>7. p + M <= q /\ p + M \in Int
    <3> HIDE DEF p, q, M
    <3> QED
      BY <1>3, <1>7, <2>1, <2>3, <2>4, <2>5, <2>6
  <2>8. D * (p + M) <= D * q
    BY <2>5, <2>7, Multiples
  <2> HIDE DEF D, p, q, M, T, x
  <2>9. D * (p + M) = D * p + D + (M - 1) * D /\ D * p \in Int /\ D * q \in Int /\ (M - 1) * D \in Int
    BY <2>4, <2>5, <2>6
  <2> QED
    BY <1>1, <2>4, <2>5, <2>6, <2>8, <2>9
<1>10. ASSUME NEW i \in DOMAIN resets', NEW j \in DOMAIN resets', i <= j
       PROVE  Period(resets'[j]) - Period(resets'[i]) >= j - i
  <2>1. i \in 1..(n + 1 - k) /\ j \in 1..(n + 1 - k)
    BY <1>8
  <2>2. i + k \in 1..(n + 1) /\ j + k \in 1..(n + 1) /\ i + k <= j + k /\ (j + k) - (i + k) = j - i
    <3>1. n \in Int /\ k \in Int /\ i \in Int /\ j \in Int /\ 0 <= k /\ k <= n /\ 1 <= i /\ i <= j /\ j <= n + 1 - k
      BY <1>3, <1>10, <2>1
    <3> QED
      BY <3>1
  <2>3. resets'[i] = times[i + k] /\ resets'[j] = times[j + k]
    BY <1>8, <2>1
  <2> QED
    BY <1>6, <2>2, <2>3
<1>11. ASSUME NEW i \in DOMAIN resets' PROVE Period(resets'[i]) < Period(nextFlush')
  <2>1. i \in 1..(n + 1 - k) /\ i + k \in 1..(n + 1) /\ resets'[i] = times[i + k]
    <3>1. i \in 1..(n + 1 - k) /\ n \in Int /\ k \in Int /\ 0 <= k
      BY <1>3, <1>8
    <3> QED
      BY <1>8, <3>1
  <2>2. Period(times[i + k]) \in Int /\ Period(c) \in Int /\ Period(times[i + k]) <= Period(c)
    <3>1. Period(times[i + k]) \in Int
      BY <1>4, <2>1
    <3>2. Period(c) \in Int
      BY <1>1, PeriodOf
    <3>3. i + k = n + 1 \/ i + k \in 1..n
      BY <1>3, <2>1
    <3> QED
      BY <1>3, <1>5, <3>1, <3>2, <3>3
  <2> QED
    BY <1>2, <2>1, <2>2
<1>12. ResetsApart'
  BY <1>2, <1>10, <1>11 DEF ResetsApart, Period
<1> QED
  BY <1>8, <1>9, <1>12

LEMMA WatchStep == WatchInv /\ [IntakeNext]_intakeVars => WatchInv'
<1> SUFFICES ASSUME WatchInv, [IntakeNext]_intakeVars PROVE WatchInv'
  OBVIOUS
<1> USE DEF WatchInv
<1>0. AlarmDelay \in Nat /\ MaxResets \in Nat
  BY IntakeConstants
<1>1. CASE FlushTrs
  <2>1. Len(resets') <= MaxResets /\ resets' \in Seq(Int) /\ ResetsApart'
    BY <1>1, ResetsBounded
  <2>2. ~(Len(resets') > MaxResets)
    BY <1>0, <2>1
  <2>3. alarm' = tick + AlarmDelay /\ lastReset' = tick /\ ioloop' = ioloop /\ ioloop = "running"
        /\ tick' = tick /\ setBack' = setBack
    BY <1>1, <2>2 DEF FlushTrs, Responsive, clockVars
  <2>4. nextFlush' \in Int
    <3>1. nextFlush \in Int /\ Clock \in Int
      BY ClockType DEF WatchType
    <3>2. nextFlush' = nextFlush + TransactionFlushInterval * ((Clock - nextFlush) \div TransactionFlushInterval + 1)
      BY <1>1 DEF FlushTrs
    <3>3. nextFlush = TransactionFlushInterval * Period(nextFlush) /\ nextFlush <= Clock
      BY <1>1, <3>1 DEF ResetsApart, FlushTrs
    <3> QED
      BY <3>1, <3>2, <3>3, NextPeriod
  <2>5. WatchType'
    BY <1>0, <2>1, <2>3, <2>4 DEF WatchType
  <2>6. AlarmKnown'
    BY <1>0, <2>3 DEF AlarmKnown, WatchType
  <2> QED
    BY <2>1, <2>5, <2>6
<1>2. ASSUME UNCHANGED watchVars,
             \/ UNCHANGED <<clockVars, ioloop>>
             \/ AlarmRings \/ TimePasses \/ GetsStuck \/ Resumes \/ ClockSetBack
      PROVE  WatchInv'
  <2>1. UNCHANGED <<nextFlush, alarm, resets, lastReset>>
    BY <1>2 DEF watchVars
  <2>2. ResetsApart'
    BY <2>1 DEF ResetsApart, Period
  <2>3. /\ tick \in Nat /\ setBack \in Nat /\ lastReset \in Nat /\ alarm \in Nat /\ AlarmDelay \in Nat
        /\ alarm' = lastReset' + AlarmDelay /\ nextFlush' \in Int /\ resets' \in Seq(Int) /\ lastReset' \in Nat
        /\ ioloop \in {"running", "stuck", "in a call", "killed"}
    <3>1. /\ tick \in Nat /\ setBack \in Nat /\ lastReset \in Nat /\ alarm = lastReset + AlarmDelay
          /\ nextFlush \in Int /\ resets \in Seq(Int) /\ ioloop \in {"running", "stuck", "in a call", "killed"}
      BY DEF WatchType
    <3>2. alarm \in Nat
      <4>1. lastReset \in Nat /\ alarm = lastReset + AlarmDelay
        BY <3>1
      <4> QED
        BY <1>0, <4>1
    <3> QED
      BY <1>0, <2>1, <3>1, <3>2
  <2>4. tick' \in Nat /\ setBack' \in Nat /\ ioloop' \in {"running", "stuck", "in a call", "killed"} /\ AlarmKnown'
    <3>1. CASE UNCHANGED <<clockVars, ioloop>>
      BY <2>1, <2>3, <3>1 DEF AlarmKnown, clockVars
    <3>2. CASE AlarmRings
      BY <2>1, <2>3, <3>2 DEF AlarmRings, AlarmKnown, clockVars
    <3>3. CASE TimePasses
      <4>1. /\ tick' = tick + 1 /\ setBack' = setBack /\ ioloop' = ioloop /\ ioloop # "killed"
            /\ ioloop # "in a call" => tick < alarm
        BY <3>3 DEF TimePasses
      <4>2. tick' \in Nat /\ (ioloop # "in a call" => tick' <= alarm)
        <5>1. tick \in Nat /\ alarm \in Nat
          BY <2>3
        <5>2. tick' = tick + 1
          BY <4>1
        <5>3. tick' \in Nat
          BY <5>1, <5>2
        <5>4. ASSUME ioloop # "in a call" PROVE tick' <= alarm
          <6>1. tick < alarm
            BY <4>1, <5>4
          <6> QED
            BY <5>1, <5>2, <6>1
        <5> QED
          BY <5>3, <5>4
      <4> QED
        BY <2>1, <2>3, <4>1, <4>2 DEF AlarmKnown
    <3>4. CASE GetsStuck
      BY <2>1, <2>3, <3>4 DEF GetsStuck, Responsive, AlarmKnown, clockVars
    <3>5. CASE Resumes
      <4>1. tick' = tick /\ setBack' = setBack /\ ioloop' = "running" /\ tick < alarm /\ alarm' = alarm
        BY <2>1, <3>5 DEF Resumes, clockVars
      <4>2. tick <= alarm
        <5>1. tick \in Nat /\ alarm \in Nat
          BY <2>3
        <5> QED
          BY <4>1, <5>1
      <4> QED
        BY <2>3, <4>1, <4>2 DEF AlarmKnown
    <3>6. CASE ClockSetBack
      <4>1. tick' = tick /\ setBack' \in 1..MaxSetBack /\ ioloop' = ioloop
        BY <3>6 DEF ClockSetBack
      <4>2. setBack' \in Nat
        BY <4>1, IntakeConstants
      <4> QED
        BY <2>1, <2>3, <4>1, <4>2 DEF AlarmKnown
    <3> QED
      BY <1>2, <3>1, <3>2, <3>3, <3>4, <3>5, <3>6
  <2>5. WatchType'
    BY <2>3, <2>4 DEF WatchType
  <2> QED
    BY <2>2, <2>4, <2>5
<1>3. CASE \E r \in Intakes : PostRequest(r)
  BY <1>2, <1>3 DEF PostRequest
<1>4. CASE \E e \in Emitters : EmitterTakes(e) \/ EmitterDone(e)
  BY <1>2, <1>4 DEF EmitterTakes, EmitterDone
<1>5. CASE ReadGraphite
  BY <1>2, <1>5 DEF ReadGraphite
<1>6. CASE AlarmRings \/ TimePasses \/ GetsStuck \/ Resumes \/ ClockSetBack
  BY <1>2, <1>6 DEF AlarmRings, TimePasses, GetsStuck, Resumes, ClockSetBack
<1>7. CASE UNCHANGED intakeVars
  BY <1>2, <1>7 DEF intakeVars
<1> QED
  BY <1>1, <1>3, <1>4, <1>5, <1>6, <1>7 DEF IntakeNext

-----------------------------------------------------------------------------
(* Intake: what it takes in *)

PacketSet == {Packet(r) : r \in Intakes} \cup {OfPoints(list) : list \in Seq(Nat)}
Urls == {"series", "check_run", "intake"}
Deliveries == [what : PacketSet, url : Urls, endpoint : IntakeEndpoints]
GraphiteItems == {"point", "bad", "no pair"}
GraphiteMessages == [pickled : BOOLEAN, items : Seq(GraphiteItems)]

AccountType ==
    /\ accepted \in Seq(PacketSet) /\ made \in Seq(Deliveries)
    /\ points \in Nat /\ metrics \in Seq(Nat) /\ toRead \in Seq(GraphiteMessages)
    /\ emitterQueue \in [Emitters -> Seq(PacketSet)]
    /\ emitting \in [Emitters -> Seq(PacketSet)] /\ handed \in [Emitters -> Seq(PacketSet)]
    /\ overflowed \in [Emitters -> SUBSET PacketSet]

WasAccepted(x) == \E i \in DOMAIN accepted : accepted[i] = x

\* The k-th transaction is the one of the packet for the endpoint.
MadeFor(x, e, k) == k \in DOMAIN made /\ made[k].what = x /\ made[k].endpoint = e
MadeOnce ==
    /\ \A k \in DOMAIN made : WasAccepted(made[k].what)
    /\ \A i \in DOMAIN accepted, e \in IntakeEndpoints :
          \E k : MadeFor(accepted[i], e, k) /\ \A j : MadeFor(accepted[i], e, j) => j = k

RefusedKnown == \A x \in refused : x.points = <<>> /\ ~WasAccepted(x)

\* The point is the i-th of those to be posted, or of the n-th packet.
PointAt(n, i, p) ==
    \/ n = 0 /\ i \in DOMAIN metrics /\ metrics[i] = p
    \/ n \in DOMAIN accepted /\ i \in DOMAIN accepted[n].points /\ accepted[n].points[i] = p
PointsKnown ==
    /\ \A n, i, p : PointAt(n, i, p) => p \in 1..points
    /\ \A p \in 1..points : \E n, i : PointAt(n, i, p) /\ \A m, j : PointAt(m, j, p) => m = n /\ j = i

EmittersKnown ==
    \A e \in Emitters :
        /\ \A x \in overflowed[e] : WasAccepted(x)
        /\ Len(Taken(e)) = Cardinality(RoomFor(e))
        /\ \A i \in RoomFor(e) : Taken(e)[Place(i, RoomFor(e))] = accepted[i]

AccountInv == AccountType /\ MadeOnce /\ RefusedKnown /\ PointsKnown /\ EmittersKnown

LEMMA PacketsAre ==
    /\ \A r \in Intakes : Packet(r) \in PacketSet /\ Packet(r).points = <<>>
    /\ \A list \in Seq(Nat) : OfPoints(list) \in PacketSet /\ OfPoints(list).points = list
    /\ \A x \in PacketSet : x.points \in Seq(Nat)
<1>1. \A r \in Intakes : Packet(r) \in PacketSet /\ Packet(r).points = <<>>
  BY DEF PacketSet, Packet
<1>2. \A list \in Seq(Nat) : OfPoints(list) \in PacketSet /\ OfPoints(list).points = list
  BY DEF PacketSet, OfPoints
<1>3. <<>> \in Seq(Nat)
  OBVIOUS
<1>4. ASSUME NEW x \in PacketSet PROVE x.points \in Seq(Nat)
  <2>1. (\E r \in Intakes : x = Packet(r)) \/ \E list \in Seq(Nat) : x = OfPoints(list)
    BY Zenon DEF PacketSet
  <2> QED
    BY <1>1, <1>2, <1>3, <2>1
<1> QED
  BY <1>1, <1>2, <1>4

\* One transaction for each endpoint, in some order.
LEMMA OneEach ==
    ASSUME NEW what \in PacketSet, NEW url \in Urls
    PROVE  \E s \in Seq(Deliveries) :
              /\ Transactions(what, url) = made \o s
              /\ \A k \in 1..Len(s) : s[k].what = what
              /\ \A e \in IntakeEndpoints :
                    \E k \in 1..Len(s) : s[k].endpoint = e /\ \A j \in 1..Len(s) : s[j].endpoint = e => j = k
<1> DEFINE one(e) == [what |-> what, url |-> url, endpoint |-> e]
           T == {one(e) : e \in IntakeEndpoints}
           s == SetToSeq(T)
           n == Cardinality(T)
<1>1. IsFiniteSet(IntakeEndpoints)
  BY IntakeAssumption, Zenon
<1>2. IsFiniteSet(T)
  <2>1. [e \in IntakeEndpoints |-> one(e)] \in Surjection(IntakeEndpoints, T)
    BY DEF Surjection
  <2> HIDE DEF T
  <2> QED
    BY <1>1, <2>1, FS_Surjection
<1>3. n \in Nat /\ ExistsBijection(1..n, T)
  BY <1>2, FS_CardinalityType
<1>4. s \in [1..n -> T] /\ IsInjective(s)
  <2>1. PICK f \in Bijection(1..n, T) : TRUE
    BY <1>3 DEF ExistsBijection
  <2>2. f \in [1..n -> T] /\ IsInjective(f)
    BY <2>1 DEF Bijection, Injection
  <2> HIDE DEF T
  <2> QED
    BY <2>2 DEF SetToSeq
<1>5. s \in Surjection(1..n, T)
  <2>1. s \in Injection(1..n, T)
    BY <1>4 DEF Injection
  <2>2. IsFiniteSet(1..n) /\ Cardinality(1..n) = n
    BY <1>3, IntervalIsFinite
  <2> HIDE DEF T, s
  <2> QED
    BY <1>2, <2>1, <2>2, FS_Injection
<1>6. T \subseteq Deliveries
  BY DEF Deliveries
<1>7. s \in Seq(Deliveries) /\ Len(s) = n
  <2>1. s \in Seq(T) /\ Len(s) = n
    <3> HIDE DEF T, s
    <3> QED
      BY <1>3, <1>4
  <2> HIDE DEF T, s, n
  <2> QED
    BY <1>6, <2>1
<1>8. \A k \in 1..n : s[k].what = what /\ s[k] = one(s[k].endpoint)
  <2> SUFFICES ASSUME NEW k \in 1..n PROVE s[k].what = what /\ s[k] = one(s[k].endpoint)
    OBVIOUS
  <2>1. s[k] \in T
    <3> HIDE DEF T, s
    <3> QED
      BY <1>4
  <2> HIDE DEF s
  <2> QED
    BY <2>1
<1>9. ASSUME NEW e \in IntakeEndpoints
      PROVE  \E k \in 1..n : s[k].endpoint = e /\ \A j \in 1..n : s[j].endpoint = e => j = k
  <2>1. PICK k \in 1..n : s[k] = one(e)
    <3>1. one(e) \in T
      OBVIOUS
    <3> HIDE DEF T, s, one
    <3> QED
      BY <1>5, <3>1 DEF Surjection
  <2>2. s[k].endpoint = e
    BY <2>1
  <2>3. ASSUME NEW j \in 1..n, s[j].endpoint = e PROVE j = k
    <3>1. s[j] = s[k]
      <4> HIDE DEF s
      <4> QED
        BY <1>8, <2>1, <2>3
    <3> HIDE DEF s, T
    <3> QED
      BY <1>4, <3>1 DEF IsInjective
  <2> QED
    BY <2>2, <2>3
<1>10. Transactions(what, url) = made \o s
  BY DEF Transactions, ForEveryEndpoint
<1> HIDE DEF s, n
<1> QED
  BY <1>7, <1>8, <1>9, <1>10

LEMMA TakenIs ==
    ASSUME AccountType, NEW e \in Emitters
    PROVE  /\ Taken(e) \in Seq(PacketSet)
           /\ Len(Taken(e)) = Len(handed[e]) + Len(emitting[e]) + Len(emitterQueue[e])
  BY DEF AccountType, Taken

LEMMA RoomIsFinite ==
    ASSUME AccountType, NEW e
    PROVE  IsFiniteSet(RoomFor(e)) /\ Cardinality(RoomFor(e)) \in Nat /\ RoomFor(e) \subseteq 1..Len(accepted)
<1>1. Len(accepted) \in Nat /\ RoomFor(e) \in SUBSET (1..Len(accepted))
  BY DEF AccountType, RoomFor
<1>2. IsFiniteSet(RoomFor(e))
  BY <1>1, IntervalIsFinite, FS_Subset
<1> QED
  BY <1>1, <1>2, FS_CardinalityType

\* A packet is new: it has its transactions, and each emitter it unless it has no room.
LEMMA MadeStep ==
    ASSUME AccountInv, NEW x \in PacketSet, ~WasAccepted(x), NEW url \in Urls,
           accepted' = Append(accepted, x), made' = Transactions(x, url)
    PROVE  /\ accepted' \in Seq(PacketSet) /\ made' \in Seq(Deliveries) /\ MadeOnce'
           /\ \A y : (\E i \in DOMAIN accepted' : accepted'[i] = y) <=> (WasAccepted(y) \/ y = x)
           /\ \A k \in DOMAIN made' : (k \in DOMAIN made /\ made'[k] = made[k]) \/ made'[k].what = x
<1> USE DEF AccountInv
<1> DEFINE a == Len(accepted)
           m == Len(made)
           there(k, y, e) == k \in DOMAIN made' /\ made'[k].what = y /\ made'[k].endpoint = e
<1>1. /\ accepted \in Seq(PacketSet) /\ a \in Nat /\ DOMAIN accepted = 1..a
      /\ made \in Seq(Deliveries) /\ m \in Nat /\ DOMAIN made = 1..m
  BY DEF AccountType
<1>2. /\ accepted' \in Seq(PacketSet) /\ DOMAIN accepted' = 1..(a + 1) /\ accepted'[a + 1] = x
      /\ \A i \in 1..a : accepted'[i] = accepted[i]
  BY <1>1
<1>3. PICK s \in Seq(Deliveries) :
              /\ Transactions(x, url) = made \o s
              /\ \A k \in 1..Len(s) : s[k].what = x
              /\ \A e \in IntakeEndpoints :
                    \E k \in 1..Len(s) : s[k].endpoint = e /\ \A j \in 1..Len(s) : s[j].endpoint = e => j = k
  <2> HIDE DEF a, m, there
  <2> QED
    BY OneEach
<1>4. /\ made' \in Seq(Deliveries) /\ Len(s) \in Nat /\ DOMAIN made' = 1..(m + Len(s))
      /\ \A k \in 1..m : made'[k] = made[k]
      /\ \A k \in 1..Len(s) : made'[m + k] = s[k]
  <2>1. made' = made \o s
    BY <1>3
  <2> QED
    BY <1>1, <1>3, <2>1
<1> HIDE DEF a, m
<1>5. \A k \in 1..(m + Len(s)) : k \in 1..m \/ \E j \in 1..Len(s) : k = m + j
  <2> SUFFICES ASSUME NEW k \in 1..(m + Len(s)), k \notin 1..m PROVE \E j \in 1..Len(s) : k = m + j
    OBVIOUS
  <2>1. k - m \in 1..Len(s) /\ k = m + (k - m)
    BY <1>1, <1>4
  <2> QED
    BY <2>1
<1>6. \A y : (\E i \in 1..(a + 1) : accepted'[i] = y) <=> (WasAccepted(y) \/ y = x)
  <2>1. \A i \in 1..(a + 1) : i \in 1..a \/ i = a + 1
    BY <1>1
  <2>2. 1..a \subseteq 1..(a + 1) /\ a + 1 \in 1..(a + 1)
    BY <1>1
  <2> QED
    BY <1>1, <1>2, <2>1, <2>2 DEF WasAccepted
<1>7. ASSUME NEW k \in 1..(m + Len(s)) PROVE (k \in 1..m /\ made'[k] = made[k]) \/ made'[k].what = x
  <2>1. CASE k \in 1..m
    BY <1>4, <2>1
  <2>2. CASE \E j \in 1..Len(s) : k = m + j
    <3>1. PICK j \in 1..Len(s) : k = m + j
      BY <2>2
    <3>2. made'[k] = s[j] /\ s[j].what = x
      BY <1>3, <1>4, <3>1
    <3> QED
      BY <3>2
  <2> QED
    BY <1>5, <2>1, <2>2
<1>8. ASSUME NEW k \in 1..(m + Len(s)) PROVE \E i \in 1..(a + 1) : accepted'[i] = made'[k].what
  <2>1. PICK y : y = made'[k].what
    OBVIOUS
  <2>2. WasAccepted(y) \/ y = x
    BY <1>1, <1>7, <2>1 DEF MadeOnce
  <2> QED
    BY <1>6, <2>1, <2>2
<1>9. ASSUME NEW i \in 1..a, NEW e \in IntakeEndpoints
      PROVE  \E k : there(k, accepted[i], e) /\ \A j : there(j, accepted[i], e) => j = k
  <2>1. PICK k : MadeFor(accepted[i], e, k) /\ \A j : MadeFor(accepted[i], e, j) => j = k
    BY <1>1, <1>9 DEF MadeOnce
  <2>2. accepted[i] # x
    BY <1>1, <1>9 DEF WasAccepted
  <2>3. k \in 1..m /\ made[k].what = accepted[i] /\ made[k].endpoint = e
    BY <1>1, <2>1 DEF MadeFor
  <2>4. there(k, accepted[i], e)
    <3>1. 1..m \subseteq 1..(m + Len(s))
      BY <1>1, <1>4
    <3> QED
      BY <1>4, <2>3, <3>1
  <2>5. ASSUME NEW j, there(j, accepted[i], e) PROVE j = k
    <3>1. j \in 1..m /\ made'[j] = made[j]
      BY <1>4, <1>7, <2>2, <2>5
    <3> QED
      BY <1>1, <2>1, <2>5, <3>1 DEF MadeFor
  <2> QED
    BY <2>4, <2>5
<1>10. ASSUME NEW e \in IntakeEndpoints
      PROVE  \E k : there(k, x, e) /\ \A j : there(j, x, e) => j = k
  <2>1. PICK k \in 1..Len(s) : s[k].endpoint = e /\ \A j \in 1..Len(s) : s[j].endpoint = e => j = k
    BY <1>3
  <2>2. there(m + k, x, e)
    <3>1. m + k \in 1..(m + Len(s))
      BY <1>1, <1>4
    <3> QED
      BY <1>3, <1>4, <2>1, <3>1
  <2>3. ASSUME NEW j, there(j, x, e) PROVE j = m + k
    <3>1. j \notin 1..m
      <4>1. \A l \in 1..m : made[l].what # x
        BY <1>1 DEF MadeOnce
      <4> QED
        BY <1>4, <2>3, <4>1
    <3>2. PICK l \in 1..Len(s) : j = m + l
      BY <1>4, <1>5, <2>3, <3>1
    <3>3. s[l].endpoint = e
      BY <1>4, <2>3, <3>2
    <3> QED
      BY <2>1, <3>2, <3>3
  <2> QED
    BY <2>2, <2>3
<1>11. ASSUME NEW i \in 1..(a + 1), NEW e \in IntakeEndpoints
      PROVE  \E k : there(k, accepted'[i], e) /\ \A j : there(j, accepted'[i], e) => j = k
  <2>1. PICK y : y = accepted'[i]
    OBVIOUS
  <2>2. i \in 1..a \/ i = a + 1
    BY <1>1
  <2>3. (i \in 1..a /\ y = accepted[i]) \/ y = x
    BY <1>2, <2>1, <2>2
  <2>4. \E k : there(k, y, e) /\ \A j : there(j, y, e) => j = k
    <3> HIDE DEF there
    <3>1. CASE y = x
      <4>1. \E k : there(k, x, e) /\ \A j : there(j, x, e) => j = k
        BY <1>10
      <4> QED
        BY <3>1, <4>1
    <3>2. CASE i \in 1..a /\ y = accepted[i]
      <4>1. \E k : there(k, accepted[i], e) /\ \A j : there(j, accepted[i], e) => j = k
        BY <1>9, <3>2
      <4> QED
        BY <3>2, <4>1
    <3> QED
      BY <2>3, <3>1, <3>2
  <2> QED
    BY <2>1, <2>4
<1>12. MadeOnce'
  <2>1. \A k \in DOMAIN made' : \E i \in DOMAIN accepted' : accepted'[i] = made'[k].what
    BY <1>2, <1>4, <1>8
  <2>2. \A i \in DOMAIN accepted', e \in IntakeEndpoints :
            \E k : there(k, accepted'[i], e) /\ \A j : there(j, accepted'[i], e) => j = k
    <3> HIDE DEF there
    <3> QED
      BY <1>2, <1>11
  <2> QED
    BY <2>1, <2>2, Zenon DEF MadeOnce, MadeFor, WasAccepted
<1> QED
  BY <1>1, <1>2, <1>4, <1>6, <1>7, <1>12

LEMMA PlaceLast ==
    ASSUME NEW a \in Nat, NEW S \in SUBSET (1..a)
    PROVE  /\ Cardinality(S \cup {a + 1}) = Cardinality(S) + 1
           /\ Place(a + 1, S \cup {a + 1}) = Cardinality(S) + 1
           /\ \A i \in S : /\ Place(i, S \cup {a + 1}) = Place(i, S)
                           /\ Place(i, S) \in 1..Cardinality(S)
<1>1. IsFiniteSet(S) /\ Cardinality(S) \in Nat
  BY IntervalIsFinite, FS_Subset, FS_CardinalityType
<1>2. a + 1 \notin S
  OBVIOUS
<1>3. Cardinality(S \cup {a + 1}) = Cardinality(S) + 1
  BY <1>1, <1>2, FS_AddElement
<1>4. {j \in S \cup {a + 1} : j <= a + 1} = S \cup {a + 1}
  <2>1. \A j \in S \cup {a + 1} : j <= a + 1
    OBVIOUS
  <2> QED
    BY <2>1, Zenon
<1>5. ASSUME NEW i \in S PROVE /\ Place(i, S \cup {a + 1}) = Place(i, S)
                               /\ Place(i, S) \in 1..Cardinality(S)
  <2> DEFINE P == {j \in S : j <= i}
  <2>1. {j \in S \cup {a + 1} : j <= i} = P
    OBVIOUS
  <2>2. P \subseteq S /\ i \in P
    OBVIOUS
  <2> HIDE DEF P
  <2>3. IsFiniteSet(P) /\ Cardinality(P) \in Nat /\ Cardinality(P) <= Cardinality(S)
    BY <1>1, <2>2, FS_Subset, FS_CardinalityType
  <2>4. Cardinality(P) # 0
    BY <2>2, <2>3, FS_EmptySet
  <2>5. Cardinality(P) \in 1..Cardinality(S)
    BY <1>1, <2>3, <2>4
  <2> QED
    BY <2>1, <2>5 DEF Place, P
<1> QED
  BY <1>3, <1>4, <1>5 DEF Place

\* An emitter gets the packet last, or its queue is full.
LEMMA EnqueueStep ==
    ASSUME AccountInv, NEW x \in PacketSet, ~WasAccepted(x), accepted' = Append(accepted, x), Enqueue(x)
    PROVE  /\ emitterQueue' \in [Emitters -> Seq(PacketSet)] /\ emitting' = emitting /\ handed' = handed
           /\ overflowed' \in [Emitters -> SUBSET PacketSet] /\ EmittersKnown'
<1> USE DEF AccountInv
<1> DEFINE a == Len(accepted)
<1>1. a \in Nat /\ DOMAIN accepted = 1..a /\ accepted \in Seq(PacketSet)
  BY DEF AccountType
<1>2. /\ DOMAIN accepted' = 1..(a + 1) /\ accepted'[a + 1] = x
      /\ \A i \in 1..a : accepted'[i] = accepted[i] /\ accepted'[i] # x
  BY <1>1 DEF WasAccepted
<1>3. /\ emitterQueue \in [Emitters -> Seq(PacketSet)] /\ emitting \in [Emitters -> Seq(PacketSet)]
      /\ handed \in [Emitters -> Seq(PacketSet)] /\ overflowed \in [Emitters -> SUBSET PacketSet]
  BY DEF AccountType
<1>4. emitting' = emitting /\ handed' = handed
  BY DEF Enqueue
<1>5. ASSUME NEW e \in Emitters
      PROVE  \/ /\ emitterQueue'[e] = Append(emitterQueue[e], x) /\ overflowed'[e] = overflowed[e]
             \/ /\ emitterQueue'[e] = emitterQueue[e] /\ overflowed'[e] = overflowed[e] \cup {x}
  BY DEF Enqueue
<1>6. emitterQueue' \in [Emitters -> Seq(PacketSet)]
  BY <1>3 DEF Enqueue
<1>7. overflowed' \in [Emitters -> SUBSET PacketSet]
  BY <1>3 DEF Enqueue
<1> HIDE DEF a
<1>8. ASSUME NEW e \in Emitters
      PROVE  /\ \A y \in overflowed'[e] : \E i \in DOMAIN accepted' : accepted'[i] = y
             /\ Len(Taken(e)') = Cardinality(RoomFor(e)')
             /\ \A i \in RoomFor(e)' : Taken(e)'[Place(i, RoomFor(e)')] = accepted'[i]
  <2> DEFINE T == Taken(e)
             R1 == RoomFor(e)
             T2 == handed[e] \o emitting[e] \o emitterQueue'[e]
             R2 == {i \in DOMAIN accepted' : accepted'[i] \notin overflowed'[e]}
  <2>1. Taken(e)' = T2 /\ RoomFor(e)' = R2
    BY <1>4 DEF Taken, RoomFor
  <2>2. T \in Seq(PacketSet) /\ Len(T) = Cardinality(R1) /\ \A i \in R1 : T[Place(i, R1)] = accepted[i]
    BY TakenIs DEF EmittersKnown
  <2>3. R1 \in SUBSET (1..a) /\ Cardinality(R1) \in Nat
    BY <1>1, RoomIsFinite
  <2>4. \A y \in overflowed[e] : \E i \in 1..a : accepted[i] = y
    BY <1>1 DEF EmittersKnown, WasAccepted
  <2>5. \A y \in overflowed'[e] : \E i \in DOMAIN accepted' : accepted'[i] = y
    <3>1. \A i \in 1..a : i \in 1..(a + 1)
      BY <1>1
    <3>2. a + 1 \in 1..(a + 1)
      BY <1>1
    <3> QED
      BY <1>2, <1>5, <2>4, <3>1, <3>2
  <2>6. x \notin overflowed[e]
    BY <1>2, <2>4
  <2>7. \A i \in 1..(a + 1) : i \in 1..a \/ i = a + 1
    BY <1>1
  <2>8. \A i \in 1..a : i \in 1..(a + 1) /\ i # a + 1
    BY <1>1
  <2>9. a + 1 \in 1..(a + 1)
    BY <1>1
  <2>10. \A i : i \in R1 <=> i \in 1..a /\ accepted[i] \notin overflowed[e]
    BY <1>1 DEF RoomFor
  <2>11. \A i : i \in R2 <=> i \in 1..(a + 1) /\ accepted'[i] \notin overflowed'[e]
    BY <1>2
  <2>12. CASE emitterQueue'[e] = Append(emitterQueue[e], x) /\ overflowed'[e] = overflowed[e]
    <3>1. R2 = R1 \cup {a + 1}
      <4> HIDE DEF R1, R2
      <4>1. \A i : i \in R2 <=> i \in R1 \/ i = a + 1
        BY <1>2, <2>6, <2>7, <2>8, <2>9, <2>10, <2>11, <2>12
      <4> QED
        BY <4>1
    <3>2. T2 = Append(T, x)
      BY <1>3, <2>12 DEF Taken
    <3> HIDE DEF T, R1, T2, R2
    <3>3. /\ Cardinality(R2) = Cardinality(R1) + 1 /\ Place(a + 1, R2) = Cardinality(R1) + 1
          /\ \A i \in R1 : Place(i, R2) = Place(i, R1) /\ Place(i, R1) \in 1..Cardinality(R1)
      BY <1>1, <2>3, <3>1, PlaceLast
    <3>4. Len(T2) = Len(T) + 1 /\ T2[Len(T) + 1] = x /\ \A k \in 1..Len(T) : T2[k] = T[k]
      BY <2>2, <3>2
    <3>5. ASSUME NEW i \in R2 PROVE T2[Place(i, R2)] = accepted'[i]
      <4>1. CASE i = a + 1
        BY <1>2, <2>2, <3>3, <3>4, <4>1
      <4>2. CASE i \in R1
        <5>1. T2[Place(i, R2)] = T[Place(i, R1)]
          BY <2>2, <3>3, <3>4, <4>2
        <5>2. i \in 1..a
          BY <2>3, <4>2
        <5> QED
          BY <1>2, <2>2, <4>2, <5>1, <5>2
      <4> QED
        BY <3>1, <4>1, <4>2
    <3> QED
      BY <2>1, <2>2, <2>5, <3>3, <3>4, <3>5
  <2>13. CASE emitterQueue'[e] = emitterQueue[e] /\ overflowed'[e] = overflowed[e] \cup {x}
    <3>1. R2 = R1
      <4> HIDE DEF R1, R2
      <4>1. \A i : i \in R2 <=> i \in R1
        BY <1>2, <2>7, <2>8, <2>10, <2>11, <2>13
      <4> QED
        BY <4>1
    <3>2. T2 = T
      BY <2>13 DEF Taken
    <3>3. \A i \in R1 : accepted'[i] = accepted[i]
      BY <1>2, <2>3
    <3> HIDE DEF T, R1, T2, R2
    <3>4. Len(T2) = Cardinality(R2)
      BY <2>2, <3>1, <3>2
    <3>5. \A i \in R2 : T2[Place(i, R2)] = accepted'[i]
      BY <2>2, <3>1, <3>2, <3>3
    <3> QED
      BY <2>1, <2>5, <3>4, <3>5, Zenon
  <2> QED
    BY <1>5, <2>12, <2>13
<1>9. EmittersKnown'
  BY <1>8, Zenon DEF EmittersKnown, WasAccepted
<1> QED
  BY <1>4, <1>6, <1>7, <1>9

\* What an emitter takes on, and ends, it still has been given in order.
LEMMA TakenKept ==
    ASSUME AccountInv, NEW e0 \in Emitters, EmitterTakes(e0) \/ EmitterDone(e0)
    PROVE  /\ emitterQueue' \in [Emitters -> Seq(PacketSet)] /\ emitting' \in [Emitters -> Seq(PacketSet)]
           /\ handed' \in [Emitters -> Seq(PacketSet)]
           /\ accepted' = accepted /\ overflowed' = overflowed /\ made' = made /\ metrics' = metrics
           /\ points' = points /\ refused' = refused /\ toRead' = toRead /\ EmittersKnown'
<1> USE DEF AccountInv
<1>1. /\ emitterQueue \in [Emitters -> Seq(PacketSet)] /\ emitting \in [Emitters -> Seq(PacketSet)]
      /\ handed \in [Emitters -> Seq(PacketSet)]
  BY DEF AccountType
<1>2. /\ accepted' = accepted /\ overflowed' = overflowed /\ made' = made /\ metrics' = metrics
      /\ points' = points /\ refused' = refused /\ toRead' = toRead
  BY DEF EmitterTakes, EmitterDone, inputVars, emitterVars
<1>3. /\ emitterQueue' \in [Emitters -> Seq(PacketSet)] /\ emitting' \in [Emitters -> Seq(PacketSet)]
      /\ handed' \in [Emitters -> Seq(PacketSet)]
  <2>1. CASE EmitterTakes(e0)
    <3>1. emitterQueue[e0] \in Seq(PacketSet) /\ emitterQueue[e0] # <<>>
      BY <1>1, <2>1 DEF EmitterTakes
    <3>2. Tail(emitterQueue[e0]) \in Seq(PacketSet) /\ <<Head(emitterQueue[e0])>> \in Seq(PacketSet)
      BY <3>1
    <3> QED
      BY <1>1, <2>1, <3>2 DEF EmitterTakes
  <2>2. CASE EmitterDone(e0)
    <3>1. handed[e0] \o emitting[e0] \in Seq(PacketSet) /\ <<>> \in Seq(PacketSet)
      BY <1>1
    <3> QED
      BY <1>1, <2>2, <3>1 DEF EmitterDone
  <2> QED
    BY <2>1, <2>2
<1>4. ASSUME NEW e \in Emitters PROVE Taken(e)' = Taken(e)
  <2>1. CASE e # e0
    BY <1>1, <2>1 DEF EmitterTakes, EmitterDone, Taken
  <2>2. CASE e = e0 /\ EmitterTakes(e0)
    <3>1. emitting[e] = <<>> /\ emitterQueue[e] \in Seq(PacketSet) /\ emitterQueue[e] # <<>>
      BY <1>1, <2>2 DEF EmitterTakes
    <3>2. /\ handed'[e] = handed[e] /\ emitting'[e] = <<Head(emitterQueue[e])>>
          /\ emitterQueue'[e] = Tail(emitterQueue[e])
      BY <1>1, <2>2 DEF EmitterTakes
    <3>3. (handed[e] \o <<Head(emitterQueue[e])>>) \o Tail(emitterQueue[e]) = (handed[e] \o <<>>) \o emitterQueue[e]
      BY SMTT(30), <1>1, <3>1
    <3> QED
      BY <3>1, <3>2, <3>3 DEF Taken
  <2>3. CASE e = e0 /\ EmitterDone(e0)
    <3>1. handed'[e] = handed[e] \o emitting[e] /\ emitting'[e] = <<>> /\ emitterQueue'[e] = emitterQueue[e]
      BY <1>1, <2>3 DEF EmitterDone
    <3>2. (handed[e] \o emitting[e]) \o <<>> = handed[e] \o emitting[e]
      BY <1>1
    <3> QED
      BY <3>1, <3>2 DEF Taken
  <2> QED
    BY <2>1, <2>2, <2>3
<1>5. EmittersKnown'
  <2>1. \A e \in Emitters : RoomFor(e)' = RoomFor(e)
    BY <1>2 DEF RoomFor
  <2>2. ASSUME NEW e \in Emitters
        PROVE  /\ \A x \in overflowed'[e] : \E i \in DOMAIN accepted' : accepted'[i] = x
               /\ Len(Taken(e)') = Cardinality(RoomFor(e)')
               /\ \A i \in RoomFor(e)' : Taken(e)'[Place(i, RoomFor(e)')] = accepted'[i]
    BY <1>2, <1>4, <2>1 DEF EmittersKnown, WasAccepted
  <2> QED
    BY <2>2, Zenon DEF EmittersKnown, WasAccepted
<1> QED
  BY <1>2, <1>3, <1>5

\* A packet without points leaves the points where they are.
LEMMA PointsStay ==
    ASSUME AccountInv, NEW x, x.points = <<>>, accepted' = Append(accepted, x),
           metrics' = metrics, points' = points
    PROVE  PointsKnown'
<1> USE DEF AccountInv
<1> DEFINE a == Len(accepted)
           at(n, i, p) ==
              \/ n = 0 /\ i \in DOMAIN metrics' /\ metrics'[i] = p
              \/ n \in DOMAIN accepted' /\ i \in DOMAIN accepted'[n].points /\ accepted'[n].points[i] = p
<1>1. /\ a \in Nat /\ DOMAIN accepted = 1..a /\ DOMAIN accepted' = 1..(a + 1) /\ accepted'[a + 1] = x
      /\ \A i \in 1..a : accepted'[i] = accepted[i]
  BY DEF AccountType
<1>2. DOMAIN <<>> = {}
  OBVIOUS
<1> HIDE DEF a
<1>3. \A n \in 1..(a + 1) : n \in 1..a \/ n = a + 1
  BY <1>1
<1>4. \A n \in 1..a : n \in 1..(a + 1)
  BY <1>1
<1>5. \A n, i, p : at(n, i, p) <=> PointAt(n, i, p)
  BY <1>1, <1>2, <1>3, <1>4 DEF PointAt
<1> HIDE DEF at
<1>6. /\ \A n, i, p : at(n, i, p) => p \in 1..points'
      /\ \A p \in 1..points' : \E n, i : at(n, i, p) /\ \A m, j : at(m, j, p) => m = n /\ j = i
  BY <1>5 DEF PointsKnown
<1> QED
  BY <1>6, Zenon DEF PointsKnown, PointAt, at

\* The points of a message are new.
LEMMA PointsCome ==
    ASSUME AccountInv, NEW n0 \in Nat, accepted' = accepted, points' = points + n0,
           metrics' = metrics \o [i \in 1..n0 |-> points + i]
    PROVE  /\ points' \in Nat /\ metrics' \in Seq(Nat) /\ PointsKnown'
<1> USE DEF AccountInv
<1> DEFINE m0 == Len(metrics)
           at(n, i, p) ==
              \/ n = 0 /\ i \in DOMAIN metrics' /\ metrics'[i] = p
              \/ n \in DOMAIN accepted' /\ i \in DOMAIN accepted'[n].points /\ accepted'[n].points[i] = p
           new(n, i, p) == n = 0 /\ p \in (points + 1)..(points + n0) /\ i = m0 + (p - points)
<1>1. points \in Nat /\ m0 \in Nat /\ DOMAIN metrics = 1..m0 /\ metrics \in Seq(Nat)
  BY DEF AccountType
<1>2. /\ metrics' \in Seq(Nat) /\ DOMAIN metrics' = 1..(m0 + n0)
      /\ \A i \in 1..m0 : metrics'[i] = metrics[i]
      /\ \A i \in 1..n0 : metrics'[m0 + i] = points + i
  <2>1. [i \in 1..n0 |-> points + i] \in Seq(Nat)
    BY <1>1
  <2> QED
    BY <1>1, <2>1
<1>3. accepted \in Seq(PacketSet)
  BY DEF AccountType
<1> HIDE DEF m0
<1>4. ASSUME NEW n, NEW i, NEW p PROVE at(n, i, p) <=> (PointAt(n, i, p) \/ new(n, i, p))
  <2>1. ASSUME new(n, i, p) PROVE at(n, i, p)
    <3>1. p - points \in 1..n0 /\ i \in 1..(m0 + n0) /\ points + (p - points) = p
      BY <1>1, <2>1
    <3> QED
      BY <1>2, <2>1, <3>1
  <2>2. ASSUME PointAt(n, i, p) PROVE at(n, i, p)
    <3>1. \A k \in 1..m0 : k \in 1..(m0 + n0)
      BY <1>1
    <3> QED
      BY <1>1, <1>2, <2>2, <3>1 DEF PointAt
  <2>3. ASSUME at(n, i, p) PROVE PointAt(n, i, p) \/ new(n, i, p)
    <3>1. CASE n = 0 /\ i \in 1..(m0 + n0) /\ metrics'[i] = p
      <4>1. CASE i \in 1..m0
        BY <1>1, <1>2, <3>1, <4>1 DEF PointAt
      <4>2. CASE i \notin 1..m0
        <5>1. i - m0 \in 1..n0 /\ i = m0 + (i - m0)
          BY <1>1, <3>1, <4>2
        <5>2. p = points + (i - m0)
          BY <1>2, <3>1, <5>1
        <5> QED
          BY <1>1, <3>1, <5>1, <5>2
      <4> QED
        BY <4>1, <4>2
    <3> QED
      BY <1>2, <2>3, <3>1 DEF PointAt
  <2> QED
    BY <2>1, <2>2, <2>3
<1>5. points' \in Nat /\ \A p : p \in 1..points' <=> (p \in 1..points \/ p \in (points + 1)..(points + n0))
  BY <1>1
<1>6. \A p : ~(p \in 1..points /\ p \in (points + 1)..(points + n0))
  BY <1>1
<1>7. /\ \A n, i, p : PointAt(n, i, p) => p \in 1..points
      /\ \A p \in 1..points : \E n, i : PointAt(n, i, p) /\ \A m, j : PointAt(m, j, p) => m = n /\ j = i
  BY DEF PointsKnown
<1> HIDE DEF at
<1>8. \A n, i, p : at(n, i, p) => p \in 1..points'
  BY <1>4, <1>5, <1>7
<1>9. ASSUME NEW p \in 1..points' PROVE \E n, i : at(n, i, p) /\ \A m, j : at(m, j, p) => m = n /\ j = i
  <2>1. CASE p \in 1..points
    <3>1. \A n, i : at(n, i, p) <=> PointAt(n, i, p)
      BY <1>4, <1>6, <2>1
    <3> QED
      BY <1>7, <2>1, <3>1
  <2>2. CASE p \in (points + 1)..(points + n0)
    <3>1. \A n, i : ~PointAt(n, i, p)
      BY <1>6, <1>7, <2>2
    <3>2. \A n, i : at(n, i, p) <=> n = 0 /\ i = m0 + (p - points)
      BY <1>4, <2>2, <3>1
    <3>3. PICK k : k = m0 + (p - points)
      OBVIOUS
    <3>4. at(0, k, p)
      BY <3>2, <3>3
    <3>5. ASSUME NEW m, NEW j, at(m, j, p) PROVE m = 0 /\ j = k
      BY <3>2, <3>3, <3>5
    <3> QED
      BY <3>4, <3>5
  <2> QED
    BY <1>5, <2>1, <2>2
<1>10. PointsKnown'
  BY <1>8, <1>9, Zenon DEF PointsKnown, PointAt, at
<1> QED
  BY <1>2, <1>5, <1>10

\* The points that are posted are all in the new packet.
LEMMA PointsPosted ==
    ASSUME AccountInv, metrics # <<>>, accepted' = Append(accepted, OfPoints(metrics)),
           metrics' = <<>>, points' = points
    PROVE  /\ OfPoints(metrics) \in PacketSet /\ OfPoints(metrics).points # <<>>
           /\ ~WasAccepted(OfPoints(metrics)) /\ PointsKnown'
<1> USE DEF AccountInv
<1> DEFINE a == Len(accepted)
           x == OfPoints(metrics)
           at(n, i, p) ==
              \/ n = 0 /\ i \in DOMAIN metrics' /\ metrics'[i] = p
              \/ n \in DOMAIN accepted' /\ i \in DOMAIN accepted'[n].points /\ accepted'[n].points[i] = p
<1>1. metrics \in Seq(Nat) /\ a \in Nat /\ accepted \in Seq(PacketSet) /\ DOMAIN accepted = 1..a
  BY DEF AccountType
<1>2. x \in PacketSet /\ x.points = metrics
  <2> HIDE DEF x, a
  <2>1. OfPoints(metrics) \in PacketSet /\ OfPoints(metrics).points = metrics
    BY <1>1, PacketsAre
  <2> QED
    BY <2>1 DEF x
<1>3. /\ DOMAIN accepted' = 1..(a + 1) /\ accepted'[a + 1] = x
      /\ \A i \in 1..a : accepted'[i] = accepted[i]
  <2> HIDE DEF x
  <2>1. accepted' = Append(accepted, x)
    BY DEF x
  <2> QED
    BY <1>1, <1>2, <2>1
<1>4. metrics' = <<>> /\ DOMAIN metrics' = {}
  OBVIOUS
<1> HIDE DEF a, x
<1>5. 1 \in DOMAIN metrics
  BY <1>1
<1>6. /\ \A n, i, p : PointAt(n, i, p) => p \in 1..points
      /\ \A p \in 1..points : \E n, i : PointAt(n, i, p) /\ \A m, j : PointAt(m, j, p) => m = n /\ j = i
  BY DEF PointsKnown
<1>7. ~WasAccepted(x)
  <2> SUFFICES ASSUME NEW n \in DOMAIN accepted, accepted[n] = x PROVE FALSE
    BY DEF WasAccepted
  <2>1. PointAt(0, 1, metrics[1]) /\ PointAt(n, 1, metrics[1])
    BY <1>2, <1>5 DEF PointAt
  <2>2. n = 0
    BY <1>6, <2>1
  <2> QED
    BY <1>1, <2>2
<1>8. \A n \in 1..(a + 1) : n \in 1..a \/ n = a + 1
  BY <1>1
<1>9. 0 \notin 1..a /\ a + 1 \notin 1..a /\ a + 1 # 0 /\ \A n \in 1..a : n \in 1..(a + 1) /\ n # a + 1
  BY <1>1
<1>10. a + 1 \in 1..(a + 1) /\ 0 \notin 1..(a + 1)
  BY <1>1
<1>11. ASSUME NEW n, NEW i, NEW p
       PROVE  at(n, i, p) <=> ((n = a + 1 /\ PointAt(0, i, p)) \/ (n \in 1..a /\ PointAt(n, i, p)))
  <2>1. CASE n = a + 1
    BY <1>1, <1>2, <1>3, <1>4, <1>9, <1>10, <2>1 DEF PointAt
  <2>2. CASE n \in 1..a
    BY <1>1, <1>3, <1>4, <1>9, <2>2 DEF PointAt
  <2>3. CASE n # a + 1 /\ n \notin 1..a
    BY <1>1, <1>3, <1>4, <1>8, <1>9, <2>3 DEF PointAt
  <2> QED
    BY <2>1, <2>2, <2>3
<1>12. \A n, i, p : PointAt(n, i, p) => n = 0 \/ n \in 1..a
  BY <1>1 DEF PointAt
<1> HIDE DEF at
<1>13. \A n, i, p : at(n, i, p) => p \in 1..points'
  BY <1>6, <1>11
<1>14. ASSUME NEW p \in 1..points' PROVE \E n, i : at(n, i, p) /\ \A m, j : at(m, j, p) => m = n /\ j = i
  <2>1. PICK n, i : PointAt(n, i, p) /\ \A m, j : PointAt(m, j, p) => m = n /\ j = i
    BY <1>6
  <2>2. CASE n = 0
    <3>1. at(a + 1, i, p)
      BY <1>11, <2>1, <2>2
    <3>2. \A m, j : at(m, j, p) => m = a + 1 /\ j = i
      BY <1>9, <1>11, <2>1, <2>2
    <3> QED
      BY <3>1, <3>2
  <2>3. CASE n \in 1..a
    <3>1. at(n, i, p)
      BY <1>11, <2>1, <2>3
    <3>2. \A m, j : at(m, j, p) => m = n /\ j = i
      BY <1>9, <1>11, <2>1, <2>3
    <3> QED
      BY <3>1, <3>2
  <2> QED
    BY <1>12, <2>1, <2>2, <2>3
<1>15. PointsKnown'
  BY <1>13, <1>14, Zenon DEF PointsKnown, PointAt, at
<1>16. x.points # <<>>
  BY <1>2
<1> QED
  BY <1>2, <1>7, <1>15, <1>16 DEF x

\* The number of the points of a message is a number.
LEMMA DecodedIs == ASSUME NEW list \in Seq(GraphiteItems) PROVE Decoded(list) \in Nat
<1> DEFINE D == {i \in DOMAIN list : list[i] = "point" /\ \A j \in 1..i : list[j] # "no pair"}
<1>1. Len(list) \in Nat /\ DOMAIN list = 1..Len(list)
  OBVIOUS
<1>2. D \subseteq 1..Len(list)
  BY <1>1
<1> HIDE DEF D
<1>3. IsFiniteSet(D)
  BY <1>1, <1>2, IntervalIsFinite, FS_Subset
<1> QED
  BY <1>3, FS_CardinalityType DEF Decoded, D

LEMMA AccountInitially == IntakeInit => AccountInv
<1> SUFFICES ASSUME IntakeInit PROVE AccountInv
  OBVIOUS
<1>1. GraphiteInput \in Seq(GraphiteMessages)
  BY IntakeAssumption, Zenon DEF GraphiteMessages, GraphiteItems
<1>2. /\ accepted = <<>> /\ refused = {} /\ points = 0 /\ toRead = GraphiteInput /\ metrics = <<>> /\ made = <<>>
      /\ emitterQueue = [e \in Emitters |-> <<>>] /\ emitting = [e \in Emitters |-> <<>>]
      /\ handed = [e \in Emitters |-> <<>>] /\ overflowed = [e \in Emitters |-> {}]
  BY Zenon DEF IntakeInit
<1>3. AccountType
  <2>1. <<>> \in Seq(PacketSet) /\ <<>> \in Seq(Deliveries) /\ <<>> \in Seq(Nat) /\ 0 \in Nat
    OBVIOUS
  <2> QED
    BY <1>1, <1>2, <2>1 DEF AccountType
<1>4. DOMAIN <<>> = {} /\ 1..0 = {}
  OBVIOUS
<1>5. MadeOnce /\ RefusedKnown /\ PointsKnown
  BY <1>2, <1>4 DEF MadeOnce, RefusedKnown, PointsKnown, PointAt
<1>6. EmittersKnown
  <2> SUFFICES ASSUME NEW e \in Emitters
               PROVE  overflowed[e] = {} /\ RoomFor(e) = {} /\ Len(Taken(e)) = 0
    BY FS_EmptySet DEF EmittersKnown
  <2>1. overflowed[e] = {} /\ emitterQueue[e] = <<>> /\ emitting[e] = <<>> /\ handed[e] = <<>>
    BY <1>2
  <2>2. (<<>> \o <<>>) \o <<>> = <<>> /\ Len(<<>>) = 0
    OBVIOUS
  <2> QED
    BY <1>2, <1>4, <2>1, <2>2 DEF Taken, RoomFor
<1> QED
  BY <1>3, <1>5, <1>6 DEF AccountInv

\* A packet that was not accepted before is, and has its transactions.
LEMMA AcceptStep ==
    ASSUME AccountInv, NEW x \in PacketSet, ~WasAccepted(x), x \notin refused, NEW url \in Urls,
           accepted' = Append(accepted, x), made' = Transactions(x, url), Enqueue(x), refused' = refused
    PROVE  /\ accepted' \in Seq(PacketSet) /\ made' \in Seq(Deliveries)
           /\ emitterQueue' \in [Emitters -> Seq(PacketSet)] /\ emitting' \in [Emitters -> Seq(PacketSet)]
           /\ handed' \in [Emitters -> Seq(PacketSet)] /\ overflowed' \in [Emitters -> SUBSET PacketSet]
           /\ MadeOnce' /\ EmittersKnown' /\ RefusedKnown'
<1>1. /\ accepted' \in Seq(PacketSet) /\ made' \in Seq(Deliveries) /\ MadeOnce'
      /\ \A y : (\E i \in DOMAIN accepted' : accepted'[i] = y) <=> (WasAccepted(y) \/ y = x)
  BY MadeStep
<1>2. /\ emitterQueue' \in [Emitters -> Seq(PacketSet)] /\ emitting' = emitting /\ handed' = handed
      /\ overflowed' \in [Emitters -> SUBSET PacketSet] /\ EmittersKnown'
  BY EnqueueStep
<1>3. emitting \in [Emitters -> Seq(PacketSet)] /\ handed \in [Emitters -> Seq(PacketSet)]
  BY DEF AccountInv, AccountType
<1>4. RefusedKnown'
  <2>1. \A y \in refused' : y.points = <<>> /\ ~(\E i \in DOMAIN accepted' : accepted'[i] = y)
    BY <1>1 DEF AccountInv, RefusedKnown
  <2> QED
    BY <2>1, Zenon DEF RefusedKnown, WasAccepted
<1> QED
  BY <1>1, <1>2, <1>3, <1>4

LEMMA EmittersStay ==
    ASSUME EmittersKnown, accepted' = accepted, emitterQueue' = emitterQueue, emitting' = emitting,
           handed' = handed, overflowed' = overflowed
    PROVE  EmittersKnown'
<1>1. \A e : Taken(e)' = Taken(e) /\ RoomFor(e)' = RoomFor(e)
  BY DEF Taken, RoomFor
<1>2. ASSUME NEW e \in Emitters
      PROVE  /\ \A x \in overflowed'[e] : \E i \in DOMAIN accepted' : accepted'[i] = x
             /\ Len(Taken(e)') = Cardinality(RoomFor(e)')
             /\ \A i \in RoomFor(e)' : Taken(e)'[Place(i, RoomFor(e)')] = accepted'[i]
  BY <1>1 DEF EmittersKnown, WasAccepted
<1> QED
  BY <1>2, Zenon DEF EmittersKnown, WasAccepted

accountVars == <<accepted, refused, points, toRead, metrics, made, emitterVars>>

LEMMA AccountStays == AccountInv /\ UNCHANGED accountVars => AccountInv'
<1> SUFFICES ASSUME AccountInv, UNCHANGED accountVars PROVE AccountInv'
  OBVIOUS
<1>1. /\ accepted' = accepted /\ refused' = refused /\ points' = points /\ toRead' = toRead
      /\ metrics' = metrics /\ made' = made /\ emitterQueue' = emitterQueue /\ emitting' = emitting
      /\ handed' = handed /\ overflowed' = overflowed
  BY DEF accountVars, emitterVars
<1>2. AccountType' /\ MadeOnce' /\ RefusedKnown' /\ PointsKnown'
  BY <1>1 DEF AccountInv, AccountType, MadeOnce, RefusedKnown, PointsKnown, MadeFor, PointAt, WasAccepted
<1>3. EmittersKnown'
  BY <1>1, EmittersStay DEF AccountInv
<1> QED
  BY <1>2, <1>3 DEF AccountInv

LEMMA PostRequestStep ==
    ASSUME AccountInv, NEW r \in Intakes, PostRequest(r) PROVE AccountInv'
<1> DEFINE x == Packet(r)
<1>1. x \in PacketSet /\ x.points = <<>>
  BY PacketsAre, Zenon
<1>2. ~WasAccepted(x) /\ x \notin refused
  BY DEF PostRequest, WasAccepted, ToSet
<1>3. points' = points /\ toRead' = toRead /\ metrics' = metrics
  BY DEF PostRequest
<1>4. CASE Emitters # {} /\ ~r.json
  <2>1. /\ refused' = refused \cup {x} /\ accepted' = accepted /\ made' = made
        /\ emitterQueue' = emitterQueue /\ emitting' = emitting /\ handed' = handed /\ overflowed' = overflowed
    BY <1>4 DEF PostRequest, emitterVars
  <2> HIDE DEF x
  <2>2. RefusedKnown'
    BY <1>1, <1>2, <2>1 DEF AccountInv, RefusedKnown, WasAccepted
  <2>3. AccountType'
    BY <1>3, <2>1 DEF AccountInv, AccountType
  <2>4. MadeOnce'
    BY <2>1 DEF AccountInv, MadeOnce, MadeFor, WasAccepted
  <2>5. PointsKnown'
    BY <1>3, <2>1 DEF AccountInv, PointsKnown, PointAt
  <2>6. EmittersKnown'
    BY <2>1, EmittersStay DEF AccountInv
  <2> QED
    BY <2>2, <2>3, <2>4, <2>5, <2>6 DEF AccountInv
<1>5. CASE ~(Emitters # {} /\ ~r.json)
  <2>1. /\ accepted' = Append(accepted, x) /\ made' = Transactions(x, UrlOf(r.path)) /\ Enqueue(x)
        /\ refused' = refused
    BY <1>5, Zenon DEF PostRequest
  <2>2. UrlOf(r.path) \in Urls
    BY DEF UrlOf, Urls
  <2> HIDE DEF x
  <2>3. PICK url \in Urls : made' = Transactions(x, url)
    BY <2>1, <2>2, Zenon
  <2>4. /\ accepted' \in Seq(PacketSet) /\ made' \in Seq(Deliveries)
        /\ emitterQueue' \in [Emitters -> Seq(PacketSet)] /\ emitting' \in [Emitters -> Seq(PacketSet)]
        /\ handed' \in [Emitters -> Seq(PacketSet)] /\ overflowed' \in [Emitters -> SUBSET PacketSet]
        /\ MadeOnce' /\ EmittersKnown' /\ RefusedKnown'
    BY <1>1, <1>2, <2>1, <2>3, AcceptStep
  <2>5. PointsKnown'
    BY <1>1, <1>3, <2>1, PointsStay
  <2>6. AccountType'
    BY <1>3, <2>4, Zenon DEF AccountInv, AccountType
  <2> QED
    BY <2>4, <2>5, <2>6, Zenon DEF AccountInv
<1> QED
  BY <1>4, <1>5

LEMMA FlushTrsStep == AccountInv /\ FlushTrs => AccountInv'
<1> SUFFICES ASSUME AccountInv, FlushTrs PROVE AccountInv'
  OBVIOUS
<1> DEFINE x == OfPoints(metrics)
<1>1. refused' = refused /\ points' = points /\ toRead' = toRead
  BY Zenon DEF FlushTrs
<1>2. \/ UNCHANGED <<metrics, made, accepted, emitterVars>>
      \/ /\ metrics # <<>> /\ metrics' = <<>> /\ accepted' = Append(accepted, x)
         /\ made' = Transactions(x, "intake") /\ Enqueue(x)
  BY Zenon DEF FlushTrs
<1>3. CASE UNCHANGED <<metrics, made, accepted, emitterVars>>
  <2>1. UNCHANGED accountVars
    BY <1>1, <1>3, Zenon DEF accountVars
  <2> QED
    BY <2>1, AccountStays
<1>4. CASE /\ metrics # <<>> /\ metrics' = <<>> /\ accepted' = Append(accepted, x)
           /\ made' = Transactions(x, "intake") /\ Enqueue(x)
  <2>1. x \in PacketSet /\ x.points # <<>> /\ ~WasAccepted(x) /\ PointsKnown'
    <3> HIDE DEF x
    <3>1. /\ OfPoints(metrics) \in PacketSet /\ OfPoints(metrics).points # <<>>
          /\ ~WasAccepted(OfPoints(metrics)) /\ PointsKnown'
      <4>1. accepted' = Append(accepted, OfPoints(metrics))
        BY <1>4 DEF x
      <4> QED
        BY <1>1, <1>4, <4>1, PointsPosted
    <3> QED
      BY <3>1 DEF x
  <2>2. "intake" \in Urls
    BY DEF Urls
  <2> HIDE DEF x
  <2>3. x \notin refused
    BY <2>1 DEF AccountInv, RefusedKnown
  <2>4. PICK y : y = x
    OBVIOUS
  <2>5. /\ y \in PacketSet /\ ~WasAccepted(y) /\ y \notin refused
        /\ accepted' = Append(accepted, y) /\ made' = Transactions(y, "intake") /\ Enqueue(y)
    BY <1>4, <2>1, <2>3, <2>4, Zenon
  <2>6. /\ accepted' \in Seq(PacketSet) /\ made' \in Seq(Deliveries)
        /\ emitterQueue' \in [Emitters -> Seq(PacketSet)] /\ emitting' \in [Emitters -> Seq(PacketSet)]
        /\ handed' \in [Emitters -> Seq(PacketSet)] /\ overflowed' \in [Emitters -> SUBSET PacketSet]
        /\ MadeOnce' /\ EmittersKnown' /\ RefusedKnown'
    BY <1>1, <2>2, <2>5, AcceptStep
  <2>7. <<>> \in Seq(Nat)
    OBVIOUS
  <2>8. AccountType'
    BY <1>1, <1>4, <2>6, <2>7, Zenon DEF AccountInv, AccountType
  <2> QED
    BY <2>1, <2>6, <2>8, Zenon DEF AccountInv
<1> QED
  BY <1>2, <1>3, <1>4

LEMMA ReadStep == AccountInv /\ ReadGraphite => AccountInv'
<1> SUFFICES ASSUME AccountInv, ReadGraphite PROVE AccountInv'
  OBVIOUS
<1> DEFINE message == Head(toRead)
           n == IF message.pickled THEN Decoded(message.items) ELSE 0
<1>1. /\ toRead # <<>> /\ toRead' = Tail(toRead) /\ points' = points + n
      /\ metrics' = metrics \o [i \in 1..n |-> points + i]
      /\ accepted' = accepted /\ refused' = refused /\ made' = made
      /\ emitterQueue' = emitterQueue /\ emitting' = emitting /\ handed' = handed /\ overflowed' = overflowed
  BY Zenon DEF ReadGraphite, emitterVars
<1>2. toRead' \in Seq(GraphiteMessages) /\ message \in GraphiteMessages
  <2>1. toRead \in Seq(GraphiteMessages)
    BY DEF AccountInv, AccountType
  <2> QED
    BY <1>1, <2>1
<1>3. n \in Nat
  <2>1. message.items \in Seq(GraphiteItems)
    BY <1>2 DEF GraphiteMessages
  <2>2. Decoded(message.items) \in Nat
    BY <2>1, DecodedIs
  <2> QED
    BY <2>2
<1> HIDE DEF n, message
<1>4. PICK k \in Nat : k = n
  BY <1>3
<1>5. points' \in Nat /\ metrics' \in Seq(Nat) /\ PointsKnown'
  <2>1. points' = points + k /\ metrics' = metrics \o [i \in 1..k |-> points + i]
    BY <1>1, <1>4
  <2> QED
    BY <1>1, <2>1, PointsCome
<1>6. AccountType' /\ MadeOnce' /\ RefusedKnown'
  BY <1>1, <1>2, <1>5 DEF AccountInv, AccountType, MadeOnce, RefusedKnown, MadeFor, WasAccepted
<1>7. EmittersKnown'
  BY <1>1, EmittersStay DEF AccountInv
<1> QED
  BY <1>5, <1>6, <1>7 DEF AccountInv

LEMMA AccountStep == AccountInv /\ [IntakeNext]_intakeVars => AccountInv'
<1> SUFFICES ASSUME AccountInv, [IntakeNext]_intakeVars PROVE AccountInv'
  OBVIOUS
<1>1. CASE \E r \in Intakes : PostRequest(r)
  BY <1>1, PostRequestStep
<1>2. CASE \E e \in Emitters : EmitterTakes(e) \/ EmitterDone(e)
  <2>1. PICK e \in Emitters : EmitterTakes(e) \/ EmitterDone(e)
    BY <1>2
  <2>2. /\ emitterQueue' \in [Emitters -> Seq(PacketSet)] /\ emitting' \in [Emitters -> Seq(PacketSet)]
        /\ handed' \in [Emitters -> Seq(PacketSet)]
        /\ accepted' = accepted /\ overflowed' = overflowed /\ made' = made /\ metrics' = metrics
        /\ points' = points /\ refused' = refused /\ toRead' = toRead /\ EmittersKnown'
    BY <2>1, TakenKept
  <2>3. AccountType' /\ MadeOnce' /\ RefusedKnown' /\ PointsKnown'
    BY <2>2 DEF AccountInv, AccountType, MadeOnce, RefusedKnown, PointsKnown, MadeFor, PointAt, WasAccepted
  <2> QED
    BY <2>2, <2>3 DEF AccountInv
<1>3. CASE ReadGraphite
  BY <1>3, ReadStep
<1>4. CASE FlushTrs
  BY <1>4, FlushTrsStep
<1>5. CASE AlarmRings \/ TimePasses \/ GetsStuck \/ Resumes \/ ClockSetBack \/ UNCHANGED intakeVars
  <2>1. UNCHANGED accountVars
    BY <1>5, Zenon DEF AlarmRings, TimePasses, GetsStuck, Resumes, ClockSetBack, intakeVars, inputVars, accountVars
  <2> QED
    BY <2>1, AccountStays
<1> QED
  BY <1>1, <1>2, <1>3, <1>4, <1>5 DEF IntakeNext

LEMMA OnlyOne ==
    ASSUME NEW S, NEW x, \A y : y \in S <=> y = x PROVE Cardinality(S) = 1
<1>1. S = {x}
  OBVIOUS
<1> QED
  BY <1>1, FS_Singleton

LEMMA AccountGives == AccountInv => IntakeAccounted
<1> SUFFICES ASSUME AccountInv PROVE IntakeAccounted
  OBVIOUS
<1> USE DEF AccountInv
<1>1. ASSUME NEW i \in DOMAIN accepted, NEW e \in IntakeEndpoints PROVE CountMade(accepted[i], e) = 1
  <2> DEFINE S == {k \in DOMAIN made : made[k].what = accepted[i] /\ made[k].endpoint = e}
  <2>1. PICK k : MadeFor(accepted[i], e, k) /\ \A j : MadeFor(accepted[i], e, j) => j = k
    BY <1>1 DEF MadeOnce
  <2>2. \A j : j \in S <=> j = k
    BY <2>1 DEF MadeFor
  <2> HIDE DEF S
  <2>3. PICK T : T = S
    OBVIOUS
  <2>4. Cardinality(S) = 1
    BY <2>2, <2>3, OnlyOne
  <2> QED
    BY <2>4 DEF CountMade, S
<1>2. \A k \in DOMAIN made : made[k].what \notin refused
  BY DEF MadeOnce, RefusedKnown
<1>3. ASSUME NEW p \in 1..points PROVE Cardinality(PlacesOf(p)) = 1
  <2>1. PICK n, i : PointAt(n, i, p) /\ \A m, j : PointAt(m, j, p) => m = n /\ j = i
    BY DEF PointsKnown
  <2>2. \A y : y \in PlacesOf(p) <=> y = <<n, i>>
    <3>1. \A y : y \in PlacesOf(p) <=> \E m, j : PointAt(m, j, p) /\ y = <<m, j>>
      BY DEF PlacesOf, PlacesIn, PointAt
    <3> QED
      BY <2>1, <3>1
  <2>3. PICK T, x : T = PlacesOf(p) /\ x = <<n, i>>
    OBVIOUS
  <2>4. \A y : y \in T <=> y = x
    BY <2>2, <2>3
  <2> QED
    BY <2>3, <2>4, OnlyOne
<1>4. \A e \in Emitters :
          /\ Len(Taken(e)) = Cardinality(RoomFor(e))
          /\ \A i \in RoomFor(e) : Taken(e)[Place(i, RoomFor(e))] = accepted[i]
  BY DEF EmittersKnown
<1> QED
  BY <1>1, <1>2, <1>3, <1>4 DEF IntakeAccounted

LEMMA WatchGives == WatchInv => KilledIfStuck
<1> SUFFICES ASSUME WatchInv PROVE KilledIfStuck
  OBVIOUS
<1>1. AlarmDelay \in Nat
  BY IntakeConstants
<1>2. tick \in Nat /\ lastReset \in Nat /\ alarm = lastReset + AlarmDelay
  BY DEF WatchInv, WatchType
<1>3. ioloop \in {"running", "stuck", "in a call", "killed"}
  BY DEF WatchInv, WatchType
<1>4. (ioloop \in {"running", "stuck"} => tick <= alarm) /\ (ioloop = "killed" => tick >= alarm)
  BY DEF WatchInv, AlarmKnown
<1>5. tick >= alarm <=> tick - lastReset >= AlarmDelay
  BY <1>1, <1>2
<1>6. tick <= alarm <=> ~(tick - lastReset > AlarmDelay)
  BY <1>1, <1>2
<1> QED
  BY <1>3, <1>4, <1>5, <1>6 DEF KilledIfStuck

\* What the process takes in is passed on once, in order, to every endpoint and to each
\* emitter that has room, and the watchdog ends the process if and only if its flush has
\* not come for the delay; for any requests, messages, endpoints, emitters and limits
\* (Application, AgentTransaction, GraphiteConnection, WatchdogPosix).
THEOREM IntakeCorrect == IntakeSpec => []IntakeSound
<1>1. IntakeInit => AccountInv /\ WatchInv
  BY AccountInitially, WatchInitially
<1>2. AccountInv /\ WatchInv /\ [IntakeNext]_intakeVars => (AccountInv /\ WatchInv)'
  BY AccountStep, WatchStep
<1>3. AccountInv /\ WatchInv => IntakeSound
  BY AccountGives, WatchGives DEF IntakeSound
<1> QED
  BY <1>1, <1>2, <1>3, PTL DEF IntakeSpec

-----------------------------------------------------------------------------
(* PayloadSplit: the invariant *)

\* A slice lies in the series, and may be empty.
Slices(n) ==
    {s \in [from : 1..(n + 1), to : 0..n, depth : Nat] : s.from <= s.to + 1}
Texts == {"ascii", "wide", "undecodable", "cut"}
Arrivals(n) == [part : 1..3, metrics : UNION {[S -> Texts] : S \in SUBSET (1..n)}]

SplitType ==
    /\ series \in Batches
    /\ emitPc \in {"serialize", "post", "sent", "raised"}
    /\ part \in 1..3
    /\ toSerialize \in Seq(Slices(Len(series)))
    /\ payloads \in Seq(Slices(Len(series)))
    /\ inbox \in Seq(Arrivals(Len(series)))
    /\ given \in [dropped : SUBSET Slices(Len(series)), skipped : SUBSET {"legacy", "metrics", "checkruns"}]

\* Only the second of the three payloads has metrics; what was serialized is
\* posted before anything else is taken in hand.
InHand ==
    /\ part # 2 =>
          /\ \A k \in DOMAIN toSerialize : Metrics(toSerialize[k]) = {}
          /\ \A k \in DOMAIN payloads : Metrics(payloads[k]) = {}
    /\ emitPc = "post" => toSerialize = <<>>
    /\ emitPc = "sent" => part = 3
    /\ part = 1 => given.dropped = {}

\* The places of a metric: what is still to be serialized (1), the payloads (2), the
\* posts that were accepted (3) and the slices that were dropped (4).
MetricAt(spot, n, i) ==
    \/ spot = 1 /\ n \in DOMAIN toSerialize /\ i \in Metrics(toSerialize[n])
    \/ spot = 2 /\ part = 2 /\ n \in DOMAIN payloads /\ i \in Metrics(payloads[n])
    \/ spot = 3 /\ n \in PostsOf(i)
    \/ spot = 4 /\ n = 0 /\ i \in DroppedMetrics

OnePlace ==
    \A i \in DOMAIN series, k \in 1..4, l \in 1..4, n \in Nat, m \in Nat :
       MetricAt(k, n, i) /\ MetricAt(l, m, i) => k = l /\ n = m

\* No metric is lost while they are in hand, nor afterwards.
SomePlace ==
    /\ part = 2 /\ emitPc \in {"serialize", "post"} =>
          \A i \in DOMAIN series : \E k \in 1..4, n \in Nat : MetricAt(k, n, i)
    /\ part = 3 =>
          \A i \in DOMAIN series : \/ PostsOf(i) # {} \/ i \in DroppedMetrics
                                   \/ "metrics" \in given.skipped

\* The posts are in the order of the payloads, and each has its texts.
Posted ==
    /\ \A n \in DOMAIN inbox : inbox[n].part <= part
    /\ \A n, m \in DOMAIN inbox : n < m => inbox[n].part <= inbox[m].part
    /\ \A n \in Posts(2) : \A i \in DOMAIN inbox[n].metrics :
          inbox[n].metrics[i] # series[i].text
             => \E j \in DOMAIN inbox[n].metrics : series[j].text = "undecodable"
DroppedTooLarge == \A s \in given.dropped : ZippedSize(s) >= MaxCompressedSize

SplitInv == SplitType /\ InHand /\ OnePlace /\ SomePlace /\ Posted /\ DroppedTooLarge

-----------------------------------------------------------------------------
LEMMA QuotientIs ==
  ASSUME NEW a \in Nat, NEW b \in Nat \ {0}
  PROVE  /\ a \div b \in Nat
         /\ (a \div b) * b <= a
         /\ a < (a \div b + 1) * b
  OBVIOUS

LEMMA ProductsOrdered ==
  ASSUME NEW a \in Int, NEW b \in Int, NEW p \in Nat, a <= b
  PROVE  a * p <= b * p
  OBVIOUS

LEMMA SliceStarts ==
  ASSUME NEW s, s.from \in Nat, s.to \in Nat, s.from <= s.to + 1, NEW n \in Nat \ {0},
         NEW per, per = SeriesPerChunk(s.to + 1 - s.from, n)
  PROVE  /\ per \in Nat \ {0}
         /\ \A i \in 1..(n + 1) : SliceStart(s, i, per) \in s.from..(s.to + 1)
         /\ SliceStart(s, 1, per) = s.from
         /\ SliceStart(s, n + 1, per) = s.to + 1
         /\ \A i, j \in 1..(n + 1) : i <= j => SliceStart(s, i, per) <= SliceStart(s, j, per)
         /\ \A i \in s.from..s.to : \E c \in 1..n :
               i \in SliceStart(s, c, per)..(SliceStart(s, c + 1, per) - 1)
<1> DEFINE length == s.to + 1 - s.from
<1>1. length \in Nat
  OBVIOUS
<1>2. per = length \div n + 1
  BY DEF SeriesPerChunk, PerChunk
<1>3. per \in Nat \ {0} /\ length < per * n
  <2> HIDE DEF length
  <2>1. length \div n \in Nat /\ length < (length \div n + 1) * n
    BY <1>1, QuotientIs
  <2> QED BY <1>2, <2>1
<1>4. \A i \in 1..(n + 1) : SliceStart(s, i, per) \in s.from..(s.to + 1)
  <2> SUFFICES ASSUME NEW i \in 1..(n + 1) PROVE SliceStart(s, i, per) \in s.from..(s.to + 1)
    OBVIOUS
  <2>1. PICK o \in Nat : o = (i - 1) * per
    BY <1>3
  <2> QED BY <2>1 DEF SliceStart
<1>5. SliceStart(s, 1, per) = s.from
  <2>1. (1 - 1) * per = 0
    BY <1>3
  <2> QED BY <2>1 DEF SliceStart
<1>6. SliceStart(s, n + 1, per) = s.to + 1
  <2>1. PICK o \in Nat : o = ((n + 1) - 1) * per
    BY <1>3
  <2>2. o = per * n
    BY <1>3, <2>1
  <2> QED BY <1>3, <2>1, <2>2 DEF SliceStart
<1>7. ASSUME NEW i \in 1..(n + 1), NEW j \in 1..(n + 1), i <= j
      PROVE  SliceStart(s, i, per) <= SliceStart(s, j, per)
  <2>1. PICK o \in Nat : o = (i - 1) * per
    BY <1>3
  <2>2. PICK q \in Nat : q = (j - 1) * per
    BY <1>3
  <2>3. o <= q
    BY <1>3, <1>7, <2>1, <2>2, ProductsOrdered
  <2> QED BY <2>1, <2>2, <2>3 DEF SliceStart
<1>8. ASSUME NEW i \in s.from..s.to
      PROVE  \E c \in 1..n : i \in SliceStart(s, c, per)..(SliceStart(s, c + 1, per) - 1)
  <2>1. i - s.from \in Nat
    OBVIOUS
  <2>2. PICK q \in Nat : q * per <= i - s.from /\ i - s.from < (q + 1) * per
    BY <1>3, <2>1, QuotientIs
  <2>3. q < n
    <3>1. SUFFICES ASSUME n <= q PROVE FALSE
      BY <2>2
    <3>2. n * per <= q * per
      BY <1>3, <2>2, <3>1, ProductsOrdered
    <3>3. per * n = n * per /\ n * per \in Nat /\ q * per \in Nat
      BY <1>3
    <3>4. i - s.from < length
      OBVIOUS
    <3> QED BY <1>1, <1>3, <2>1, <2>2, <3>2, <3>3, <3>4
  <2>4. q + 1 \in 1..n
    BY <2>3
  <2>5. PICK o \in Nat : o = ((q + 1) - 1) * per
    BY <1>3
  <2>6. o = q * per
    BY <2>5
  <2>7. PICK e \in Nat : e = ((q + 1 + 1) - 1) * per
    BY <1>3
  <2>8. e = (q + 1) * per
    BY <2>7
  <2>9. SliceStart(s, q + 1, per) <= i
    BY <2>2, <2>5, <2>6 DEF SliceStart
  <2>10. i < SliceStart(s, (q + 1) + 1, per)
    BY <2>2, <2>7, <2>8 DEF SliceStart
  <2>11. SliceStart(s, q + 1, per) \in Int /\ SliceStart(s, (q + 1) + 1, per) \in Int
    BY <1>4, <2>4
  <2> QED BY <2>4, <2>9, <2>10, <2>11
<1> QED BY <1>3, <1>4, <1>5, <1>6, <1>7, <1>8

LEMMA SlicesTile ==
  ASSUME NEW N \in Nat, NEW s \in Slices(N), NEW n \in Nat \ {0}
  PROVE  /\ \A c \in 1..n : Slice(s, c, n) \in Slices(N) /\ Metrics(Slice(s, c, n)) \subseteq Metrics(s)
         /\ \A i \in Metrics(s) : \E c \in 1..n : i \in Metrics(Slice(s, c, n))
         /\ \A c, d \in 1..n : \A i : i \in Metrics(Slice(s, c, n)) /\ i \in Metrics(Slice(s, d, n)) => c = d
<1>1. s.from \in 1..(N + 1) /\ s.to \in 0..N /\ s.depth \in Nat /\ s.from <= s.to + 1
  BY DEF Slices
<1>2. PICK per : per = SeriesPerChunk(s.to + 1 - s.from, n)
  OBVIOUS
<1> DEFINE B(i) == SliceStart(s, i, per)
<1>3. /\ \A i \in 1..(n + 1) : B(i) \in s.from..(s.to + 1)
      /\ \A i, j \in 1..(n + 1) : i <= j => B(i) <= B(j)
      /\ \A i \in s.from..s.to : \E c \in 1..n : i \in B(c)..(B(c + 1) - 1)
  <2>1. s.from \in Nat /\ s.to \in Nat /\ s.from <= s.to + 1
    BY <1>1
  <2> QED BY <1>2, <2>1, SliceStarts, Zenon
<1>4. \A c : Slice(s, c, n) = [from |-> B(c), to |-> B(c + 1) - 1, depth |-> s.depth + 1]
  BY <1>2 DEF Slice
<1> HIDE DEF B
<1>5. \A c \in 1..n : c \in 1..(n + 1) /\ c + 1 \in 1..(n + 1) /\ c <= c + 1
  OBVIOUS
<1>6. \A c : Metrics(Slice(s, c, n)) = B(c)..(B(c + 1) - 1)
  BY <1>4 DEF Metrics
<1>7. ASSUME NEW c \in 1..n
      PROVE  Slice(s, c, n) \in Slices(N) /\ Metrics(Slice(s, c, n)) \subseteq Metrics(s)
  <2>1. B(c) \in s.from..(s.to + 1) /\ B(c + 1) \in s.from..(s.to + 1) /\ B(c) <= B(c + 1)
    BY <1>3, <1>5
  <2>2. B(c) \in 1..(N + 1) /\ B(c + 1) - 1 \in 0..N /\ B(c) <= (B(c + 1) - 1) + 1 /\ s.depth + 1 \in Nat
    BY <1>1, <2>1
  <2>3. Slice(s, c, n) \in Slices(N)
    BY <1>4, <2>2 DEF Slices
  <2>4. PICK p \in s.from..(s.to + 1), q \in s.from..(s.to + 1) : p = B(c) /\ q = B(c + 1)
    BY <2>1
  <2>5. p..(q - 1) \subseteq s.from..s.to
    BY <1>1
  <2>6. Metrics(Slice(s, c, n)) \subseteq Metrics(s)
    BY <1>6, <2>4, <2>5 DEF Metrics
  <2> QED BY <2>3, <2>6
<1>8. ASSUME NEW c \in 1..n, NEW d \in 1..n, NEW i,
             i \in Metrics(Slice(s, c, n)), i \in Metrics(Slice(s, d, n)), c < d
      PROVE  FALSE
  <2>1. c + 1 \in 1..(n + 1) /\ d \in 1..(n + 1) /\ c + 1 <= d
    BY <1>8
  <2>2. B(c + 1) <= B(d) /\ B(c + 1) \in Int /\ B(d) \in Int /\ B(c) \in Int /\ B(d + 1) \in Int
    BY <1>1, <1>3, <1>5, <2>1
  <2>3. i \in B(c)..(B(c + 1) - 1) /\ i \in B(d)..(B(d + 1) - 1)
    BY <1>6, <1>8
  <2> QED BY <2>2, <2>3
<1>9. \A c, d \in 1..n : c < d \/ d < c \/ c = d
  OBVIOUS
<1>10. \A i \in Metrics(s) : \E c \in 1..n : i \in Metrics(Slice(s, c, n))
  BY <1>3, <1>6 DEF Metrics
<1> QED BY <1>7, <1>8, <1>9, <1>10

-----------------------------------------------------------------------------
LEMMA SplitConstants ==
  /\ MaxCompressedSize \in Nat \ {0}
  /\ Ratios \subseteq Nat
  /\ Batches \subseteq Seq([size : Nat, text : {"ascii", "wide", "undecodable"}])
  /\ \A b \in Batches : \A from \in 1..(Len(b) + 1), to \in 0..Len(b) : Zipped(b, from, to) \in Nat
  BY SplitAssumption, Zenon

LEMMA ItemTyped ==
  ASSUME NEW S, NEW q \in Seq(S), NEW i \in DOMAIN q
  PROVE  q[i] \in S
  OBVIOUS

LEMMA SeriesTyped ==
  ASSUME SplitType
  PROVE  /\ series \in Seq([size : Nat, text : {"ascii", "wide", "undecodable"}])
         /\ Len(series) \in Nat
         /\ DOMAIN series = 1..Len(series)
         /\ \A i \in DOMAIN series : series[i].text \in {"ascii", "wide", "undecodable"}
         /\ Whole \in Slices(Len(series)) /\ Metrics(Whole) = {}
         /\ [Whole EXCEPT !.to = Len(series)] \in Slices(Len(series))
         /\ Metrics([Whole EXCEPT !.to = Len(series)]) = DOMAIN series
         /\ \A s \in Slices(Len(series)) : ZippedSize(s) \in Nat
         /\ \A s \in Slices(Len(series)) : Metrics(s) \subseteq DOMAIN series
<1>1. series \in Batches
  BY DEF SplitType
<1>2. series \in Seq([size : Nat, text : {"ascii", "wide", "undecodable"}])
  BY <1>1, SplitConstants
<1>3. Len(series) \in Nat /\ DOMAIN series = 1..Len(series)
  BY <1>2
<1>4. ASSUME NEW i \in DOMAIN series
      PROVE  series[i].text \in {"ascii", "wide", "undecodable"}
  <2>1. series[i] \in [size : Nat, text : {"ascii", "wide", "undecodable"}]
    BY <1>2, ItemTyped, Zenon
  <2> QED BY <2>1
<1>5. Whole \in Slices(Len(series)) /\ Metrics(Whole) = {}
  BY <1>3 DEF Whole, Slices, Metrics
<1>6. /\ [Whole EXCEPT !.to = Len(series)] \in Slices(Len(series))
      /\ Metrics([Whole EXCEPT !.to = Len(series)]) = DOMAIN series
  BY <1>3 DEF Whole, Slices, Metrics
<1>7. ASSUME NEW s \in Slices(Len(series))
      PROVE  ZippedSize(s) \in Nat /\ Metrics(s) \subseteq DOMAIN series
  <2>1. s.from \in 1..(Len(series) + 1) /\ s.to \in 0..Len(series)
    BY DEF Slices
  <2>2. ZippedSize(s) \in Nat
    BY <1>1, <2>1, SplitConstants, Zenon DEF ZippedSize
  <2>3. Metrics(s) \subseteq DOMAIN series
    BY <1>3, <2>1 DEF Metrics
  <2> QED BY <2>2, <2>3
<1> QED BY <1>2, <1>3, <1>4, <1>5, <1>6, <1>7

LEMMA NextPartIs ==
  ASSUME SplitType, NextPart
  PROVE  \/ part = 3 /\ emitPc' = "sent" /\ toSerialize' = <<>> /\ part' = part
         \/ /\ part \in 1..2 /\ emitPc' = "serialize" /\ part' = part + 1
            /\ \E x \in Slices(Len(series)) :
                  /\ toSerialize' = <<x>>
                  /\ Metrics(x) = IF part' = 2 THEN DOMAIN series ELSE {}
<1>1. part \in 1..3
  BY DEF SplitType
<1>2. CASE part = 3
  BY <1>2 DEF NextPart
<1>3. CASE part # 3
  <2>1. emitPc' = "serialize" /\ part' = part + 1 /\ StartOfPart(part')
    BY <1>3 DEF NextPart
  <2>2. CASE part' = 2
    BY <1>1, <1>3, <2>1, <2>2, SeriesTyped DEF StartOfPart
  <2>3. CASE part' # 2
    BY <1>1, <1>3, <2>1, <2>3, SeriesTyped DEF StartOfPart
  <2> QED BY <2>2, <2>3
<1> QED BY <1>2, <1>3

LEMMA FirstOf ==
  ASSUME NEW S, NEW q \in Seq(S), q # <<>>
  PROVE  /\ Head(q) \in S /\ Tail(q) \in Seq(S) /\ Head(q) = q[1] /\ 1 \in DOMAIN q
         /\ Len(q) \in Nat \ {0} /\ Len(Tail(q)) = Len(q) - 1
         /\ DOMAIN q = 1..Len(q) /\ DOMAIN Tail(q) = 1..(Len(q) - 1)
         /\ \A n \in 1..(Len(q) - 1) : Tail(q)[n] = q[n + 1]
  OBVIOUS

LEMMA Appended ==
  ASSUME NEW S, NEW q \in Seq(S), NEW x \in S
  PROVE  /\ Append(q, x) \in Seq(S) /\ Len(q) \in Nat
         /\ DOMAIN q = 1..Len(q) /\ DOMAIN Append(q, x) = 1..(Len(q) + 1)
         /\ \A n \in 1..Len(q) : Append(q, x)[n] = q[n]
         /\ Append(q, x)[Len(q) + 1] = x
  OBVIOUS

LEMMA Prefixed ==
  ASSUME NEW S, NEW q \in Seq(S), NEW n \in Nat, NEW f \in [1..n -> S]
  PROVE  /\ f \o q \in Seq(S)
         /\ DOMAIN (f \o q) = 1..(n + Len(q))
         /\ \A c \in 1..n : (f \o q)[c] = f[c]
         /\ \A c \in (n + 1)..(n + Len(q)) : (f \o q)[c] = q[c - n]
<1>1. f \in Seq(S) /\ Len(f) = n
  OBVIOUS
<1> QED BY <1>1

LEMMA ArrivingTyped ==
  ASSUME SplitType, NEW s \in Slices(Len(series))
  PROVE  /\ Arriving(s) \in Arrivals(Len(series))
         /\ Arriving(s).part = part
         /\ DOMAIN Arriving(s).metrics = IF part = 2 THEN Metrics(s) ELSE {}
         /\ \A i \in DOMAIN Arriving(s).metrics :
               Arriving(s).metrics[i] # series[i].text
                  => \E j \in DOMAIN Arriving(s).metrics : series[j].text = "undecodable"
<1> DEFINE S == IF part = 2 THEN Metrics(s) ELSE {}
           f == [i \in S |-> TextIn(s, i)]
<1>1. Arriving(s) = [part |-> part, metrics |-> f]
  BY DEF Arriving
<1>2. part \in 1..3
  BY DEF SplitType
<1>3. S \subseteq 1..Len(series)
  BY SeriesTyped
<1>4. \A i \in S : TextIn(s, i) \in Texts
  <2> SUFFICES ASSUME NEW i \in S PROVE TextIn(s, i) \in Texts
    OBVIOUS
  <2>1. i \in DOMAIN series
    BY <1>3, SeriesTyped
  <2>2. series[i].text \in {"ascii", "wide", "undecodable"}
    BY <2>1, SeriesTyped
  <2> QED BY <2>2 DEF TextIn, Texts
<1>5. f \in [S -> Texts] /\ DOMAIN f = S /\ \A i \in S : f[i] = TextIn(s, i)
  BY <1>4
<1>6. ASSUME NEW i \in S, f[i] # series[i].text
      PROVE  \E j \in S : series[j].text = "undecodable"
  <2>1. Repaired(s)
    BY <1>5, <1>6 DEF TextIn
  <2>2. S = Metrics(s)
    BY <1>6
  <2> QED BY <2>1, <2>2 DEF Repaired
<1> HIDE DEF f, S
<1>7. Arriving(s) \in Arrivals(Len(series))
  <2>1. f \in UNION {[T -> Texts] : T \in SUBSET (1..Len(series))}
    BY <1>3, <1>5
  <2> QED BY <1>1, <1>2, <2>1 DEF Arrivals
<1>8. Arriving(s).part = part /\ Arriving(s).metrics = f
  BY <1>1
<1>9. DOMAIN Arriving(s).metrics = IF part = 2 THEN Metrics(s) ELSE {}
  BY <1>5, <1>8 DEF S
<1> QED BY <1>5, <1>6, <1>7, <1>8, <1>9

LEMMA SplitIs ==
  ASSUME SplitType, SplitSlice
  PROVE  \E n \in Nat \ {0} :
            toSerialize' = [i \in 1..n |-> Slice(Head(toSerialize), i, n)] \o Tail(toSerialize)
<1>1. PICK ratio \in Ratios :
         LET s == Head(toSerialize)
             nChunks == ZippedSize(s) \div MaxCompressedSize + 1 + ratio
         IN  toSerialize' = [i \in 1..nChunks |-> Slice(s, i, nChunks)] \o Tail(toSerialize)
  BY Zenon DEF SplitSlice
<1>2. Head(toSerialize) \in Slices(Len(series))
  BY FirstOf DEF SplitType, SplitSlice, TooLarge
<1>3. ZippedSize(Head(toSerialize)) \in Nat /\ MaxCompressedSize \in Nat \ {0} /\ ratio \in Nat
  BY <1>2, SeriesTyped, SplitConstants
<1>4. ZippedSize(Head(toSerialize)) \div MaxCompressedSize \in Nat
  BY <1>3, QuotientIs
<1>5. ZippedSize(Head(toSerialize)) \div MaxCompressedSize + 1 + ratio \in Nat \ {0}
  BY <1>3, <1>4
<1> QED BY <1>1, <1>5

LEMMA SplitTypeHolds == SplitInit => SplitType
<1> SUFFICES ASSUME SplitInit PROVE SplitType
  OBVIOUS
<1>1. series \in Batches
  BY DEF SplitInit
<1>2. Len(series) \in Nat
  BY <1>1, SplitConstants
<1>3. Whole \in Slices(Len(series))
  BY <1>2 DEF Whole, Slices
<1>4. toSerialize \in Seq(Slices(Len(series))) /\ payloads \in Seq(Slices(Len(series)))
  BY <1>3 DEF SplitInit
<1>5. inbox \in Seq(Arrivals(Len(series)))
  BY DEF SplitInit
<1>6. given \in [dropped : SUBSET Slices(Len(series)), skipped : SUBSET {"legacy", "metrics", "checkruns"}]
  BY DEF SplitInit
<1>7. emitPc \in {"serialize", "post", "sent", "raised"} /\ part \in 1..3
  BY DEF SplitInit
<1> QED BY <1>1, <1>4, <1>5, <1>6, <1>7 DEF SplitType

LEMMA SplitTypeKept == SplitType /\ [SplitNext]_splitVars => SplitType'
<1> SUFFICES ASSUME SplitType, [SplitNext]_splitVars PROVE SplitType'
  OBVIOUS
<1> DEFINE S == Slices(Len(series))
           A == Arrivals(Len(series))
<1>1. /\ series \in Batches /\ emitPc \in {"serialize", "post", "sent", "raised"} /\ part \in 1..3
      /\ toSerialize \in Seq(S) /\ payloads \in Seq(S) /\ inbox \in Seq(A)
      /\ given \in [dropped : SUBSET S, skipped : SUBSET {"legacy", "metrics", "checkruns"}]
  BY DEF SplitType
<1> HIDE DEF S, A
<1>2. SUFFICES
         /\ series' = series
         /\ emitPc' \in {"serialize", "post", "sent", "raised"} /\ part' \in 1..3
         /\ toSerialize' \in Seq(S) /\ payloads' \in Seq(S) /\ inbox' \in Seq(A)
         /\ given' \in [dropped : SUBSET S, skipped : SUBSET {"legacy", "metrics", "checkruns"}]
  BY <1>1, Zenon DEF SplitType, S, A
<1>3. ASSUME NextPart
      PROVE  /\ emitPc' \in {"serialize", "post", "sent", "raised"} /\ part' \in 1..3
             /\ toSerialize' \in Seq(S)
  <2>1. CASE part = 3 /\ emitPc' = "sent" /\ toSerialize' = <<>> /\ part' = part
    BY <1>1, <2>1
  <2>2. CASE part \in 1..2 /\ emitPc' = "serialize" /\ part' = part + 1
             /\ \E x \in S : toSerialize' = <<x>>
    BY <1>1, <2>2
  <2> QED BY <1>3, <2>1, <2>2, NextPartIs DEF S
<1>4. CASE SerializeWhole
  BY <1>1, <1>4 DEF SerializeWhole
<1>5. CASE CannotSerialize
  <2>1. Parts3[part] \in {"legacy", "metrics", "checkruns"}
    BY <1>1 DEF Parts3
  <2>2. given' = [given EXCEPT !.skipped = @ \union {Parts3[part]}] /\ NextPart
        /\ series' = series /\ payloads' = payloads /\ inbox' = inbox
    BY <1>5 DEF CannotSerialize
  <2>3. given' \in [dropped : SUBSET S, skipped : SUBSET {"legacy", "metrics", "checkruns"}]
    BY <1>1, <2>1, <2>2
  <2> QED BY <1>1, <1>3, <2>2, <2>3
<1>6. CASE SmallEnough
  BY <1>1, <1>6, FirstOf, Appended DEF SmallEnough
<1>7. CASE DropSlice
  <2>1. Head(toSerialize) \in S /\ Tail(toSerialize) \in Seq(S)
    BY <1>1, <1>7, FirstOf DEF DropSlice, TooLarge
  <2>2. /\ given' = [given EXCEPT !.dropped = @ \union {Head(toSerialize)}]
        /\ toSerialize' = Tail(toSerialize)
        /\ UNCHANGED <<series, emitPc, part, payloads, inbox>>
    BY <1>7 DEF DropSlice
  <2>3. given' \in [dropped : SUBSET S, skipped : SUBSET {"legacy", "metrics", "checkruns"}]
    BY <1>1, <2>1, <2>2
  <2> QED BY <1>1, <2>1, <2>2, <2>3
<1>8. CASE SplitSlice
  <2>1. Head(toSerialize) \in S /\ Tail(toSerialize) \in Seq(S)
    BY <1>1, <1>8, FirstOf DEF SplitSlice, TooLarge
  <2>2. PICK n \in Nat \ {0} :
           toSerialize' = [i \in 1..n |-> Slice(Head(toSerialize), i, n)] \o Tail(toSerialize)
    BY <1>8, SplitIs
  <2>3. \A i \in 1..n : Slice(Head(toSerialize), i, n) \in S
    BY <2>1, SlicesTile, SeriesTyped DEF S
  <2>4. toSerialize' \in Seq(S)
    BY <2>1, <2>2, <2>3, Prefixed
  <2>5. UNCHANGED <<series, emitPc, part, payloads, inbox, given>>
    BY <1>8 DEF SplitSlice
  <2> QED BY <1>1, <2>4, <2>5
<1>9. CASE SplitDone
  BY <1>1, <1>9 DEF SplitDone
<1>10. CASE PostAccepted
  <2>1. Head(payloads) \in S /\ Tail(payloads) \in Seq(S)
    BY <1>1, <1>10, FirstOf DEF PostAccepted
  <2>2. Arriving(Head(payloads)) \in A
    BY <2>1, ArrivingTyped DEF S, A
  <2>3. Append(inbox, Arriving(Head(payloads))) \in Seq(A)
    BY <1>1, <2>2, Appended
  <2> QED BY <1>1, <1>10, <2>1, <2>3 DEF PostAccepted
<1>11. CASE PartPosted
  BY <1>1, <1>3, <1>11 DEF PartPosted
<1>12. CASE PostFails
  BY <1>1, <1>12 DEF PostFails
<1>13. CASE UNCHANGED splitVars
  BY <1>1, <1>13 DEF splitVars
<1> QED BY <1>4, <1>5, <1>6, <1>7, <1>8, <1>9, <1>10, <1>11, <1>12, <1>13 DEF SplitNext

-----------------------------------------------------------------------------
(* Where the metrics go in a step *)

LEMMA PostsKept ==
  ASSUME inbox' = inbox
  PROVE  \A i : PostsOf(i)' = PostsOf(i)
  BY DEF PostsOf, Posts

LEMMA DroppedKept ==
  ASSUME given'.dropped = given.dropped
  PROVE  DroppedMetrics' = DroppedMetrics
  BY DEF DroppedMetrics

LEMMA PlacesAre ==
  /\ \A n, i : MetricAt(1, n, i) <=> n \in DOMAIN toSerialize /\ i \in Metrics(toSerialize[n])
  /\ \A n, i : MetricAt(2, n, i) <=> part = 2 /\ n \in DOMAIN payloads /\ i \in Metrics(payloads[n])
  /\ \A n, i : MetricAt(3, n, i) <=> n \in PostsOf(i)
  /\ \A n, i : MetricAt(4, n, i) <=> n = 0 /\ i \in DroppedMetrics
  BY DEF MetricAt

LEMMA NextPlacesAre ==
  /\ \A n, i : MetricAt(1, n, i)' <=> n \in DOMAIN toSerialize' /\ i \in Metrics(toSerialize'[n])
  /\ \A n, i : MetricAt(2, n, i)' <=> part' = 2 /\ n \in DOMAIN payloads' /\ i \in Metrics(payloads'[n])
  /\ \A n, i : MetricAt(3, n, i)' <=> n \in PostsOf(i)'
  /\ \A n, i : MetricAt(4, n, i)' <=> n = 0 /\ i \in DroppedMetrics'
  BY DEF MetricAt

\* The head of what is to be serialized is taken.
LEMMA SliceTaken ==
  ASSUME SplitType, toSerialize # <<>>, toSerialize' = Tail(toSerialize)
  PROVE  /\ \A i : MetricAt(1, 1, i) <=> i \in Metrics(Head(toSerialize))
         /\ \A i : \A n \in Nat : MetricAt(1, n, i) => n # 0
         /\ \A i : \A n \in Nat : MetricAt(1, n, i)' <=> n # 0 /\ MetricAt(1, n + 1, i)
<1>1. toSerialize \in Seq(Slices(Len(series)))
  BY DEF SplitType
<1>2. /\ Head(toSerialize) = toSerialize[1] /\ 1 \in DOMAIN toSerialize
      /\ Len(toSerialize) \in Nat \ {0}
      /\ DOMAIN toSerialize = 1..Len(toSerialize) /\ DOMAIN toSerialize' = 1..(Len(toSerialize) - 1)
      /\ \A n \in 1..(Len(toSerialize) - 1) : toSerialize'[n] = toSerialize[n + 1]
  BY <1>1, FirstOf
<1>3. \A i : MetricAt(1, 1, i) <=> i \in Metrics(Head(toSerialize))
  BY <1>2, PlacesAre
<1>4. \A i : \A n \in Nat : MetricAt(1, n, i) => n # 0
  BY <1>2, PlacesAre
<1>5. ASSUME NEW i, NEW n \in Nat
      PROVE  MetricAt(1, n, i)' <=> n # 0 /\ MetricAt(1, n + 1, i)
  <2>1. n \in DOMAIN toSerialize' <=> n # 0 /\ n + 1 \in DOMAIN toSerialize
    BY <1>2
  <2>2. n \in DOMAIN toSerialize' => toSerialize'[n] = toSerialize[n + 1]
    BY <1>2
  <2> QED BY <2>1, <2>2, PlacesAre, NextPlacesAre, Zenon
<1> QED BY <1>3, <1>4, <1>5

\* The next slice is small enough.
LEMMA SmallEnoughMoves ==
  ASSUME SplitType, SmallEnough
  PROVE  /\ Len(payloads) \in Nat
         /\ \A i : \A n \in Nat : MetricAt(1, n, i) => n # 0
         /\ \A i : \A n \in Nat : MetricAt(2, n, i) => n <= Len(payloads)
         /\ \A i : \A n \in Nat : MetricAt(1, n, i)' <=> n # 0 /\ MetricAt(1, n + 1, i)
         /\ \A i : \A n \in Nat : MetricAt(2, n, i)' <=> \/ MetricAt(2, n, i)
                                                         \/ n = Len(payloads) + 1 /\ MetricAt(1, 1, i)
         /\ \A i : \A n \in Nat : MetricAt(3, n, i)' <=> MetricAt(3, n, i)
         /\ \A i : \A n \in Nat : MetricAt(4, n, i)' <=> MetricAt(4, n, i)
<1>1. /\ toSerialize # <<>> /\ toSerialize' = Tail(toSerialize)
      /\ payloads' = Append(payloads, Head(toSerialize)) /\ part = 2 /\ part' = 2
      /\ inbox' = inbox /\ given' = given
  BY DEF SmallEnough
<1>2. toSerialize \in Seq(Slices(Len(series))) /\ payloads \in Seq(Slices(Len(series)))
  BY DEF SplitType
<1>3. Head(toSerialize) \in Slices(Len(series))
  BY <1>1, <1>2, FirstOf
<1>4. /\ Len(payloads) \in Nat /\ DOMAIN payloads = 1..Len(payloads)
      /\ DOMAIN payloads' = 1..(Len(payloads) + 1)
      /\ \A n \in 1..Len(payloads) : payloads'[n] = payloads[n]
      /\ payloads'[Len(payloads) + 1] = Head(toSerialize)
  BY <1>1, <1>2, <1>3, Appended
<1>5. \A i : \A n \in Nat : MetricAt(2, n, i) => n <= Len(payloads)
  BY <1>4, PlacesAre
<1>6. ASSUME NEW i, NEW n \in Nat
      PROVE  MetricAt(2, n, i)' <=> MetricAt(2, n, i) \/ (n = Len(payloads) + 1 /\ MetricAt(1, 1, i))
  <2>1. MetricAt(1, 1, i) <=> i \in Metrics(Head(toSerialize))
    BY <1>1, SliceTaken
  <2>2. n \in DOMAIN payloads' <=> n \in DOMAIN payloads \/ n = Len(payloads) + 1
    BY <1>4
  <2>3. n \in DOMAIN payloads => payloads'[n] = payloads[n] /\ n # Len(payloads) + 1
    BY <1>4
  <2>4. n = Len(payloads) + 1 => payloads'[n] = Head(toSerialize)
    BY <1>4
  <2> QED BY <1>1, <2>1, <2>2, <2>3, <2>4, PlacesAre, NextPlacesAre, Zenon
<1>7. \A i : PostsOf(i)' = PostsOf(i)
  BY <1>1, PostsKept
<1>8. DroppedMetrics' = DroppedMetrics
  BY <1>1, DroppedKept
<1>9. \A i, n : (MetricAt(3, n, i)' <=> MetricAt(3, n, i)) /\ (MetricAt(4, n, i)' <=> MetricAt(4, n, i))
  BY <1>7, <1>8, PlacesAre, NextPlacesAre, Zenon
<1> QED BY <1>1, <1>4, <1>5, <1>6, <1>9, SliceTaken

LEMMA DropSliceMoves ==
  ASSUME SplitType, DropSlice
  PROVE  /\ \A i : \A n \in Nat : MetricAt(1, n, i) => n # 0
         /\ \A i : \A n \in Nat : MetricAt(4, n, i) => n = 0
         /\ \A i : \A n \in Nat : MetricAt(1, n, i)' <=> n # 0 /\ MetricAt(1, n + 1, i)
         /\ \A i : \A n \in Nat : MetricAt(2, n, i)' <=> MetricAt(2, n, i)
         /\ \A i : \A n \in Nat : MetricAt(3, n, i)' <=> MetricAt(3, n, i)
         /\ \A i : \A n \in Nat : MetricAt(4, n, i)' <=> \/ MetricAt(4, n, i)
                                                         \/ n = 0 /\ MetricAt(1, 1, i)
<1>1. /\ toSerialize # <<>> /\ toSerialize' = Tail(toSerialize)
      /\ given' = [given EXCEPT !.dropped = @ \union {Head(toSerialize)}]
      /\ payloads' = payloads /\ inbox' = inbox /\ part' = part
  BY DEF DropSlice, TooLarge
<1>2. given'.dropped = given.dropped \union {Head(toSerialize)}
  BY <1>1 DEF SplitType
<1>3. \A i : i \in DroppedMetrics' <=> i \in DroppedMetrics \/ i \in Metrics(Head(toSerialize))
  BY <1>2 DEF DroppedMetrics
<1>4. \A i : MetricAt(1, 1, i) <=> i \in Metrics(Head(toSerialize))
  BY <1>1, SliceTaken
<1>5. \A i, n : MetricAt(4, n, i)' <=> MetricAt(4, n, i) \/ (n = 0 /\ MetricAt(1, 1, i))
  BY <1>3, <1>4, PlacesAre, NextPlacesAre, Zenon
<1>6. \A i : PostsOf(i)' = PostsOf(i)
  BY <1>1, PostsKept
<1>7. \A i, n : (MetricAt(3, n, i)' <=> MetricAt(3, n, i)) /\ (MetricAt(2, n, i)' <=> MetricAt(2, n, i))
  BY <1>1, <1>6, PlacesAre, NextPlacesAre, Zenon
<1>8. \A i, n : MetricAt(4, n, i) => n = 0
  BY PlacesAre, Zenon
<1> QED BY <1>1, <1>5, <1>7, <1>8, SliceTaken

LEMMA SplitSliceMoves ==
  ASSUME SplitType, SplitSlice
  PROVE  \E n \in Nat \ {0} :
         /\ \A i : \A k \in Nat : MetricAt(1, k, i)' => k # 0
         /\ \A i : \A k \in 1..n : MetricAt(1, k, i)' => MetricAt(1, 1, i)
         /\ \A i : \A k, l \in 1..n : MetricAt(1, k, i)' /\ MetricAt(1, l, i)' => k = l
         /\ \A i : MetricAt(1, 1, i) => \E k \in 1..n : MetricAt(1, k, i)'
         /\ \A i : \A k \in Nat \ {0} : MetricAt(1, n + k, i)' <=> MetricAt(1, k + 1, i)
         /\ \A i : \A k \in Nat : MetricAt(1, k, i) => k # 0
         /\ \A i : \A k \in Nat : MetricAt(2, k, i)' <=> MetricAt(2, k, i)
         /\ \A i : \A k \in Nat : MetricAt(3, k, i)' <=> MetricAt(3, k, i)
         /\ \A i : \A k \in Nat : MetricAt(4, k, i)' <=> MetricAt(4, k, i)
<1> DEFINE S == Slices(Len(series))
           s == Head(toSerialize)
<1>1. /\ toSerialize # <<>> /\ payloads' = payloads /\ inbox' = inbox /\ part' = part /\ given' = given
  BY DEF SplitSlice, TooLarge
<1>2. toSerialize \in Seq(S)
  BY DEF SplitType
<1>3. /\ s \in S /\ Tail(toSerialize) \in Seq(S) /\ s = toSerialize[1]
      /\ Len(toSerialize) \in Nat \ {0} /\ Len(Tail(toSerialize)) = Len(toSerialize) - 1
      /\ DOMAIN toSerialize = 1..Len(toSerialize)
      /\ \A k \in 1..(Len(toSerialize) - 1) : Tail(toSerialize)[k] = toSerialize[k + 1]
  BY <1>1, <1>2, FirstOf
<1>4. PICK n \in Nat \ {0} :
         toSerialize' = [i \in 1..n |-> Slice(s, i, n)] \o Tail(toSerialize)
  BY SplitIs
<1>5. /\ \A c \in 1..n : Slice(s, c, n) \in S /\ Metrics(Slice(s, c, n)) \subseteq Metrics(s)
      /\ \A i \in Metrics(s) : \E c \in 1..n : i \in Metrics(Slice(s, c, n))
      /\ \A c, d \in 1..n : \A i : i \in Metrics(Slice(s, c, n)) /\ i \in Metrics(Slice(s, d, n)) => c = d
  BY <1>3, SlicesTile, SeriesTyped
<1> HIDE DEF S, s
<1> DEFINE f == [i \in 1..n |-> Slice(s, i, n)]
<1>6. f \in [1..n -> S]
  BY <1>5
<1>7. \A c \in 1..n : f[c] = Slice(s, c, n)
  OBVIOUS
<1> HIDE DEF f
<1>8. /\ DOMAIN toSerialize' = 1..(n + (Len(toSerialize) - 1))
      /\ \A c \in 1..n : toSerialize'[c] = Slice(s, c, n)
      /\ \A c \in (n + 1)..(n + (Len(toSerialize) - 1)) : toSerialize'[c] = Tail(toSerialize)[c - n]
  BY <1>3, <1>4, <1>6, <1>7, Prefixed DEF f
<1>9. \A i : MetricAt(1, 1, i) <=> i \in Metrics(s)
  <2>1. 1 \in DOMAIN toSerialize
    BY <1>3
  <2> QED BY <1>3, <2>1, PlacesAre
<1>10. \A i : \A c \in 1..n : MetricAt(1, c, i)' <=> i \in Metrics(Slice(s, c, n))
  <2>1. \A c \in 1..n : c \in DOMAIN toSerialize'
    BY <1>3, <1>8
  <2> QED BY <1>8, <2>1, NextPlacesAre, Zenon
<1>11. ASSUME NEW i, NEW k \in Nat \ {0}
       PROVE  MetricAt(1, n + k, i)' <=> MetricAt(1, k + 1, i)
  <2>1. n + k \in DOMAIN toSerialize' <=> k + 1 \in DOMAIN toSerialize
    BY <1>3, <1>8
  <2>2. ASSUME k + 1 \in DOMAIN toSerialize
        PROVE  toSerialize'[n + k] = toSerialize[k + 1]
    <3>1. n + k \in (n + 1)..(n + (Len(toSerialize) - 1)) /\ (n + k) - n = k /\ k \in 1..(Len(toSerialize) - 1)
      BY <1>3, <2>2
    <3> QED BY <1>3, <1>8, <3>1
  <2> QED BY <2>1, <2>2, PlacesAre, NextPlacesAre, Zenon
<1>12. \A i : PostsOf(i)' = PostsOf(i)
  BY <1>1, PostsKept
<1>13. DroppedMetrics' = DroppedMetrics
  BY <1>1, DroppedKept
<1>14. \A i, k : /\ MetricAt(2, k, i)' <=> MetricAt(2, k, i)
                 /\ MetricAt(3, k, i)' <=> MetricAt(3, k, i)
                 /\ MetricAt(4, k, i)' <=> MetricAt(4, k, i)
  BY <1>1, <1>12, <1>13, PlacesAre, NextPlacesAre, Zenon
<1>15. \A i : \A k \in Nat : /\ MetricAt(1, k, i) => k # 0
                             /\ MetricAt(1, k, i)' => k # 0
  BY <1>3, <1>8, PlacesAre, NextPlacesAre
<1>16. \A i : \A k \in 1..n : MetricAt(1, k, i)' => MetricAt(1, 1, i)
  BY <1>5, <1>9, <1>10, Zenon
<1>17. \A i : \A k, l \in 1..n : MetricAt(1, k, i)' /\ MetricAt(1, l, i)' => k = l
  BY <1>5, <1>10, Zenon
<1>18. \A i : MetricAt(1, 1, i) => \E k \in 1..n : MetricAt(1, k, i)'
  BY <1>5, <1>9, <1>10, ZenonT(30)
<1> WITNESS n \in Nat \ {0}
<1> QED BY <1>11, <1>14, <1>15, <1>16, <1>17, <1>18

LEMMA AcceptedMoves ==
  ASSUME SplitType, PostAccepted
  PROVE  /\ Len(inbox) \in Nat
         /\ \A i : \A n \in Nat : MetricAt(2, n, i) => n # 0
         /\ \A i : \A n \in Nat : MetricAt(3, n, i) => n <= Len(inbox)
         /\ \A i : \A n \in Nat : MetricAt(1, n, i)' <=> MetricAt(1, n, i)
         /\ \A i : \A n \in Nat : MetricAt(2, n, i)' <=> n # 0 /\ MetricAt(2, n + 1, i)
         /\ \A i : \A n \in Nat : MetricAt(3, n, i)' <=> \/ MetricAt(3, n, i)
                                                         \/ n = Len(inbox) + 1 /\ MetricAt(2, 1, i)
         /\ \A i : \A n \in Nat : MetricAt(4, n, i)' <=> MetricAt(4, n, i)
<1>1. /\ payloads # <<>> /\ payloads' = Tail(payloads) /\ inbox' = Append(inbox, Arriving(Head(payloads)))
      /\ toSerialize' = toSerialize /\ part' = part /\ given' = given
  BY DEF PostAccepted
<1>2. payloads \in Seq(Slices(Len(series))) /\ inbox \in Seq(Arrivals(Len(series)))
  BY DEF SplitType
<1>3. /\ Head(payloads) \in Slices(Len(series)) /\ Head(payloads) = payloads[1]
      /\ Len(payloads) \in Nat \ {0}
      /\ DOMAIN payloads = 1..Len(payloads) /\ DOMAIN payloads' = 1..(Len(payloads) - 1)
      /\ \A n \in 1..(Len(payloads) - 1) : payloads'[n] = payloads[n + 1]
  BY <1>1, <1>2, FirstOf
<1>4. PICK x \in Arrivals(Len(series)) : x = Arriving(Head(payloads))
  BY <1>3, ArrivingTyped
<1>5. x.part = part /\ DOMAIN x.metrics = IF part = 2 THEN Metrics(Head(payloads)) ELSE {}
  BY <1>3, <1>4, ArrivingTyped
<1>6. /\ Len(inbox) \in Nat /\ DOMAIN inbox = 1..Len(inbox) /\ DOMAIN inbox' = 1..(Len(inbox) + 1)
      /\ \A n \in 1..Len(inbox) : inbox'[n] = inbox[n]
      /\ inbox'[Len(inbox) + 1] = x
  BY <1>1, <1>2, <1>4, Appended
<1>7. \A i : \A n \in Nat : (MetricAt(2, n, i) => n # 0) /\ (MetricAt(3, n, i) => n <= Len(inbox))
  BY <1>3, <1>6, PlacesAre DEF PostsOf, Posts
<1>8. ASSUME NEW i, NEW n \in Nat
      PROVE  MetricAt(2, n, i)' <=> n # 0 /\ MetricAt(2, n + 1, i)
  <2>1. n \in DOMAIN payloads' <=> n # 0 /\ n + 1 \in DOMAIN payloads
    BY <1>3
  <2>2. n \in DOMAIN payloads' => payloads'[n] = payloads[n + 1]
    BY <1>3
  <2> QED BY <1>1, <2>1, <2>2, PlacesAre, NextPlacesAre, Zenon
<1>9. \A i : MetricAt(2, 1, i) <=> x.part = 2 /\ i \in DOMAIN x.metrics
  <2>1. 1 \in DOMAIN payloads
    BY <1>3
  <2> QED BY <1>3, <1>5, <2>1, PlacesAre
<1>10. ASSUME NEW i, NEW n \in Nat
       PROVE  MetricAt(3, n, i)' <=> MetricAt(3, n, i) \/ (n = Len(inbox) + 1 /\ MetricAt(2, 1, i))
  <2>1. n \in PostsOf(i) <=> n \in DOMAIN inbox /\ inbox[n].part = 2 /\ i \in DOMAIN inbox[n].metrics
    BY DEF PostsOf, Posts
  <2>2. n \in PostsOf(i)' <=> n \in DOMAIN inbox' /\ inbox'[n].part = 2 /\ i \in DOMAIN inbox'[n].metrics
    BY DEF PostsOf, Posts
  <2>3. n \in DOMAIN inbox' <=> n \in DOMAIN inbox \/ n = Len(inbox) + 1
    BY <1>6
  <2>4. n \in DOMAIN inbox => inbox'[n] = inbox[n] /\ n # Len(inbox) + 1
    BY <1>6
  <2>5. n = Len(inbox) + 1 => inbox'[n] = x
    BY <1>6
  <2> QED BY <1>9, <2>1, <2>2, <2>3, <2>4, <2>5, PlacesAre, NextPlacesAre, Zenon
<1>11. DroppedMetrics' = DroppedMetrics
  BY <1>1, DroppedKept
<1>12. \A i, n : (MetricAt(1, n, i)' <=> MetricAt(1, n, i)) /\ (MetricAt(4, n, i)' <=> MetricAt(4, n, i))
  BY <1>1, <1>11, PlacesAre, NextPlacesAre, Zenon
<1> QED BY <1>6, <1>7, <1>8, <1>10, <1>12

\* A payload that is not split holds no metric, before it is serialized and after.
LEMMA WholeMoves ==
  ASSUME SplitType, InHand, SerializeWhole
  PROVE  \A i, n : /\ ~MetricAt(1, n, i)' /\ ~MetricAt(2, n, i)'
                   /\ MetricAt(3, n, i)' <=> MetricAt(3, n, i)
                   /\ MetricAt(4, n, i)' <=> MetricAt(4, n, i)
<1>1. part # 2 /\ part' = part /\ toSerialize' = <<>> /\ inbox' = inbox /\ given' = given
  BY DEF SerializeWhole
<1>2. DOMAIN toSerialize' = {}
  BY <1>1
<1>3. \A i : PostsOf(i)' = PostsOf(i)
  BY <1>1, PostsKept
<1>4. DroppedMetrics' = DroppedMetrics
  BY <1>1, DroppedKept
<1> QED BY <1>1, <1>2, <1>3, <1>4, PlacesAre, NextPlacesAre

\* The next part has the metrics, or none.
LEMMA PartMoves ==
  ASSUME SplitType, NextPart, payloads = <<>>, payloads' = <<>>, inbox' = inbox,
         given'.dropped = given.dropped
  PROVE  /\ \A i, n : /\ ~MetricAt(2, n, i)'
                      /\ MetricAt(3, n, i)' <=> MetricAt(3, n, i)
                      /\ MetricAt(4, n, i)' <=> MetricAt(4, n, i)
         /\ \A i, n : MetricAt(1, n, i)' => part = 1 /\ n = 1
         /\ part = 1 => \A i \in DOMAIN series : MetricAt(1, 1, i)'
<1>1. \A i : PostsOf(i)' = PostsOf(i)
  BY PostsKept
<1>2. DroppedMetrics' = DroppedMetrics
  BY DroppedKept
<1>3. DOMAIN payloads' = {}
  OBVIOUS
<1>4. \A i, n : /\ ~MetricAt(2, n, i)'
                /\ MetricAt(3, n, i)' <=> MetricAt(3, n, i)
                /\ MetricAt(4, n, i)' <=> MetricAt(4, n, i)
  BY <1>1, <1>2, <1>3, PlacesAre, NextPlacesAre, Zenon
<1>5. CASE part = 3 /\ toSerialize' = <<>>
  <2>1. DOMAIN toSerialize' = {}
    BY <1>5
  <2> QED BY <1>4, <1>5, <2>1, NextPlacesAre
<1>6. CASE /\ part \in 1..2 /\ part' = part + 1
           /\ \E x \in Slices(Len(series)) :
                 /\ toSerialize' = <<x>>
                 /\ Metrics(x) = IF part' = 2 THEN DOMAIN series ELSE {}
  <2>1. PICK x \in Slices(Len(series)) : /\ toSerialize' = <<x>>
                                         /\ Metrics(x) = IF part' = 2 THEN DOMAIN series ELSE {}
    BY <1>6
  <2>2. DOMAIN toSerialize' = {1} /\ toSerialize'[1] = x
    BY <2>1
  <2>3. \A i, n : MetricAt(1, n, i)' <=> n = 1 /\ i \in Metrics(x)
    BY <2>2, NextPlacesAre
  <2>4. \A i : i \in Metrics(x) <=> part = 1 /\ i \in DOMAIN series
    BY <1>6, <2>1
  <2> QED BY <1>4, <2>3, <2>4
<1> QED BY <1>5, <1>6, NextPartIs

-----------------------------------------------------------------------------
(* The invariant is inductive *)

LEMMA OnePlaceKept ==
  ASSUME SplitType, InHand, Posted, OnePlace, [SplitNext]_splitVars
  PROVE  OnePlace'
<1>1. series' = series
  BY DEF SplitNext, splitVars, SerializeWhole, CannotSerialize, SmallEnough, DropSlice, SplitSlice,
         SplitDone, PostAccepted, PartPosted, PostFails
<1>2. SUFFICES ASSUME NEW i \in DOMAIN series, NEW k \in 1..4, NEW l \in 1..4, NEW n \in Nat,
                      NEW m \in Nat, MetricAt(k, n, i)', MetricAt(l, m, i)'
               PROVE  k = l /\ n = m
  BY <1>1 DEF OnePlace
<1>3. \A c, d \in 1..4 : \A a, b \in Nat : MetricAt(c, a, i) /\ MetricAt(d, b, i) => c = d /\ a = b
  BY DEF OnePlace
<1>4. k \in {1, 2, 3, 4} /\ l \in {1, 2, 3, 4}
  OBVIOUS
<1>5. CASE SerializeWhole
  <2>1. MetricAt(k, n, i) /\ MetricAt(l, m, i)
    BY <1>2, <1>4, <1>5, WholeMoves
  <2> QED BY <1>3, <2>1
<1>6. CASE (CannotSerialize \/ PartPosted) /\ payloads = <<>> /\ payloads' = <<>> /\ inbox' = inbox
           /\ given'.dropped = given.dropped /\ NextPart
  <2>1. CASE part = 1
    <3>1. \A a : ~MetricAt(3, a, i) /\ ~MetricAt(4, a, i)
      <4>1. PostsOf(i) = {}
        BY <2>1 DEF Posted, PostsOf, Posts
      <4>2. DroppedMetrics = {}
        BY <2>1 DEF InHand, DroppedMetrics
      <4> QED BY <4>1, <4>2, PlacesAre, Zenon
    <3> QED BY <1>2, <1>4, <1>6, <3>1, PartMoves
  <2>2. CASE part # 1
    <3>1. MetricAt(k, n, i) /\ MetricAt(l, m, i)
      BY <1>2, <1>4, <1>6, <2>2, PartMoves
    <3> QED BY <1>3, <3>1
  <2> QED BY <2>1, <2>2
<1>7. CASE SmallEnough
  BY <1>2, <1>3, <1>4, <1>7, SmallEnoughMoves
<1>8. CASE DropSlice
  BY <1>2, <1>3, <1>4, <1>8, DropSliceMoves
<1>9. CASE SplitSlice
  <2>1. PICK t \in Nat \ {0} :
         /\ \A a \in Nat : MetricAt(1, a, i)' => a # 0
         /\ \A a \in 1..t : MetricAt(1, a, i)' => MetricAt(1, 1, i)
         /\ \A a, b \in 1..t : MetricAt(1, a, i)' /\ MetricAt(1, b, i)' => a = b
         /\ \A a \in Nat \ {0} : MetricAt(1, t + a, i)' <=> MetricAt(1, a + 1, i)
         /\ \A a \in Nat : MetricAt(2, a, i)' <=> MetricAt(2, a, i)
         /\ \A a \in Nat : MetricAt(3, a, i)' <=> MetricAt(3, a, i)
         /\ \A a \in Nat : MetricAt(4, a, i)' <=> MetricAt(4, a, i)
    BY <1>9, SplitSliceMoves, Zenon
  <2>2. ASSUME NEW a \in Nat, MetricAt(1, a, i)'
        PROVE  \/ a \in 1..t /\ MetricAt(1, 1, i)
               \/ a > t /\ MetricAt(1, a - t + 1, i) /\ a - t + 1 \in Nat /\ a - t + 1 > 1
    <3>1. a # 0
      BY <2>1, <2>2
    <3>2. CASE a \in 1..t
      BY <2>1, <2>2, <3>2
    <3>3. CASE a \notin 1..t
      <4>1. a - t \in Nat \ {0} /\ t + (a - t) = a
        BY <3>1, <3>3
      <4>2. MetricAt(1, t + (a - t), i)'
        BY <2>2, <4>1
      <4>3. MetricAt(1, (a - t) + 1, i)
        BY <2>1, <4>1, <4>2
      <4> QED BY <4>1, <4>3
    <3> QED BY <3>2, <3>3
  <2>3. CASE k = 1 /\ l = 1
    <3>1. CASE n \in 1..t /\ m \in 1..t
      BY <1>2, <2>1, <2>3, <3>1
    <3>2. CASE n \in 1..t /\ m \notin 1..t
      <4>1. MetricAt(1, 1, i) /\ MetricAt(1, m - t + 1, i) /\ m - t + 1 \in Nat /\ m - t + 1 > 1
        BY <1>2, <2>2, <2>3, <3>2
      <4>2. 1 = m - t + 1
        BY <1>3, <4>1
      <4> QED BY <4>1, <4>2
    <3>3. CASE n \notin 1..t /\ m \in 1..t
      <4>1. MetricAt(1, 1, i) /\ MetricAt(1, n - t + 1, i) /\ n - t + 1 \in Nat /\ n - t + 1 > 1
        BY <1>2, <2>2, <2>3, <3>3
      <4>2. 1 = n - t + 1
        BY <1>3, <4>1
      <4> QED BY <4>1, <4>2
    <3>4. CASE n \notin 1..t /\ m \notin 1..t
      <4>1. /\ MetricAt(1, n - t + 1, i) /\ n - t + 1 \in Nat
            /\ MetricAt(1, m - t + 1, i) /\ m - t + 1 \in Nat
        BY <1>2, <2>2, <2>3, <3>4
      <4>2. n - t + 1 = m - t + 1
        BY <1>3, <4>1
      <4> QED BY <2>3, <4>2
    <3> QED BY <3>1, <3>2, <3>3, <3>4
  <2>4. \A a \in Nat : MetricAt(1, a, i)' => \E b \in Nat : MetricAt(1, b, i)
    BY <2>2
  <2>5. CASE k # 1 \/ l # 1
    BY <1>2, <1>3, <1>4, <2>1, <2>4, <2>5
  <2> QED BY <2>3, <2>5
<1>10. CASE PostAccepted
  BY <1>2, <1>3, <1>4, <1>10, AcceptedMoves
<1>11. CASE UNCHANGED <<toSerialize, payloads, inbox, given, part>>
  <2>1. MetricAt(k, n, i) /\ MetricAt(l, m, i)
    BY <1>2, <1>11 DEF MetricAt, PostsOf, Posts, DroppedMetrics
  <2> QED BY <1>3, <2>1
<1>12. ASSUME SplitDone \/ PostFails \/ UNCHANGED splitVars
       PROVE  UNCHANGED <<toSerialize, payloads, inbox, given, part>>
  BY <1>12 DEF SplitDone, PostFails, splitVars
<1>13. ASSUME CannotSerialize \/ PartPosted
       PROVE  payloads = <<>> /\ payloads' = <<>> /\ inbox' = inbox /\ given'.dropped = given.dropped /\ NextPart
  BY <1>13 DEF CannotSerialize, PartPosted, SplitType
<1> QED BY <1>5, <1>6, <1>7, <1>8, <1>9, <1>10, <1>11, <1>12, <1>13 DEF SplitNext

LEMMA InHandKept ==
  ASSUME SplitType, InHand, [SplitNext]_splitVars
  PROVE  InHand'
<1>1. /\ part # 2 => /\ \A k \in DOMAIN toSerialize : Metrics(toSerialize[k]) = {}
                     /\ \A k \in DOMAIN payloads : Metrics(payloads[k]) = {}
      /\ emitPc = "post" => toSerialize = <<>>
      /\ emitPc = "sent" => part = 3
      /\ part = 1 => given.dropped = {}
  BY DEF InHand
<1>2. SUFFICES
      /\ part' # 2 => /\ \A k \in DOMAIN toSerialize' : Metrics(toSerialize'[k]) = {}
                      /\ \A k \in DOMAIN payloads' : Metrics(payloads'[k]) = {}
      /\ emitPc' = "post" => toSerialize' = <<>>
      /\ emitPc' = "sent" => part' = 3
      /\ part' = 1 => given'.dropped = {}
  BY DEF InHand
<1>3. toSerialize \in Seq(Slices(Len(series))) /\ payloads \in Seq(Slices(Len(series)))
  BY DEF SplitType
<1>4. CASE SerializeWhole
  BY <1>1, <1>4 DEF SerializeWhole
<1>5. CASE CannotSerialize \/ PartPosted
  <2>1. NextPart /\ payloads' = <<>> /\ given'.dropped = given.dropped
    BY <1>5 DEF CannotSerialize, PartPosted, SplitType
  <2>2. CASE part = 3 /\ emitPc' = "sent" /\ toSerialize' = <<>> /\ part' = part
    BY <2>1, <2>2
  <2>3. CASE /\ part \in 1..2 /\ emitPc' = "serialize" /\ part' = part + 1
             /\ \E x \in Slices(Len(series)) :
                   /\ toSerialize' = <<x>>
                   /\ Metrics(x) = IF part' = 2 THEN DOMAIN series ELSE {}
    <3>1. PICK x \in Slices(Len(series)) : /\ toSerialize' = <<x>>
                                           /\ Metrics(x) = IF part' = 2 THEN DOMAIN series ELSE {}
      BY <2>3
    <3>2. \A k \in DOMAIN toSerialize' : toSerialize'[k] = x
      BY <3>1
    <3>3. part' # 2 => \A k \in DOMAIN toSerialize' : Metrics(toSerialize'[k]) = {}
      BY <3>1, <3>2
    <3>4. \A k \in DOMAIN payloads' : Metrics(payloads'[k]) = {}
      BY <2>1
    <3> QED BY <2>3, <3>3, <3>4
  <2> QED BY <2>1, <2>2, <2>3, NextPartIs
<1>6. CASE SmallEnough
  BY <1>6 DEF SmallEnough
<1>7. CASE DropSlice
  BY <1>7 DEF DropSlice, TooLarge
<1>8. CASE SplitSlice
  BY <1>8 DEF SplitSlice, TooLarge
<1>9. CASE SplitDone
  BY <1>1, <1>9 DEF SplitDone
<1>10. CASE PostAccepted
  <2>1. /\ payloads # <<>> /\ payloads' = Tail(payloads) /\ emitPc' = emitPc /\ part' = part
        /\ toSerialize' = toSerialize /\ given' = given
    BY <1>10 DEF PostAccepted
  <2>2. ASSUME NEW k \in DOMAIN payloads' PROVE k + 1 \in DOMAIN payloads /\ payloads'[k] = payloads[k + 1]
    BY <1>3, <2>1, FirstOf
  <2>3. part' # 2 => \A k \in DOMAIN payloads' : Metrics(payloads'[k]) = {}
    BY <1>1, <2>1, <2>2
  <2> QED BY <1>1, <2>1, <2>3
<1>11. CASE PostFails
  BY <1>1, <1>11 DEF PostFails
<1>12. CASE UNCHANGED splitVars
  BY <1>1, <1>12 DEF splitVars
<1> QED BY <1>4, <1>5, <1>6, <1>7, <1>8, <1>9, <1>10, <1>11, <1>12 DEF SplitNext

LEMMA PostedKept ==
  ASSUME SplitType, Posted, [SplitNext]_splitVars
  PROVE  Posted'
<1>1. /\ \A n \in DOMAIN inbox : inbox[n].part <= part
      /\ \A n, m \in DOMAIN inbox : n < m => inbox[n].part <= inbox[m].part
      /\ \A n \in DOMAIN inbox : inbox[n].part = 2 =>
            \A i \in DOMAIN inbox[n].metrics :
               inbox[n].metrics[i] # series[i].text
                  => \E j \in DOMAIN inbox[n].metrics : series[j].text = "undecodable"
  BY DEF Posted, Posts
<1>2. SUFFICES
      /\ \A n \in DOMAIN inbox' : inbox'[n].part <= part'
      /\ \A n, m \in DOMAIN inbox' : n < m => inbox'[n].part <= inbox'[m].part
      /\ \A n \in DOMAIN inbox' : inbox'[n].part = 2 =>
            \A i \in DOMAIN inbox'[n].metrics :
               inbox'[n].metrics[i] # series'[i].text
                  => \E j \in DOMAIN inbox'[n].metrics : series'[j].text = "undecodable"
  BY DEF Posted, Posts
<1>3. part \in 1..3 /\ inbox \in Seq(Arrivals(Len(series)))
  BY DEF SplitType
<1>4. \A n \in DOMAIN inbox : inbox[n].part \in 1..3
  <2>1. \A x \in Arrivals(Len(series)) : x.part \in 1..3
    BY DEF Arrivals
  <2> QED BY <1>3, <2>1, ItemTyped
<1>5. CASE PostAccepted
  <2>1. /\ payloads # <<>> /\ inbox' = Append(inbox, Arriving(Head(payloads)))
        /\ part' = part /\ series' = series
    BY <1>5 DEF PostAccepted
  <2>2. Head(payloads) \in Slices(Len(series))
    BY <2>1, FirstOf DEF SplitType
  <2>3. PICK x \in Arrivals(Len(series)) : x = Arriving(Head(payloads))
    BY <2>2, ArrivingTyped
  <2>4. /\ x.part = part
        /\ \A i \in DOMAIN x.metrics :
              x.metrics[i] # series[i].text => \E j \in DOMAIN x.metrics : series[j].text = "undecodable"
    BY <2>2, <2>3, ArrivingTyped
  <2>5. /\ Len(inbox) \in Nat /\ DOMAIN inbox = 1..Len(inbox) /\ DOMAIN inbox' = 1..(Len(inbox) + 1)
        /\ \A n \in 1..Len(inbox) : inbox'[n] = inbox[n]
        /\ inbox'[Len(inbox) + 1] = x
    BY <1>3, <2>1, <2>3, Appended
  <2>6. ASSUME NEW n \in DOMAIN inbox'
        PROVE  \/ n \in DOMAIN inbox /\ inbox'[n] = inbox[n]
               \/ n = Len(inbox) + 1 /\ inbox'[n] = x
    BY <2>5
  <2>7. \A n \in DOMAIN inbox' : inbox'[n].part <= part'
    BY <1>1, <1>3, <2>1, <2>4, <2>6
  <2>8. ASSUME NEW n \in DOMAIN inbox', NEW m \in DOMAIN inbox', n < m
        PROVE  inbox'[n].part <= inbox'[m].part
    <3>1. n \in DOMAIN inbox /\ inbox'[n] = inbox[n]
      BY <2>5, <2>8
    <3>2. CASE m \in DOMAIN inbox /\ inbox'[m] = inbox[m]
      BY <1>1, <2>8, <3>1, <3>2
    <3>3. CASE inbox'[m] = x
      BY <1>1, <2>4, <3>1, <3>3
    <3> QED BY <2>6, <3>2, <3>3
  <2>9. ASSUME NEW n \in DOMAIN inbox', inbox'[n].part = 2, NEW i \in DOMAIN inbox'[n].metrics,
               inbox'[n].metrics[i] # series'[i].text
        PROVE  \E j \in DOMAIN inbox'[n].metrics : series'[j].text = "undecodable"
    <3>1. CASE n \in DOMAIN inbox /\ inbox'[n] = inbox[n]
      BY <1>1, <2>1, <2>9, <3>1, Zenon
    <3>2. CASE inbox'[n] = x
      BY <2>1, <2>4, <2>9, <3>2, Zenon
    <3> QED BY <2>6, <3>1, <3>2
  <2> QED BY <2>7, <2>8, <2>9
<1>6. CASE inbox' = inbox /\ series' = series /\ part' \in Int /\ part <= part'
  <2>1. \A n \in DOMAIN inbox : inbox[n].part <= part'
    BY <1>1, <1>3, <1>4, <1>6
  <2> QED BY <1>1, <1>6, <2>1, Zenon
<1>7. ASSUME NextPart PROVE part' \in Int /\ part <= part'
  BY <1>3, <1>7, NextPartIs
<1>8. ASSUME ~PostAccepted PROVE inbox' = inbox /\ series' = series /\ part' \in Int /\ part <= part'
  BY <1>3, <1>7, <1>8
     DEF SplitNext, splitVars, SerializeWhole, CannotSerialize, SmallEnough, DropSlice, SplitSlice,
         SplitDone, PartPosted, PostFails
<1> QED BY <1>5, <1>6, <1>8

LEMMA DroppedTooLargeKept ==
  ASSUME SplitType, DroppedTooLarge, [SplitNext]_splitVars
  PROVE  DroppedTooLarge'
<1>1. \A s \in given.dropped : Zipped(series, s.from, s.to) >= MaxCompressedSize
  BY DEF DroppedTooLarge, ZippedSize
<1>2. SUFFICES \A s \in given'.dropped : Zipped(series', s.from, s.to) >= MaxCompressedSize
  BY DEF DroppedTooLarge, ZippedSize
<1>3. CASE DropSlice
  <2>1. series' = series /\ given'.dropped = given.dropped \union {Head(toSerialize)}
    BY <1>3 DEF DropSlice, SplitType
  <2>2. Zipped(series, Head(toSerialize).from, Head(toSerialize).to) >= MaxCompressedSize
    BY <1>3 DEF DropSlice, TooLarge, ZippedSize
  <2> QED BY <1>1, <2>1, <2>2
<1>4. CASE series' = series /\ given'.dropped = given.dropped
  BY <1>1, <1>4
<1>5. ASSUME ~DropSlice PROVE series' = series /\ given'.dropped = given.dropped
  <2>1. CASE CannotSerialize
    BY <2>1 DEF CannotSerialize, SplitType
  <2> QED BY <1>5, <2>1
     DEF SplitNext, splitVars, SerializeWhole, SmallEnough, PostAccepted, SplitSlice,
         SplitDone, PartPosted, PostFails
<1> QED BY <1>3, <1>4, <1>5

\* The metrics of an earlier part stay where they are, or were left out.
PartsBefore ==
  part = 3 => \A i \in DOMAIN series : \/ \E n \in Nat : MetricAt(3, n, i)
                                       \/ MetricAt(4, 0, i)
                                       \/ "metrics" \in given.skipped
InPart ==
  part = 2 /\ emitPc \in {"serialize", "post"} =>
     \A i \in DOMAIN series : \E k \in 1..4, n \in Nat : MetricAt(k, n, i)

LEMMA SomePlaceIs ==
  ASSUME SplitType
  PROVE  SomePlace <=> InPart /\ PartsBefore
<1>1. DOMAIN inbox \subseteq Nat
  BY DEF SplitType
<1>2. \A i : PostsOf(i) \subseteq Nat
  BY <1>1 DEF PostsOf, Posts
<1>3. \A i : PostsOf(i) # {} <=> \E n \in Nat : MetricAt(3, n, i)
  BY <1>2, PlacesAre, Zenon
<1>4. \A i : i \in DroppedMetrics <=> MetricAt(4, 0, i)
  BY PlacesAre, Zenon
<1>5. SomePlace <=> InPart /\ (part = 3 =>
          \A i \in DOMAIN series : PostsOf(i) # {} \/ i \in DroppedMetrics \/ "metrics" \in given.skipped)
  BY Zenon DEF SomePlace, InPart
<1> QED BY <1>3, <1>4, <1>5, Zenon DEF PartsBefore

LEMMA SomePlaceKept ==
  ASSUME SplitType, SplitType', InHand, SomePlace, [SplitNext]_splitVars
  PROVE  SomePlace'
<1>1. /\ part = 2 /\ emitPc \in {"serialize", "post"} =>
            \A i \in DOMAIN series : \E k \in 1..4, n \in Nat : MetricAt(k, n, i)
      /\ part = 3 =>
            \A i \in DOMAIN series : \/ \E n \in Nat : MetricAt(3, n, i)
                                     \/ MetricAt(4, 0, i)
                                     \/ "metrics" \in given.skipped
  BY SomePlaceIs DEF InPart, PartsBefore
<1>2. SomePlace' <=> InPart' /\ PartsBefore'
  BY SomePlaceIs, PTL
<1>3. SUFFICES
      /\ part' = 2 /\ emitPc' \in {"serialize", "post"} =>
            \A i \in DOMAIN series' : \E k \in 1..4, n \in Nat : MetricAt(k, n, i)'
      /\ part' = 3 =>
            \A i \in DOMAIN series' : \/ \E n \in Nat : MetricAt(3, n, i)'
                                      \/ MetricAt(4, 0, i)'
                                      \/ "metrics" \in given'.skipped
  BY <1>2 DEF InPart, PartsBefore
<1>4. part \in 1..3
  BY DEF SplitType
<1>5. CASE SerializeWhole
  BY <1>1, <1>5, WholeMoves DEF SerializeWhole
<1>6. CASE CannotSerialize \/ PartPosted
  <2>1. /\ payloads = <<>> /\ payloads' = <<>> /\ inbox' = inbox /\ given'.dropped = given.dropped
        /\ given.skipped \subseteq given'.skipped /\ NextPart /\ series' = series
    BY <1>6 DEF CannotSerialize, PartPosted, SplitType
  <2>2. /\ part = 3 => part' = 3
        /\ part = 2 => part' = 3
        /\ part = 1 => part' = 2
    BY <2>1, NextPartIs
  <2>3. CASE part = 1
    <3>1. \A i \in DOMAIN series : MetricAt(1, 1, i)'
      BY <2>1, <2>3, PartMoves
    <3> QED BY <2>1, <2>2, <2>3, <3>1
  <2>4. CASE part = 2 /\ CannotSerialize
    <3>1. "metrics" \in given'.skipped
      BY <2>4 DEF CannotSerialize, Parts3, SplitType
    <3> QED BY <2>2, <2>4, <3>1
  <2>5. CASE part = 2 /\ PartPosted
    <3>1. emitPc = "post" /\ toSerialize = <<>>
      BY <2>5 DEF PartPosted, InHand
    <3>2. \A i, n : ~MetricAt(1, n, i) /\ ~MetricAt(2, n, i)
      <4>1. DOMAIN toSerialize = {} /\ DOMAIN payloads = {}
        BY <2>1, <3>1
      <4> QED BY <4>1, PlacesAre, Zenon
    <3>3. \A i, n : MetricAt(4, n, i) => n = 0
      BY PlacesAre, Zenon
    <3>4. ASSUME NEW i \in DOMAIN series
          PROVE  (\E n \in Nat : MetricAt(3, n, i)) \/ MetricAt(4, 0, i)
      <4>1. PICK k \in 1..4, n \in Nat : MetricAt(k, n, i)
        BY <1>1, <2>5, <3>1
      <4>2. k \in {1, 2, 3, 4}
        OBVIOUS
      <4> QED BY <3>2, <3>3, <4>1, <4>2
    <3>5. \A i \in DOMAIN series : (\E n \in Nat : MetricAt(3, n, i)') \/ MetricAt(4, 0, i)'
      BY <2>1, <3>4, PartMoves, Zenon
    <3> QED BY <2>1, <2>2, <2>5, <3>5
  <2>6. CASE part = 3
    <3>1. ASSUME NEW i \in DOMAIN series
          PROVE  \/ \E n \in Nat : MetricAt(3, n, i)'
                 \/ MetricAt(4, 0, i)'
                 \/ "metrics" \in given'.skipped
      BY <1>1, <2>1, <2>6, PartMoves
    <3> QED BY <2>1, <2>2, <2>6, <3>1
  <2> QED BY <1>4, <1>6, <2>3, <2>4, <2>5, <2>6
<1>7. CASE SmallEnough
  <2>1. part = 2 /\ emitPc = "serialize" /\ part' = 2 /\ series' = series
    BY <1>7 DEF SmallEnough
  <2>2. ASSUME NEW i \in DOMAIN series
        PROVE  \E k \in 1..4, n \in Nat : MetricAt(k, n, i)'
    <3>1. PICK k \in 1..4, n \in Nat : MetricAt(k, n, i)
      BY <1>1, <2>1
    <3>2. CASE k = 1 /\ n = 1
      <4>1. PICK t \in Nat : t = Len(payloads) + 1
        BY <1>7, SmallEnoughMoves
      <4>2. MetricAt(2, t, i)'
        BY <1>7, <3>1, <3>2, <4>1, SmallEnoughMoves
      <4> QED BY <4>2
    <3>3. CASE k = 1 /\ n # 1
      <4>1. n # 0
        BY <1>7, <3>1, <3>3, SmallEnoughMoves
      <4>2. n - 1 \in Nat /\ n - 1 # 0 /\ (n - 1) + 1 = n
        BY <3>3, <4>1
      <4>3. MetricAt(1, n - 1, i)'
        BY <1>7, <3>1, <3>3, <4>2, SmallEnoughMoves
      <4> QED BY <4>2, <4>3
    <3>4. CASE k \in {2, 3, 4}
      BY <1>7, <3>1, <3>4, SmallEnoughMoves
    <3> QED BY <3>2, <3>3, <3>4
  <2> QED BY <2>1, <2>2
<1>8. CASE DropSlice
  <2>1. part = 2 /\ emitPc = "serialize" /\ part' = 2 /\ series' = series
    BY <1>8 DEF DropSlice, TooLarge
  <2>2. ASSUME NEW i \in DOMAIN series
        PROVE  \E k \in 1..4, n \in Nat : MetricAt(k, n, i)'
    <3>1. PICK k \in 1..4, n \in Nat : MetricAt(k, n, i)
      BY <1>1, <2>1
    <3>2. CASE k = 1 /\ n = 1
      <4>1. MetricAt(4, 0, i)'
        BY <1>8, <3>1, <3>2, DropSliceMoves
      <4> QED BY <4>1
    <3>3. CASE k = 1 /\ n # 1
      <4>1. n # 0
        BY <1>8, <3>1, <3>3, DropSliceMoves
      <4>2. n - 1 \in Nat /\ n - 1 # 0 /\ (n - 1) + 1 = n
        BY <3>3, <4>1
      <4>3. MetricAt(1, n - 1, i)'
        BY <1>8, <3>1, <3>3, <4>2, DropSliceMoves
      <4> QED BY <4>2, <4>3
    <3>4. CASE k \in {2, 3, 4}
      BY <1>8, <3>1, <3>4, DropSliceMoves
    <3> QED BY <3>2, <3>3, <3>4
  <2> QED BY <2>1, <2>2
<1>9. CASE SplitSlice
  <2>1. part = 2 /\ emitPc = "serialize" /\ part' = 2 /\ series' = series
    BY <1>9 DEF SplitSlice, TooLarge
  <2>2. ASSUME NEW i \in DOMAIN series
        PROVE  \E k \in 1..4, n \in Nat : MetricAt(k, n, i)'
    <3>1. PICK k \in 1..4, n \in Nat : MetricAt(k, n, i)
      BY <1>1, <2>1
    <3>2. PICK t \in Nat \ {0} :
            /\ MetricAt(1, 1, i) => \E a \in 1..t : MetricAt(1, a, i)'
            /\ \A a \in Nat \ {0} : MetricAt(1, t + a, i)' <=> MetricAt(1, a + 1, i)
            /\ \A a \in Nat : MetricAt(1, a, i) => a # 0
            /\ \A a \in Nat : MetricAt(2, a, i)' <=> MetricAt(2, a, i)
            /\ \A a \in Nat : MetricAt(3, a, i)' <=> MetricAt(3, a, i)
            /\ \A a \in Nat : MetricAt(4, a, i)' <=> MetricAt(4, a, i)
      BY <1>9, SplitSliceMoves, Zenon
    <3>3. CASE k = 1 /\ n = 1
      BY <3>1, <3>2, <3>3
    <3>4. CASE k = 1 /\ n # 1
      <4>1. n - 1 \in Nat \ {0} /\ (n - 1) + 1 = n /\ t + (n - 1) \in Nat
        BY <3>1, <3>2, <3>4
      <4>2. MetricAt(1, t + (n - 1), i)'
        BY <3>1, <3>2, <3>4, <4>1
      <4> QED BY <4>1, <4>2
    <3>5. CASE k \in {2, 3, 4}
      BY <3>1, <3>2, <3>5
    <3> QED BY <3>3, <3>4, <3>5
  <2> QED BY <2>1, <2>2
<1>10. CASE PostAccepted
  <2>1. emitPc = "post" /\ emitPc' = "post" /\ part' = part /\ series' = series /\ given' = given
    BY <1>10 DEF PostAccepted
  <2>2. ASSUME NEW i \in DOMAIN series, part = 2
        PROVE  \E k \in 1..4, n \in Nat : MetricAt(k, n, i)'
    <3>1. PICK k \in 1..4, n \in Nat : MetricAt(k, n, i)
      BY <1>1, <2>1, <2>2
    <3>2. CASE k = 2 /\ n = 1
      <4>1. PICK t \in Nat : t = Len(inbox) + 1
        BY <1>10, AcceptedMoves
      <4>2. MetricAt(3, t, i)'
        BY <1>10, <3>1, <3>2, <4>1, AcceptedMoves
      <4> QED BY <4>2
    <3>3. CASE k = 2 /\ n # 1
      <4>1. n # 0
        BY <1>10, <3>1, <3>3, AcceptedMoves
      <4>2. n - 1 \in Nat /\ n - 1 # 0 /\ (n - 1) + 1 = n
        BY <3>3, <4>1
      <4>3. MetricAt(2, n - 1, i)'
        BY <1>10, <3>1, <3>3, <4>2, AcceptedMoves
      <4> QED BY <4>2, <4>3
    <3>4. CASE k \in {1, 3, 4}
      BY <1>10, <3>1, <3>4, AcceptedMoves
    <3> QED BY <3>2, <3>3, <3>4
  <2>3. ASSUME NEW i \in DOMAIN series, part = 3
        PROVE  \/ \E n \in Nat : MetricAt(3, n, i)'
               \/ MetricAt(4, 0, i)'
               \/ "metrics" \in given'.skipped
    BY <1>1, <1>10, <2>1, <2>3, AcceptedMoves
  <2> QED BY <2>1, <2>2, <2>3
<1>11. CASE /\ UNCHANGED <<series, toSerialize, payloads, inbox, given, part>>
            /\ emitPc' \in {"serialize", "post"} => emitPc \in {"serialize", "post"}
  <2>1. \A k, n, i : MetricAt(k, n, i)' <=> MetricAt(k, n, i)
    BY <1>11 DEF MetricAt, PostsOf, Posts, DroppedMetrics
  <2> QED BY <1>1, <1>11, <2>1
<1>12. ASSUME SplitDone \/ PostFails \/ UNCHANGED splitVars
       PROVE  /\ UNCHANGED <<series, toSerialize, payloads, inbox, given, part>>
              /\ emitPc' \in {"serialize", "post"} => emitPc \in {"serialize", "post"}
  BY <1>12 DEF SplitDone, PostFails, splitVars
<1> QED BY <1>5, <1>6, <1>7, <1>8, <1>9, <1>10, <1>11, <1>12 DEF SplitNext

LEMMA SplitInvHolds == SplitInit => SplitInv
<1> SUFFICES ASSUME SplitInit PROVE SplitInv
  OBVIOUS
<1>1. SplitType
  BY SplitTypeHolds
<1>2. /\ part = 1 /\ emitPc = "serialize" /\ toSerialize = <<Whole>> /\ payloads = <<>> /\ inbox = <<>>
      /\ given.dropped = {}
  BY DEF SplitInit
<1>3. InHand
  <2>1. \A k \in DOMAIN toSerialize : toSerialize[k] = Whole
    BY <1>2
  <2>2. \A k \in DOMAIN toSerialize : Metrics(toSerialize[k]) = {}
    BY <1>1, <2>1, SeriesTyped
  <2> QED BY <1>2, <2>2 DEF InHand
<1>4. OnePlace /\ SomePlace
  <2>1. \A k \in DOMAIN toSerialize : Metrics(toSerialize[k]) = {}
    BY <1>2, <1>3 DEF InHand
  <2>2. \A i : PostsOf(i) = {}
    BY <1>2 DEF PostsOf, Posts
  <2>3. DroppedMetrics = {}
    BY <1>2 DEF DroppedMetrics
  <2>4. \A k \in 1..4 : \A n, i : ~MetricAt(k, n, i)
    BY <1>2, <2>1, <2>2, <2>3 DEF MetricAt
  <2> QED BY SMTT(30), <1>2, <2>4 DEF OnePlace, SomePlace
<1>5. Posted /\ DroppedTooLarge
  BY <1>2 DEF Posted, Posts, DroppedTooLarge
<1> QED BY <1>1, <1>3, <1>4, <1>5 DEF SplitInv

LEMMA SplitInvKept == SplitInv /\ [SplitNext]_splitVars => SplitInv'
  BY SplitTypeKept, InHandKept, OnePlaceKept, SomePlaceKept, PostedKept, DroppedTooLargeKept DEF SplitInv

LEMMA SplitInvImplies == SplitInv => MetricsAccounted
<1> SUFFICES ASSUME SplitInv PROVE MetricsAccounted
  OBVIOUS
<1>1. SplitType /\ InHand /\ OnePlace /\ SomePlace /\ Posted /\ DroppedTooLarge
  BY DEF SplitInv
<1>2. \A i : PostsOf(i) \subseteq Nat
  BY <1>1 DEF SplitType, PostsOf, Posts
<1>3. ASSUME NEW i \in DOMAIN series
      PROVE  /\ \A n, m \in PostsOf(i) : n = m
             /\ PostsOf(i) # {} => i \notin DroppedMetrics
             /\ emitPc = "sent" => \/ PostsOf(i) # {} \/ i \in DroppedMetrics
                                   \/ "metrics" \in given.skipped
             /\ \A n \in PostsOf(i) :
                   inbox[n].metrics[i] # series[i].text
                      => \E j \in DOMAIN inbox[n].metrics : series[j].text = "undecodable"
  <2>1. \A k, l \in 1..4 : \A n, m \in Nat : MetricAt(k, n, i) /\ MetricAt(l, m, i) => k = l /\ n = m
    BY <1>1 DEF OnePlace
  <2>2. \A n, m \in PostsOf(i) : n = m
    <3>1. \A n \in PostsOf(i) : n \in Nat /\ MetricAt(3, n, i)
      BY <1>2, PlacesAre, Zenon
    <3>2. \A n, m \in Nat : MetricAt(3, n, i) /\ MetricAt(3, m, i) => n = m
      BY <2>1
    <3> QED BY <3>1, <3>2
  <2>3. PostsOf(i) # {} => i \notin DroppedMetrics
    <3>1. \A n \in PostsOf(i) : n \in Nat /\ MetricAt(3, n, i)
      BY <1>2, PlacesAre, Zenon
    <3>2. i \in DroppedMetrics => MetricAt(4, 0, i)
      BY PlacesAre, Zenon
    <3>3. \A n \in Nat : ~(MetricAt(3, n, i) /\ MetricAt(4, 0, i))
      BY <2>1
    <3> QED BY <3>1, <3>2, <3>3
  <2>4. emitPc = "sent" => \/ PostsOf(i) # {} \/ i \in DroppedMetrics
                           \/ "metrics" \in given.skipped
    BY <1>1 DEF InHand, SomePlace
  <2>5. \A n \in PostsOf(i) :
           inbox[n].metrics[i] # series[i].text
              => \E j \in DOMAIN inbox[n].metrics : series[j].text = "undecodable"
    BY <1>1, Zenon DEF Posted, PostsOf
  <2> QED BY <2>2, <2>3, <2>4, <2>5
<1>4. /\ \A s \in given.dropped : ZippedSize(s) >= MaxCompressedSize
      /\ \A n, m \in DOMAIN inbox : n < m => inbox[n].part <= inbox[m].part
  BY <1>1 DEF DroppedTooLarge, Posted
<1> QED BY <1>3, <1>4, Zenon DEF MetricsAccounted

\* However the metrics of a payload compress, each is in at most one post and not dropped
\* as well, none is lost while the emitter returns without an error, the posts are in the
\* order of the parts, and a text is changed only in a post with one that cannot be decoded
\* (serialize_and_compress_metrics_payload, post_payload, http_emitter).
THEOREM MetricsCorrect == SplitSpec => []MetricsAccounted
<1>1. SplitInit => SplitInv
  BY SplitInvHolds
<1>2. SplitInv /\ [SplitNext]_splitVars => SplitInv'
  BY SplitInvKept
<1>3. SplitInv => MetricsAccounted
  BY SplitInvImplies
<1> QED BY <1>1, <1>2, <1>3, PTL DEF SplitSpec

-----------------------------------------------------------------------------
(* Sums over finite sets *)

AnyOf(S) == CHOOSE x \in S : TRUE

\* g sums f over each subset of S, as FoldFunctionOnSet() does.
Sums(f, S, g) ==
    g = [s \in SUBSET S |-> IF s = {} THEN 0 ELSE f[AnyOf(s)] + g[s \ {AnyOf(s)}]]

SumOf(f, S) == (CHOOSE g : Sums(f, S, g))[S]

\* The sum that a fold takes of a function, here and in Rollup.
LEMMA FoldIsSum ==
    ASSUME NEW f, NEW S
    PROVE  /\ FoldFunctionOnSet(+, 0, f, S) = SumOf(f, S)
           /\ R!FoldFunctionOnSet(+, 0, f, S) = SumOf(f, S)
  BY DEF FoldFunctionOnSet, MapThenFoldSet, R!FoldFunctionOnSet, R!MapThenFoldSet, SumOf, Sums, AnyOf

\* Induction over the subsets of a finite set: if some are bad, one of them has no
\* bad subset but itself.
LEMMA MinimalSet ==
    ASSUME NEW S, IsFiniteSet(S), NEW Bad \in SUBSET (SUBSET S), Bad # {}
    PROVE  \E s \in Bad : \A u \in SUBSET s : u # s => u \notin Bad
<1>1. IsWellFoundedOn(StrictSubsetOrdering(S), FiniteSubsetsOf(S))
  BY FS_StrictSubsetOrderingWellFounded
<1>2. FiniteSubsetsOf(S) = SUBSET S
  BY FS_FiniteSubsetsOfFinite
<1>3. PICK s \in Bad : \A u \in Bad : ~(<<u, s>> \in StrictSubsetOrdering(S))
  BY <1>1, <1>2, WFMin
<1>4. ASSUME NEW u \in SUBSET s, u # s PROVE u \notin Bad
  BY <1>3, <1>4 DEF StrictSubsetOrdering
<1> QED
  BY <1>4

\* Such functions agree where both are defined, and there is one.
LEMMA SumsAgree ==
    ASSUME NEW f, NEW S, NEW r \in SUBSET S, IsFiniteSet(S), NEW g, NEW h, Sums(f, S, g), Sums(f, r, h)
    PROVE  \A u \in SUBSET r : g[u] = h[u]
<1> DEFINE Bad == {u \in SUBSET r : g[u] # h[u]}
<1>1. SUFFICES ASSUME Bad # {} PROVE FALSE
  OBVIOUS
<1>2. IsFiniteSet(r)
  BY FS_Subset
<1>0. Bad \in SUBSET (SUBSET r)
  OBVIOUS
<1> HIDE DEF Bad
<1>3. PICK u \in Bad : \A v \in SUBSET u : v # u => v \notin Bad
  BY <1>0, <1>1, <1>2, MinimalSet
<1> USE DEF Bad
<1>4. /\ g[u] = IF u = {} THEN 0 ELSE f[AnyOf(u)] + g[u \ {AnyOf(u)}]
      /\ h[u] = IF u = {} THEN 0 ELSE f[AnyOf(u)] + h[u \ {AnyOf(u)}]
  BY DEF Sums
<1>5. u # {}
  BY <1>4
<1>6. AnyOf(u) \in u
  BY <1>5 DEF AnyOf
<1>7. u \ {AnyOf(u)} \in SUBSET u /\ u \ {AnyOf(u)} # u
  BY <1>6
<1>8. g[u \ {AnyOf(u)}] = h[u \ {AnyOf(u)}]
  BY <1>3, <1>7
<1> QED
  BY <1>4, <1>8

LEMMA SumsExist ==
    ASSUME NEW f, NEW S, IsFiniteSet(S)
    PROVE  \E g : Sums(f, S, g)
<1> DEFINE Bad == {s \in SUBSET S : ~\E g : Sums(f, s, g)}
<1>1. SUFFICES ASSUME Bad # {} PROVE FALSE
  OBVIOUS
<1>2. Bad \in SUBSET (SUBSET S)
  OBVIOUS
<1> HIDE DEF Bad
<1>3. PICK s \in Bad : \A v \in SUBSET s : v # s => v \notin Bad
  BY <1>1, <1>2, MinimalSet
<1> USE DEF Bad
<1> DEFINE H(u) == CHOOSE h : Sums(f, u, h)
           Rest(u) == u \ {AnyOf(u)}
           G == [u \in SUBSET s |-> IF u = {} THEN 0 ELSE f[AnyOf(u)] + H(Rest(u))[Rest(u)]]
<1>4. ASSUME NEW u \in SUBSET s, u # s PROVE Sums(f, u, H(u))
  BY <1>3, <1>4
<1>5. ASSUME NEW u \in SUBSET s, u # {} PROVE Rest(u) \in SUBSET s /\ Rest(u) # s /\ Rest(u) \in SUBSET u
  BY <1>5 DEF AnyOf
<1>6. ASSUME NEW w \in SUBSET s, w # s PROVE G[w] = H(w)[w]
  <2>1. H(w)[w] = IF w = {} THEN 0 ELSE f[AnyOf(w)] + H(w)[Rest(w)]
    <3>1. Sums(f, w, H(w))
      BY <1>4, <1>6
    <3> HIDE DEF H
    <3> QED
      BY <3>1 DEF Sums
  <2>2. CASE w = {}
    BY <2>1, <2>2
  <2>3. CASE w # {}
    <3>1. Rest(w) \in SUBSET w /\ Rest(w) \in SUBSET s /\ Rest(w) # s
      BY <1>5, <2>3
    <3>2. Sums(f, w, H(w)) /\ Sums(f, Rest(w), H(Rest(w)))
      BY <1>4, <1>6, <3>1
    <3>3. IsFiniteSet(w)
      BY FS_Subset
    <3> HIDE DEF H, Rest
    <3>4. H(w)[Rest(w)] = H(Rest(w))[Rest(w)]
      BY <3>1, <3>2, <3>3, SumsAgree
    <3> QED
      BY <2>1, <2>3, <3>4
  <2> QED
    BY <2>2, <2>3
<1>7. Sums(f, s, G)
  <2>1. ASSUME NEW u \in SUBSET s, u # {} PROVE G[Rest(u)] = H(Rest(u))[Rest(u)]
    <3>1. Rest(u) \in SUBSET s /\ Rest(u) # s
      BY <1>5, <2>1
    <3> HIDE DEF G, H, Rest
    <3> QED
      BY <1>6, <3>1
  <2> HIDE DEF H
  <2> QED
    BY <2>1 DEF Sums
<1> QED
  BY <1>7

\* So the sum can be taken apart.
LEMMA SumOfRest ==
    ASSUME NEW f, NEW S, IsFiniteSet(S)
    PROVE  SumOf(f, S) = IF S = {} THEN 0 ELSE f[AnyOf(S)] + SumOf(f, S \ {AnyOf(S)})
<1> DEFINE g == CHOOSE h : Sums(f, S, h)
           T == S \ {AnyOf(S)}
           h == CHOOSE k : Sums(f, T, k)
<1>1. IsFiniteSet(T) /\ T \in SUBSET S
  BY FS_Subset
<1>2. Sums(f, S, g)
  BY SumsExist
<1>3. Sums(f, T, h)
  BY <1>1, SumsExist
<1>4. g[T] = h[T]
  <2> HIDE DEF g, h, T
  <2> QED
    BY <1>1, <1>2, <1>3, SumsAgree
<1>5. g[S] = IF S = {} THEN 0 ELSE f[AnyOf(S)] + g[T]
  BY <1>2 DEF Sums
<1> QED
  BY <1>4, <1>5 DEF SumOf

LEMMA SumOfType ==
    ASSUME NEW D, NEW f \in [D -> Nat], NEW S \in SUBSET D, IsFiniteSet(S)
    PROVE  SumOf(f, S) \in Nat
<1> DEFINE Bad == {s \in SUBSET S : SumOf(f, s) \notin Nat}
<1>1. SUFFICES ASSUME Bad # {} PROVE FALSE
  OBVIOUS
<1>2. Bad \in SUBSET (SUBSET S)
  OBVIOUS
<1> HIDE DEF Bad
<1>3. PICK s \in Bad : \A v \in SUBSET s : v # s => v \notin Bad
  BY <1>1, <1>2, MinimalSet
<1> USE DEF Bad
<1> DEFINE x == AnyOf(s)
<1>4. IsFiniteSet(s)
  BY FS_Subset
<1>5. SumOf(f, s) = IF s = {} THEN 0 ELSE f[x] + SumOf(f, s \ {x})
  BY <1>4, SumOfRest
<1>6. s # {}
  BY <1>5
<1>7. x \in s
  BY <1>6 DEF AnyOf
<1> HIDE DEF x
<1>8. SumOf(f, s \ {x}) \in Nat
  BY <1>3, <1>7
<1> QED
  BY <1>5, <1>6, <1>7, <1>8

\* Whichever element is taken first, the sum is the same.
LEMMA SumOfRemove ==
    ASSUME NEW D, NEW f \in [D -> Nat], NEW S \in SUBSET D, IsFiniteSet(S), NEW x \in S
    PROVE  SumOf(f, S) = f[x] + SumOf(f, S \ {x})
<1> DEFINE Bad == {s \in SUBSET S : \E z \in s : SumOf(f, s) # f[z] + SumOf(f, s \ {z})}
<1>1. SUFFICES ASSUME Bad # {} PROVE FALSE
  OBVIOUS
<1>2. Bad \in SUBSET (SUBSET S)
  OBVIOUS
<1> HIDE DEF Bad
<1>3. PICK s \in Bad : \A v \in SUBSET s : v # s => v \notin Bad
  BY <1>1, <1>2, MinimalSet
<1>4. PICK z \in s : SumOf(f, s) # f[z] + SumOf(f, s \ {z})
  BY DEF Bad
<1> DEFINE y == AnyOf(s)
<1>5. s \in SUBSET S /\ y \in s
  BY DEF AnyOf, Bad
<1> HIDE DEF y
<1>6. /\ IsFiniteSet(s) /\ IsFiniteSet(s \ {y}) /\ IsFiniteSet(s \ {z})
      /\ IsFiniteSet((s \ {y}) \ {z})
  BY <1>5, FS_Subset
<1>7. SumOf(f, s) = f[y] + SumOf(f, s \ {y})
  BY <1>5, <1>6, SumOfRest DEF y
<1>8. y # z
  BY <1>4, <1>7
<1>9. s \ {y} \notin Bad /\ s \ {z} \notin Bad
  BY <1>3, <1>5
<1>10. SumOf(f, s \ {y}) = f[z] + SumOf(f, (s \ {y}) \ {z})
  BY <1>5, <1>8, <1>9 DEF Bad
<1>11. SumOf(f, s \ {z}) = f[y] + SumOf(f, (s \ {z}) \ {y})
  BY <1>5, <1>8, <1>9 DEF Bad
<1>12. (s \ {z}) \ {y} = (s \ {y}) \ {z}
  OBVIOUS
<1>13. SumOf(f, (s \ {y}) \ {z}) \in Nat /\ f[y] \in Nat /\ f[z] \in Nat
  BY <1>5, <1>6, SumOfType
<1>14. \A a, b, c \in Nat : a + (b + c) = b + (a + c)
  OBVIOUS
<1>15. f[y] + (f[z] + SumOf(f, (s \ {y}) \ {z})) = f[z] + (f[y] + SumOf(f, (s \ {y}) \ {z}))
  BY <1>13, <1>14
<1> QED
  BY <1>4, <1>7, <1>10, <1>11, <1>12, <1>15

LEMMA SumOfSame ==
    ASSUME NEW f, NEW g, NEW S, IsFiniteSet(S), \A x \in S : f[x] = g[x]
    PROVE  SumOf(f, S) = SumOf(g, S)
<1> DEFINE Bad == {s \in SUBSET S : SumOf(f, s) # SumOf(g, s)}
<1>1. SUFFICES ASSUME Bad # {} PROVE FALSE
  OBVIOUS
<1>2. Bad \in SUBSET (SUBSET S)
  OBVIOUS
<1> HIDE DEF Bad
<1>3. PICK s \in Bad : \A v \in SUBSET s : v # s => v \notin Bad
  BY <1>1, <1>2, MinimalSet
<1> USE DEF Bad
<1>4. IsFiniteSet(s)
  BY FS_Subset
<1> DEFINE x == AnyOf(s)
<1>5. /\ SumOf(f, s) = IF s = {} THEN 0 ELSE f[x] + SumOf(f, s \ {x})
      /\ SumOf(g, s) = IF s = {} THEN 0 ELSE g[x] + SumOf(g, s \ {x})
  BY <1>4, SumOfRest
<1>6. s # {}
  BY <1>5
<1>7. x \in s
  BY <1>6 DEF AnyOf
<1> HIDE DEF x
<1>8. SumOf(f, s \ {x}) = SumOf(g, s \ {x})
  BY <1>3, <1>7
<1> QED
  BY <1>5, <1>6, <1>7, <1>8

LEMMA SumOfNone ==
    ASSUME NEW f PROVE SumOf(f, {}) = 0
  BY FS_EmptySet, SumOfRest

LEMMA SumOfAdd ==
    ASSUME NEW D, NEW f \in [D -> Nat], NEW S \in SUBSET D, IsFiniteSet(S), NEW x \in D, x \notin S
    PROVE  SumOf(f, S \cup {x}) = SumOf(f, S) + f[x]
<1>1. IsFiniteSet(S \cup {x}) /\ S \cup {x} \in SUBSET D
  BY FS_AddElement
<1>2. SumOf(f, S \cup {x}) = f[x] + SumOf(f, (S \cup {x}) \ {x})
  BY <1>1, SumOfRemove
<1>3. (S \cup {x}) \ {x} = S
  OBVIOUS
<1>4. SumOf(f, S) \in Nat /\ f[x] \in Nat
  BY SumOfType
<1>5. \A a, b \in Nat : a + b = b + a
  OBVIOUS
<1>6. f[x] + SumOf(f, S) = SumOf(f, S) + f[x]
  BY <1>4, <1>5
<1> QED
  BY <1>2, <1>3, <1>6

\* The sum of a function that is extended with one value.
LEMMA SumOfGrown ==
    ASSUME NEW D, NEW E, D \subseteq E, NEW f \in [D -> Nat], NEW g \in [E -> Nat],
           NEW S \in SUBSET D, IsFiniteSet(S), NEW x \in E, x \notin S,
           \A y \in D : g[y] = f[y]
    PROVE  SumOf(g, S \cup {x}) = SumOf(f, S) + g[x]
<1>1. S \in SUBSET E /\ \A y \in S : g[y] = f[y]
  OBVIOUS
<1>2. SumOf(g, S \cup {x}) = SumOf(g, S) + g[x]
  BY <1>1, SumOfAdd
<1>3. SumOf(g, S) = SumOf(f, S)
  BY <1>1, SumOfSame
<1> QED
  BY <1>2, <1>3

LEMMA SumOfAppend ==
    ASSUME NEW old, old \in Seq(Nat), NEW new, new \in Seq(Nat),
           Len(new) = Len(old) + 1, \A i \in 1..Len(old) : new[i] = old[i]
    PROVE  SumOf(new, 1..(Len(old) + 1)) = SumOf(old, 1..Len(old)) + new[Len(old) + 1]
<1> DEFINE n == Len(old)
           D == 1..n
           E == 1..(n + 1)
           x == n + 1
<1>1. old \in [D -> Nat] /\ new \in [E -> Nat]
  OBVIOUS
<1>2. D \subseteq E /\ x \in E /\ x \notin D /\ \A y \in D : new[y] = old[y]
  OBVIOUS
<1>3. IsFiniteSet(D)
  BY FS_Interval
<1>4. E = D \cup {x}
  OBVIOUS
<1> HIDE DEF D, E, x, n
<1>5. PICK S : S = D
  OBVIOUS
<1>6. /\ D \subseteq E /\ x \in E /\ x \notin S /\ S \in SUBSET D
      /\ old \in [D -> Nat] /\ new \in [E -> Nat]
      /\ \A y \in D : new[y] = old[y]
      /\ IsFiniteSet(S)
  BY <1>1, <1>2, <1>3, <1>5
<1>7. SumOf(new, S \cup {x}) = SumOf(old, S) + new[x]
  BY ONLY <1>6, SumOfGrown
<1> QED
  BY <1>4, <1>5, <1>7 DEF D, E, x, n

-----------------------------------------------------------------------------
(* The summary that a metric keeps of its samples *)

Sample == [value: Nat, time: Nat]
Known == Nat \cup {NoValue}
MetricState == [exists: BOOLEAN, value: Known, prev: Known, curr: Known,
           list: Seq(Nat) \cup Seq(Sample), last: Known]

Size == Len(samples)
LastSeen(m) == IF m.curr = NoValue THEN m.prev ELSE m.curr

\* Raw metrics and histograms have the fresh samples, in their order.
ListKept(m) ==
    /\ m.list \in Seq(Nat) /\ Len(m.list) = fresh
    /\ \A i \in 1..fresh : m.list[i] = R!Values[Size - fresh + i]
    /\ SumOf(m.list, 1..fresh) = SumOf(R!Values, R!Fresh)
LastKeptIn(m) == m.value = IF fresh = 0 THEN NoValue ELSE R!Values[Size]
CountKept(m) == m.value = IF fresh = 0 THEN NoValue ELSE SumOf(R!Values, R!Fresh)
IncrementsKept(m) == m.value = SumOf(R!Values, R!Fresh)
GrowthKept(m) ==
    /\ LastSeen(m) = IF Size = 0 THEN NoValue ELSE R!Values[Size]
    /\ m.value = IF R!Fresh \ {1} = {} THEN NoValue ELSE SumOf(R!Growth, R!Fresh)
    /\ m.value # NoValue => m.curr # NoValue
SetKept(m) ==
    /\ m.list \in Seq(Nat) /\ ToSet(m.list) = {R!Values[i] : i \in R!Fresh}
    /\ Len(m.list) = Cardinality({R!Values[i] : i \in R!Fresh})
\* A rate has the fresh samples and the one before them.
PairKept(m) ==
    /\ m.list \in Seq(Sample) /\ Len(m.list) = fresh + (IF fresh < Size THEN 1 ELSE 0)
    /\ \A i \in 1..Len(m.list) : m.list[i] = samples[Size - Len(m.list) + i]

Summary(m) ==
    /\ kind \in {"Raw", "Histogram"} => ListKept(m)
    /\ kind = "Gauge" => LastKeptIn(m)
    /\ kind = "Count" => CountKept(m)
    /\ kind = "Counter" => IncrementsKept(m)
    /\ kind = "MonotonicCount" => GrowthKept(m)
    /\ kind = "Set" => SetKept(m)
    /\ kind = "Rate" => PairKept(m)

SamplesTyped ==
    /\ clock \in Nat /\ kind \in Kinds /\ samples \in Seq(Sample) /\ fresh \in 0..Size

RollInv ==
    /\ SamplesTyped /\ metric \in MetricState
    /\ metric.last = IF samples = <<>> THEN NoValue ELSE samples[Size].time
    /\ ~metric.exists => metric = NoMetric /\ samples = <<>>
    /\ metric.exists => Summary(metric)

SubmittedTyped ==
    /\ Size \in Nat /\ R!Values \in [1..Size -> Nat] /\ R!Growth \in [1..Size -> Nat]
    /\ \A i \in 1..Size : samples[i] \in Sample /\ R!Values[i] = samples[i].value
    /\ R!Fresh = (Size - fresh + 1)..Size /\ R!Fresh \in SUBSET (1..Size)
    /\ IsFiniteSet(R!Fresh) /\ (fresh = 0 <=> R!Fresh = {})
    /\ Len(R!Values) = Size /\ fresh \in 0..Size

LEMMA ValuesAre == SamplesTyped => SubmittedTyped
<1> SUFFICES ASSUME SamplesTyped PROVE SubmittedTyped
  OBVIOUS
<1>1. Size \in Nat /\ DOMAIN samples = 1..Size /\ \A i \in 1..Size : samples[i] \in Sample
  BY DEF SamplesTyped, Size
<1>2. R!Values \in [1..Size -> Nat] /\ \A i \in 1..Size : R!Values[i] = samples[i].value
  BY <1>1 DEF R!Values, Sample
<1>3. R!Growth \in [1..Size -> Nat]
  BY <1>1, <1>2 DEF R!Growth
<1>4. R!Fresh = (Size - fresh + 1)..Size /\ fresh \in 0..Size
  BY DEF R!Fresh, Size, SamplesTyped
<1>5. IsFiniteSet(R!Fresh)
  BY <1>1, <1>4, FS_Interval
<1>6. Len(R!Values) = Size
  BY <1>1, <1>2
<1>7. R!Fresh \in SUBSET (1..Size) /\ (fresh = 0 <=> R!Fresh = {})
  BY <1>1, <1>4
<1> QED
  BY <1>1, <1>2, <1>3, <1>4, <1>5, <1>6, <1>7 DEF SubmittedTyped

LEMMA SumsAreNat ==
    ASSUME SubmittedTyped
    PROVE  SumOf(R!Values, R!Fresh) \in Nat /\ SumOf(R!Growth, R!Fresh) \in Nat
<1> DEFINE D == 1..Size
<1>1. /\ R!Fresh \in SUBSET D /\ IsFiniteSet(R!Fresh)
      /\ R!Values \in [D -> Nat] /\ R!Growth \in [D -> Nat]
  BY DEF SubmittedTyped
<1> HIDE DEF D
<1> QED
  BY <1>1, SumOfType

LEMMA SubmitSamples ==
    ASSUME SamplesTyped, NEW v \in Nat, SubmitValue(v)
    PROVE  /\ SamplesTyped' /\ Size' = Size + 1 /\ fresh' = fresh + 1 /\ samples' # <<>>
           /\ \A i \in 1..Size : samples'[i] = samples[i]
           /\ samples'[Size + 1] = [value |-> v, time |-> clock]
<1>1. samples' = Append(samples, [value |-> v, time |-> clock]) /\ fresh' = fresh + 1
      /\ UNCHANGED <<clock, kind>>
  BY DEF SubmitValue
<1>2. [value |-> v, time |-> clock] \in Sample /\ samples \in Seq(Sample) /\ fresh \in 0..Size /\ Size \in Nat
  BY DEF SamplesTyped, Sample, Size
<1>3. /\ samples' \in Seq(Sample) /\ Len(samples') = Len(samples) + 1
      /\ \A i \in 1..Len(samples) : samples'[i] = samples[i]
      /\ samples'[Len(samples) + 1] = [value |-> v, time |-> clock]
  BY <1>1, <1>2, AppendProperties
<1>4. fresh' \in 0..Size'
  BY <1>1, <1>2, <1>3 DEF Size
<1>5. samples' # <<>>
  BY <1>2, <1>3 DEF Size
<1> QED
  BY <1>1, <1>3, <1>4, <1>5 DEF SamplesTyped, Size

LEMMA SubmitValues ==
    ASSUME SamplesTyped, NEW v \in Nat, SubmitValue(v)
    PROVE  /\ \A i \in 1..Size : R!Values'[i] = R!Values[i] /\ R!Growth'[i] = R!Growth[i]
           /\ R!Values'[Size + 1] = v
           /\ R!Growth'[Size + 1] = IF Size > 0 THEN Positive(v - R!Values[Size]) ELSE 0
           /\ R!Fresh' = R!Fresh \cup {Size + 1} /\ Size + 1 \notin R!Fresh
<1>1. SubmittedTyped
  BY ValuesAre
<1>2. SamplesTyped' => SubmittedTyped'
  BY ValuesAre, PTL
<1>3. /\ SamplesTyped' /\ Size' = Size + 1 /\ fresh' = fresh + 1
      /\ \A i \in 1..Size : samples'[i] = samples[i]
      /\ samples'[Size + 1] = [value |-> v, time |-> clock]
  BY SubmitSamples
<1>4. SubmittedTyped' /\ Size \in Nat
  BY <1>1, <1>2, <1>3 DEF SubmittedTyped
<1>5. \A i \in 1..Size : R!Values'[i] = R!Values[i]
  <2> SUFFICES ASSUME NEW i \in 1..Size PROVE R!Values'[i] = R!Values[i]
    OBVIOUS
  <2>1. i \in 1..Size' /\ samples'[i] = samples[i]
    BY <1>3, <1>4
  <2>2. R!Values'[i] = samples'[i].value
    BY <1>4, <2>1 DEF SubmittedTyped
  <2>3. R!Values[i] = samples[i].value
    BY <1>1 DEF SubmittedTyped
  <2> QED
    BY <2>1, <2>2, <2>3
<1>6. R!Values'[Size + 1] = v
  BY <1>3, <1>4 DEF SubmittedTyped
<1>7. /\ R!Growth = [i \in 1..Size |-> IF i > 1 /\ R!Values[i] > R!Values[i - 1]
                                       THEN R!Values[i] - R!Values[i - 1] ELSE 0]
      /\ R!Growth' = [i \in 1..Size' |-> IF i > 1 /\ R!Values'[i] > R!Values'[i - 1]
                                       THEN R!Values'[i] - R!Values'[i - 1] ELSE 0]
  <2>1. DOMAIN samples = 1..Size
    BY DEF SamplesTyped, Size
  <2>2. DOMAIN samples' = 1..Size'
    BY <1>3 DEF SamplesTyped, Size
  <2> QED
    BY <2>1, <2>2 DEF R!Growth
<1>8. \A i \in 1..Size : R!Growth'[i] = R!Growth[i]
  <2> SUFFICES ASSUME NEW i \in 1..Size PROVE R!Growth'[i] = R!Growth[i]
    OBVIOUS
  <2>1. i \in 1..Size' /\ R!Values'[i] = R!Values[i] /\ (i > 1 => R!Values'[i - 1] = R!Values[i - 1])
    BY <1>3, <1>4, <1>5
  <2> QED
    BY <1>7, <2>1
<1>9. R!Growth'[Size + 1] = IF Size > 0 THEN Positive(v - R!Values[Size]) ELSE 0
  <2>1. Size + 1 \in 1..Size' /\ (Size + 1 > 1 <=> Size > 0) /\ (Size + 1) - 1 = Size
    BY <1>3, <1>4
  <2>2. R!Growth'[Size + 1] = IF Size > 0 /\ v > R!Values'[Size] THEN v - R!Values'[Size] ELSE 0
    BY <1>6, <1>7, <2>1
  <2>3. CASE Size > 0
    <3>1. R!Values'[Size] = R!Values[Size] /\ R!Values[Size] \in Nat
      BY SMTT(30), <1>1, <1>4, <1>5, <2>3 DEF SubmittedTyped
    <3> QED
      BY <2>2, <2>3, <3>1 DEF Positive
  <2> QED
    BY <2>2, <2>3
<1>10. R!Fresh = (Size - fresh + 1)..Size /\ R!Fresh' = (Size' - fresh' + 1)..Size'
       /\ fresh \in 0..Size /\ Size \in Nat
  BY <1>1, <1>4 DEF SubmittedTyped
<1>11. R!Fresh' = R!Fresh \cup {Size + 1} /\ Size + 1 \notin R!Fresh
  BY <1>3, <1>10
<1> QED
  BY <1>5, <1>6, <1>8, <1>9, <1>11

LEMMA SubmitSums ==
    ASSUME SamplesTyped, NEW v \in Nat, SubmitValue(v)
    PROVE  /\ SumOf(R!Values, R!Fresh) \in Nat /\ SumOf(R!Growth, R!Fresh) \in Nat
           /\ SumOf(R!Values', R!Fresh') = SumOf(R!Values, R!Fresh) + v
           /\ SumOf(R!Growth', R!Fresh') = SumOf(R!Growth, R!Fresh) + R!Growth'[Size + 1]
<1>1. SubmittedTyped
  BY ValuesAre
<1>2. SubmittedTyped' /\ Size' = Size + 1
  <2>1. SamplesTyped' /\ Size' = Size + 1
    BY SubmitSamples
  <2>2. SamplesTyped' => SubmittedTyped'
    BY ValuesAre, PTL
  <2> QED
    BY <2>1, <2>2
<1>3. /\ \A i \in 1..Size : R!Values'[i] = R!Values[i] /\ R!Growth'[i] = R!Growth[i]
      /\ R!Values'[Size + 1] = v
      /\ R!Fresh' = R!Fresh \cup {Size + 1} /\ Size + 1 \notin R!Fresh
  BY SubmitValues
<1>4. /\ Size \in Nat /\ R!Fresh \in SUBSET (1..Size) /\ IsFiniteSet(R!Fresh)
      /\ R!Values \in [1..Size -> Nat] /\ R!Growth \in [1..Size -> Nat]
      /\ R!Values' \in [1..Size' -> Nat] /\ R!Growth' \in [1..Size' -> Nat]
  BY <1>1, <1>2 DEF SubmittedTyped
<1>5. SumOf(R!Values, R!Fresh) \in Nat /\ SumOf(R!Growth, R!Fresh) \in Nat
  BY <1>1, SumsAreNat
<1> DEFINE D == 1..Size
           E == 1..Size'
           x == Size + 1
<1>6. /\ D \subseteq E /\ x \in E /\ x \notin R!Fresh /\ R!Fresh \in SUBSET D
      /\ R!Values \in [D -> Nat] /\ R!Growth \in [D -> Nat]
      /\ R!Values' \in [E -> Nat] /\ R!Growth' \in [E -> Nat]
      /\ \A y \in D : R!Values'[y] = R!Values[y] /\ R!Growth'[y] = R!Growth[y]
      /\ IsFiniteSet(R!Fresh)
  BY <1>2, <1>3, <1>4
<1>7. R!Fresh' = R!Fresh \cup {x} /\ R!Values'[x] = v
  BY <1>3
<1> HIDE DEF D, E, x
<1>8. SumOf(R!Values', R!Fresh \cup {x}) = SumOf(R!Values, R!Fresh) + R!Values'[x]
  BY <1>6, SumOfGrown
<1>9. SumOf(R!Growth', R!Fresh \cup {x}) = SumOf(R!Growth, R!Fresh) + R!Growth'[x]
  BY <1>6, SumOfGrown
<1> QED
  BY <1>5, <1>7, <1>8, <1>9 DEF x


-----------------------------------------------------------------------------
(* Samples *)

LEMMA ExistingKept ==
    ASSUME RollInv
    PROVE  /\ Existing \in MetricState /\ Existing.exists /\ Summary(Existing)
           /\ Existing.last = metric.last
<1>1. CASE metric.exists
  BY <1>1 DEF Existing, RollInv
<1>2. CASE ~metric.exists
  <2>1. metric = NoMetric /\ samples = <<>> /\ Existing = New
    BY <1>2 DEF RollInv, Existing
  <2>2. SamplesTyped /\ SubmittedTyped
    BY ValuesAre DEF RollInv
  <2>3. Size = 0 /\ fresh = 0 /\ R!Fresh = {}
    BY <2>1, <2>2 DEF Size, SubmittedTyped
  <2>4. /\ New \in MetricState /\ New.exists /\ New.last = NoValue /\ New.list = <<>>
        /\ New.prev = NoValue /\ New.curr = NoValue
        /\ New.value = IF kind = "Counter" THEN 0 ELSE NoValue
    <3>1. 0 \in Known /\ NoValue \in Known /\ <<>> \in Seq(Nat) \cup Seq(Sample)
      BY EmptySeq DEF Known
    <3>2. /\ NoMetric \in MetricState /\ NoMetric.last = NoValue /\ NoMetric.list = <<>>
          /\ NoMetric.prev = NoValue /\ NoMetric.curr = NoValue /\ NoMetric.value = NoValue
      BY <3>1 DEF NoMetric, MetricState
    <3> DEFINE x == IF kind = "Counter" THEN 0 ELSE NoValue
    <3>3. x \in Known /\ New = [NoMetric EXCEPT !.exists = TRUE, !.value = x]
      BY <3>1 DEF New
    <3> HIDE DEF x
    <3>4. New \in MetricState /\ New.exists /\ New.value = x /\ New.last = NoMetric.last
          /\ New.list = NoMetric.list /\ New.prev = NoMetric.prev /\ New.curr = NoMetric.curr
      BY <3>2, <3>3 DEF MetricState
    <3> QED
      BY <3>2, <3>4 DEF x
  <2>5. SumOf(R!Values, {}) = 0 /\ SumOf(<<>>, {}) = 0
    BY SumOfNone
  <2>6. ListKept(New)
    BY <2>3, <2>4, <2>5 DEF ListKept
  <2>7. SetKept(New)
    <3>1. {R!Values[i] : i \in R!Fresh} = {} /\ ToSet(New.list) = {}
      BY <2>3, <2>4 DEF ToSet
    <3>2. Cardinality({}) = 0 /\ <<>> \in Seq(Nat) /\ Len(<<>>) = 0
      BY FS_EmptySet
    <3> QED
      BY <2>4, <3>1, <3>2 DEF SetKept
  <2>8. PairKept(New)
    BY <2>3, <2>4 DEF PairKept
  <2>9. kind = "Counter" => IncrementsKept(New)
    BY <2>3, <2>4, <2>5 DEF IncrementsKept
  <2>10. kind # "Counter" => LastKeptIn(New) /\ CountKept(New) /\ GrowthKept(New)
    BY <2>3, <2>4 DEF LastKeptIn, CountKept, GrowthKept, LastSeen
  <2>11. Summary(New)
    BY <2>6, <2>7, <2>8, <2>9, <2>10 DEF Summary
  <2> QED
    BY <2>1, <2>4, <2>11 DEF NoMetric
<1> QED
  BY <1>1, <1>2

LEMMA SampledFields ==
    ASSUME Existing \in MetricState, kind \in Kinds, NEW v \in Nat, SubmitValue(v)
    PROVE  /\ metric'.exists = Existing.exists /\ metric'.last = clock
           /\ kind \in {"Raw", "Histogram"} => metric'.list = Append(Existing.list, v)
           /\ kind = "Set" => metric'.list = WithUnique(Existing.list, v)
           /\ kind = "Rate" =>
                 metric'.list = Append(Existing.list, [value |-> v, time |-> clock])
           /\ kind = "Gauge" => metric'.value = v
           /\ kind \in {"Count", "Counter"} => metric'.value = OrZero(Existing.value) + v
           /\ kind = "MonotonicCount" =>
                 /\ metric'.prev = LastSeen(Existing) /\ metric'.curr = v
                 /\ metric'.value = IF LastSeen(Existing) = NoValue THEN Existing.value
                                    ELSE OrZero(Existing.value) + Positive(v - LastSeen(Existing))
           /\ kind # "MonotonicCount" => metric'.prev = Existing.prev /\ metric'.curr = Existing.curr
           /\ kind \notin {"Gauge", "Count", "Counter", "MonotonicCount"} =>
                 metric'.value = Existing.value
           /\ kind \in {"Gauge", "Count", "Counter", "MonotonicCount"} =>
                 metric'.list = Existing.list
           /\ metric' = [exists |-> metric'.exists, value |-> metric'.value, prev |-> metric'.prev,
                         curr |-> metric'.curr, list |-> metric'.list, last |-> metric'.last]
<1> DEFINE m == Existing
<1>1. metric' = [SampledMetric(m, v) EXCEPT !.last = clock]
  BY DEF SubmitValue
<1> HIDE DEF m
<1>2. m \in MetricState
  BY DEF m
<1>3. CASE kind = "Gauge"
  <2>1. SampledMetric(m, v) = [m EXCEPT !.value = v]
    BY <1>3 DEF SampledMetric
  <2> QED
    BY <1>1, <1>2, <1>3, <2>1 DEF MetricState, m
<1>4. CASE kind \in {"Count", "Counter"}
  <2>1. SampledMetric(m, v) = [m EXCEPT !.value = OrZero(@) + v]
    BY <1>4 DEF SampledMetric
  <2> QED
    BY <1>1, <1>2, <1>4, <2>1 DEF MetricState, m
<1>5. CASE kind = "MonotonicCount"
  <2>1. SampledMetric(m, v) = SampleMonotonic(m, v)
    BY <1>5 DEF SampledMetric
  <2>2. SampleMonotonic(m, v) =
           [m EXCEPT !.prev = LastSeen(m), !.curr = v,
                     !.value = IF LastSeen(m) = NoValue THEN @
                               ELSE OrZero(@) + Positive(v - LastSeen(m))]
    BY DEF SampleMonotonic, LastSeen
  <2> QED
    BY <1>1, <1>2, <1>5, <2>1, <2>2 DEF MetricState, m
<1>6. CASE kind = "Set"
  <2>1. SampledMetric(m, v) = [m EXCEPT !.list = WithUnique(@, v)]
    BY <1>6 DEF SampledMetric
  <2> QED
    BY <1>1, <1>2, <1>6, <2>1 DEF MetricState, m
<1>7. CASE kind = "Rate"
  <2>1. SampledMetric(m, v) = [m EXCEPT !.list = Append(@, [value |-> v, time |-> clock])]
    BY <1>7 DEF SampledMetric
  <2> QED
    BY <1>1, <1>2, <1>7, <2>1 DEF MetricState, m
<1>8. CASE kind \in {"Raw", "Histogram"}
  <2>1. SampledMetric(m, v) = [m EXCEPT !.list = Append(@, v)]
    BY <1>8 DEF SampledMetric
  <2> QED
    BY <1>1, <1>2, <1>8, <2>1 DEF MetricState, m
<1> QED
  BY <1>3, <1>4, <1>5, <1>6, <1>7, <1>8 DEF Kinds

LEMMA ListSubmit ==
    ASSUME SamplesTyped, NEW v \in Nat, SubmitValue(v), ListKept(Existing),
           metric'.list = Append(Existing.list, v)
    PROVE  ListKept(metric)'
<1> DEFINE old == Existing.list
           new == metric'.list
<1>1. SubmittedTyped /\ fresh' = fresh + 1 /\ Size' = Size + 1
  BY ValuesAre, SubmitSamples
<1>2. fresh \in 0..Size /\ Size \in Nat /\ R!Values \in [1..Size -> Nat]
  BY <1>1 DEF SubmittedTyped
<1>3. /\ old \in Seq(Nat) /\ Len(old) = fresh
      /\ \A i \in 1..fresh : old[i] = R!Values[Size - fresh + i]
      /\ SumOf(old, 1..fresh) = SumOf(R!Values, R!Fresh)
  BY DEF ListKept
<1>4. new = Append(old, v)
  OBVIOUS
<1>5. /\ \A i \in 1..Size : R!Values'[i] = R!Values[i]
      /\ R!Values'[Size + 1] = v
      /\ SumOf(R!Values', R!Fresh') = SumOf(R!Values, R!Fresh) + v
  BY SubmitValues, SubmitSums
<1> HIDE DEF old, new
<1>6. /\ new \in Seq(Nat) /\ Len(new) = fresh + 1 /\ new[fresh + 1] = v
      /\ \A i \in 1..fresh : new[i] = old[i]
  BY <1>3, <1>4, AppendProperties
<1>7. ASSUME NEW i \in 1..(fresh + 1) PROVE new[i] = R!Values'[Size' - fresh' + i]
  <2>1. Size' - fresh' + i = Size - fresh + i
    BY <1>1, <1>2
  <2>2. CASE i = fresh + 1
    <3>1. Size - fresh + i = Size + 1
      BY <1>2, <2>2
    <3> QED
      BY <1>5, <1>6, <2>1, <2>2, <3>1
  <2>3. CASE i # fresh + 1
    <3>1. i \in 1..fresh /\ Size - fresh + i \in 1..Size
      BY <1>2, <2>3
    <3> QED
      BY <1>3, <1>5, <1>6, <2>1, <3>1
  <2> QED
    BY <2>2, <2>3
<1>8. SumOf(new, 1..(fresh + 1)) = SumOf(old, 1..fresh) + v
  <2>1. Len(new) = Len(old) + 1 /\ \A i \in 1..Len(old) : new[i] = old[i]
    BY <1>3, <1>6
  <2>2. SumOf(new, 1..(Len(old) + 1)) = SumOf(old, 1..Len(old)) + new[Len(old) + 1]
    BY <1>3, <1>6, <2>1, SumOfAppend
  <2> QED
    BY <1>3, <1>6, <2>2
<1> QED
  BY <1>1, <1>3, <1>5, <1>6, <1>7, <1>8 DEF ListKept, new

LEMMA ValueSubmit ==
    ASSUME SamplesTyped, NEW v \in Nat, SubmitValue(v), Existing \in MetricState
    PROVE  /\ metric'.value = v => LastKeptIn(metric)'
           /\ CountKept(Existing) /\ metric'.value = OrZero(Existing.value) + v => CountKept(metric)'
           /\ IncrementsKept(Existing) /\ metric'.value = OrZero(Existing.value) + v => IncrementsKept(metric)'
<1>1. SubmittedTyped /\ fresh' = fresh + 1 /\ Size' = Size + 1
  BY ValuesAre, SubmitSamples
<1>0. fresh \in 0..Size /\ Size \in Nat /\ (fresh = 0 <=> R!Fresh = {})
  BY <1>1 DEF SubmittedTyped
<1>2. fresh \in Nat /\ fresh' # 0 /\ (fresh = 0 <=> R!Fresh = {})
  BY <1>0, <1>1
<1>3. /\ R!Values'[Size + 1] = v /\ SumOf(R!Values, R!Fresh) \in Nat
      /\ SumOf(R!Values', R!Fresh') = SumOf(R!Values, R!Fresh) + v
  BY SubmitValues, SubmitSums
<1>4. SumOf(R!Values, {}) = 0 /\ NoValue \notin Nat
  BY SumOfNone DEF NoValue
<1>5. metric'.value = v => LastKeptIn(metric)'
  BY <1>1, <1>2, <1>3 DEF LastKeptIn
<1>6. CountKept(Existing) => OrZero(Existing.value) = SumOf(R!Values, R!Fresh)
  BY <1>2, <1>3, <1>4 DEF CountKept, OrZero
<1>7. IncrementsKept(Existing) => OrZero(Existing.value) = SumOf(R!Values, R!Fresh)
  BY <1>3, <1>4 DEF IncrementsKept, OrZero
<1>8. CountKept(Existing) /\ metric'.value = OrZero(Existing.value) + v => CountKept(metric)'
  BY <1>2, <1>3, <1>6 DEF CountKept
<1>9. IncrementsKept(Existing) /\ metric'.value = OrZero(Existing.value) + v => IncrementsKept(metric)'
  BY <1>3, <1>7 DEF IncrementsKept
<1> QED
  BY <1>5, <1>8, <1>9

LEMMA GrowthSubmit ==
    ASSUME SamplesTyped, NEW v \in Nat, SubmitValue(v), GrowthKept(Existing),
           metric'.prev = LastSeen(Existing), metric'.curr = v,
           metric'.value = IF LastSeen(Existing) = NoValue THEN Existing.value
                           ELSE OrZero(Existing.value) + Positive(v - LastSeen(Existing))
    PROVE  GrowthKept(metric)'
<1> DEFINE m == Existing
           seen == LastSeen(Existing)
           before == SumOf(R!Growth, R!Fresh)
           after == SumOf(R!Growth', R!Fresh')
<1>1. SubmittedTyped /\ fresh' = fresh + 1 /\ Size' = Size + 1
  BY ValuesAre, SubmitSamples
<1>2. /\ Size \in Nat /\ R!Fresh \in SUBSET (1..Size) /\ R!Growth \in [1..Size -> Nat]
      /\ R!Values \in [1..Size -> Nat] /\ IsFiniteSet(R!Fresh)
  BY <1>1 DEF SubmittedTyped
<1>3. /\ R!Values'[Size + 1] = v
      /\ R!Growth'[Size + 1] = IF Size > 0 THEN Positive(v - R!Values[Size]) ELSE 0
      /\ R!Fresh' = R!Fresh \cup {Size + 1}
      /\ before \in Nat /\ after = before + R!Growth'[Size + 1]
  BY SubmitValues, SubmitSums
<1>4. /\ seen = IF Size = 0 THEN NoValue ELSE R!Values[Size]
      /\ m.value = IF R!Fresh \ {1} = {} THEN NoValue ELSE before
  BY DEF GrowthKept
<1>5. v # NoValue /\ NoValue \notin Nat
  BY DEF NoValue
<1>6. LastSeen(metric)' = v
  BY <1>5 DEF LastSeen
<1>7. Size' # 0 /\ R!Values'[Size'] = v
  BY <1>1, <1>2, <1>3
<1>8. metric'.value = IF R!Fresh' \ {1} = {} THEN NoValue ELSE after
  <2>1. CASE Size = 0
    <3>1. R!Fresh = {} /\ R!Fresh' \ {1} = {}
      BY <1>2, <1>3, <2>1
    <3>2. metric'.value = NoValue
      BY <1>4, <2>1, <3>1
    <3> QED
      BY <3>1, <3>2
  <2>2. CASE Size # 0
    <3>1. Size + 1 \in R!Fresh' \ {1} /\ seen = R!Values[Size] /\ seen # NoValue
      BY <1>2, <1>3, <1>4, <1>5, <2>2
    <3>2. metric'.value = OrZero(m.value) + Positive(v - R!Values[Size])
      BY <3>1
    <3>3. OrZero(m.value) = before
      <4>1. CASE R!Fresh \ {1} # {}
        BY <1>3, <1>4, <1>5, <4>1 DEF OrZero
      <4>2. CASE R!Fresh \ {1} = {}
        <5>1. OrZero(m.value) = 0
          BY <1>4, <4>2 DEF OrZero
        <5>2. CASE R!Fresh = {}
          BY <5>1, <5>2, SumOfNone
        <5>3. CASE 1 \in R!Fresh
          <6>1. R!Growth[1] = 0 /\ 1 \in 1..Size
            BY <1>2, <2>2 DEF R!Growth
          <6>2. before = R!Growth[1] + SumOf(R!Growth, R!Fresh \ {1})
            <7> DEFINE D == 1..Size
                       x == 1
            <7>1. R!Fresh \in SUBSET D /\ R!Growth \in [D -> Nat] /\ IsFiniteSet(R!Fresh) /\ x \in R!Fresh
              BY <1>2, <5>3
            <7> HIDE DEF D, x
            <7>2. SumOf(R!Growth, R!Fresh) = R!Growth[x] + SumOf(R!Growth, R!Fresh \ {x})
              BY <7>1, SumOfRemove
            <7> QED
              BY <7>2 DEF x
          <6> QED
            BY <4>2, <5>1, <6>1, <6>2, SumOfNone
        <5> QED
          BY <4>2, <5>2, <5>3
      <4> QED
        BY <4>1, <4>2
    <3>4. after = before + Positive(v - R!Values[Size])
      BY <1>2, <1>3, <2>2
    <3> HIDE DEF after, before, m
    <3> QED
      BY <3>1, <3>2, <3>3, <3>4
  <2> QED
    BY <2>1, <2>2
<1> HIDE DEF after
<1> QED
  BY <1>5, <1>6, <1>7, <1>8 DEF GrowthKept, after

LEMMA SetSubmit ==
    ASSUME SamplesTyped, NEW v \in Nat, SubmitValue(v), SetKept(Existing),
           metric'.list = WithUnique(Existing.list, v)
    PROVE  SetKept(metric)'
<1> DEFINE old == Existing.list
           new == metric'.list
           S == {R!Values[i] : i \in R!Fresh}
<1>1. SubmittedTyped /\ Size' = Size + 1
  BY ValuesAre, SubmitSamples
<1>2. Size \in Nat /\ R!Fresh \in SUBSET (1..Size) /\ IsFiniteSet(R!Fresh)
  BY <1>1 DEF SubmittedTyped
<1>3. /\ \A i \in 1..Size : R!Values'[i] = R!Values[i]
      /\ R!Values'[Size + 1] = v /\ R!Fresh' = R!Fresh \cup {Size + 1}
  BY SubmitValues
<1>4. {R!Values'[i] : i \in R!Fresh'} = S \cup {v}
  BY <1>2, <1>3
<1>5. IsFiniteSet(S)
  <2> DEFINE f == [i \in R!Fresh |-> R!Values[i]]
  <2>1. f \in Surjection(R!Fresh, S)
    BY DEF Surjection
  <2> QED
    BY <1>2, <2>1, FS_Surjection
<1>6. old \in Seq(Nat) /\ ToSet(old) = S /\ Len(old) = Cardinality(S)
  BY DEF SetKept
<1>7. new = IF v \in S THEN old ELSE Append(old, v)
  BY <1>6 DEF WithUnique
<1> HIDE DEF old, new, S
<1>8. new \in Seq(Nat) /\ ToSet(new) = S \cup {v} /\ Len(new) = Cardinality(S \cup {v})
  <2>1. CASE v \in S
    <3>1. S \cup {v} = S
      BY <2>1
    <3> QED
      BY <1>6, <1>7, <2>1, <3>1
  <2>2. CASE v \notin S
    <3>1. /\ new \in Seq(Nat) /\ Len(new) = Len(old) + 1 /\ new[Len(old) + 1] = v
          /\ \A i \in 1..Len(old) : new[i] = old[i]
      BY <1>6, <1>7, <2>2, AppendProperties
    <3>2. Cardinality(S \cup {v}) = Cardinality(S) + 1
      BY <1>5, <2>2, FS_AddElement
    <3>3. DOMAIN new = (DOMAIN old) \cup {Len(old) + 1} /\ DOMAIN old = 1..Len(old)
      BY <1>6, <3>1
    <3>4. ToSet(new) = ToSet(old) \cup {v}
      BY <3>1, <3>3 DEF ToSet
    <3> QED
      BY <1>6, <3>1, <3>2, <3>4
  <2> QED
    BY <2>1, <2>2
<1> QED
  BY <1>4, <1>8 DEF SetKept, new, S

LEMMA PairSubmit ==
    ASSUME SamplesTyped, NEW v \in Nat, SubmitValue(v), PairKept(Existing),
           metric'.list = Append(Existing.list, [value |-> v, time |-> clock])
    PROVE  PairKept(metric)'
<1> DEFINE old == Existing.list
           new == metric'.list
           x == [value |-> v, time |-> clock]
<1>1. /\ SubmittedTyped /\ fresh' = fresh + 1 /\ Size' = Size + 1
      /\ \A i \in 1..Size : samples'[i] = samples[i]
      /\ samples'[Size + 1] = x
  BY ValuesAre, SubmitSamples
<1>2. fresh \in 0..Size /\ Size \in Nat
  BY <1>1 DEF SubmittedTyped
<1>3. /\ old \in Seq(Sample) /\ Len(old) = fresh + (IF fresh < Size THEN 1 ELSE 0)
      /\ \A i \in 1..Len(old) : old[i] = samples[Size - Len(old) + i]
  BY DEF PairKept
<1>4. new = Append(old, x) /\ x \in Sample
  BY DEF SamplesTyped, Sample
<1> HIDE DEF old, new, x
<1>5. /\ new \in Seq(Sample) /\ Len(new) = Len(old) + 1 /\ new[Len(old) + 1] = x
      /\ \A i \in 1..Len(old) : new[i] = old[i]
  BY <1>3, <1>4, AppendProperties
<1>6. Len(new) = fresh' + (IF fresh' < Size' THEN 1 ELSE 0) /\ Len(old) \in 0..Size
  BY <1>1, <1>2, <1>3, <1>5
<1>7. ASSUME NEW i \in 1..Len(new) PROVE new[i] = samples'[Size' - Len(new) + i]
  <2>1. Size' - Len(new) + i = Size - Len(old) + i
    BY <1>1, <1>2, <1>5, <1>6
  <2>2. CASE i = Len(old) + 1
    <3>1. Size - Len(old) + i = Size + 1
      BY <1>2, <1>6, <2>2
    <3> QED
      BY <1>1, <1>5, <2>1, <2>2, <3>1
  <2>3. CASE i # Len(old) + 1
    <3>1. i \in 1..Len(old) /\ Size - Len(old) + i \in 1..Size
      BY <1>2, <1>5, <1>6, <2>3
    <3> QED
      BY <1>1, <1>3, <1>5, <2>1, <3>1
  <2> QED
    BY <2>2, <2>3
<1> QED
  BY <1>5, <1>6, <1>7 DEF PairKept, new

-----------------------------------------------------------------------------
(* Sorting.  The places of a list are ranked by their values, those of the same *)
(* value by their order.                                                     *)

Before(list, j, i) == list[j] < list[i] \/ (list[j] = list[i] /\ j <= i)
Least(list, i) == {j \in DOMAIN list : Before(list, j, i)}
Ranks(list) == [i \in DOMAIN list |-> Cardinality(Least(list, i))]

LEMMA RanksDiffer ==
    ASSUME NEW list \in Seq(Nat), NEW a \in DOMAIN list, NEW b \in DOMAIN list, ~Before(list, b, a)
    PROVE  Ranks(list)[a] < Ranks(list)[b]
<1> DEFINE D == DOMAIN list
           A == Least(list, a)
           B == Least(list, b)
<1>1. D = 1..Len(list) /\ Len(list) \in Nat /\ \A i \in D : list[i] \in Nat /\ i \in Nat
  OBVIOUS
<1>2. IsFiniteSet(D)
  BY <1>1, FS_Interval
<1>3. A \subseteq D /\ B \subseteq D /\ b \in B /\ b \notin A
  BY <1>1 DEF Least, Before
<1>4. A \subseteq B
  BY <1>1 DEF Least, Before
<1>5. Ranks(list)[a] = Cardinality(A) /\ Ranks(list)[b] = Cardinality(B)
  BY DEF Ranks
<1> HIDE DEF D, A, B
<1>6. IsFiniteSet(A) /\ IsFiniteSet(B)
  BY <1>2, <1>3, FS_Subset
<1>7. Cardinality(A) \in Nat /\ Cardinality(B) \in Nat
  BY <1>6, FS_CardinalityType
<1>8. Cardinality(A) <= Cardinality(B) /\ Cardinality(A) # Cardinality(B)
  BY <1>3, <1>4, <1>6, FS_Subset
<1> QED
  BY <1>5, <1>7, <1>8

LEMMA RanksAreAll ==
    ASSUME NEW list \in Seq(Nat)
    PROVE  /\ Ranks(list) \in [DOMAIN list -> DOMAIN list]
           /\ \A a, b \in DOMAIN list : Ranks(list)[a] = Ranks(list)[b] => a = b
           /\ \A k \in DOMAIN list : \E i \in DOMAIN list : Ranks(list)[i] = k
<1> DEFINE D == DOMAIN list
           r == Ranks(list)
<1>1. D = 1..Len(list) /\ Len(list) \in Nat /\ \A i \in D : list[i] \in Nat /\ i \in Nat
  OBVIOUS
<1>2. IsFiniteSet(D) /\ Cardinality(D) = Len(list)
  <2>1. ASSUME NEW n \in Nat PROVE IsFiniteSet(1..n) /\ Cardinality(1..n) = n
    BY FS_Interval
  <2> QED
    BY <1>1, <2>1
<1>3. ASSUME NEW i \in D PROVE r[i] \in D
  <2> DEFINE S == Least(list, i)
  <2>1. S \subseteq D /\ i \in S
    BY <1>1, <1>3 DEF Least, Before
  <2>2. r[i] = Cardinality(S)
    BY <1>3 DEF Ranks
  <2> HIDE DEF D, S, r
  <2>3. IsFiniteSet(S) /\ Cardinality(S) <= Cardinality(D)
    BY <1>2, <2>1, FS_Subset
  <2>4. Cardinality(S) \in Nat /\ Cardinality(S) # 0
    BY <2>1, <2>3, FS_CardinalityType, FS_EmptySet
  <2> QED
    BY <1>1, <1>2, <2>2, <2>3, <2>4
<1>4. r \in [D -> D]
  BY <1>3 DEF Ranks
<1>5. ASSUME NEW a \in D, NEW b \in D, r[a] = r[b] PROVE a = b
  <2>1. Before(list, b, a) /\ Before(list, a, b)
    <3>1. r[a] \in Nat
      BY <1>1, <1>4
    <3> QED
      BY <1>5, <3>1, RanksDiffer
  <2> QED
    BY <1>1, <2>1 DEF Before
<1> HIDE DEF D, r
<1>6. r \in Injection(D, D)
  BY <1>4, <1>5 DEF Injection, IsInjective
<1>7. r \in Surjection(D, D)
  BY <1>2, <1>6, FS_Injection
<1> QED
  BY <1>4, <1>5, <1>7 DEF Surjection, D, r

\* A list can be sorted.
LEMMA OrderExists ==
    ASSUME NEW list \in Seq(Nat)
    PROVE  \E p \in Bijection(DOMAIN list, DOMAIN list) :
               \A i, j \in DOMAIN list : i < j => list[p[i]] <= list[p[j]]
<1> DEFINE D == DOMAIN list
           r == Ranks(list)
           p == [k \in D |-> CHOOSE i \in D : r[i] = k]
<1>1. D = 1..Len(list) /\ Len(list) \in Nat /\ \A i \in D : list[i] \in Nat /\ i \in Nat
  OBVIOUS
<1>2. /\ r \in [D -> D]
      /\ \A a, b \in D : r[a] = r[b] => a = b
      /\ \A k \in D : \E i \in D : r[i] = k
  BY RanksAreAll
<1>3. \A a, b \in D : ~Before(list, b, a) => r[a] < r[b]
  BY RanksDiffer
<1> HIDE DEF r
<1>4. \A k \in D : p[k] \in D /\ r[p[k]] = k
  BY <1>2
<1> HIDE DEF p, D
<1>5. p \in [D -> D]
  BY <1>4 DEF p
<1>6. p \in Bijection(D, D)
  <2>1. IsInjective(p)
    BY <1>4, <1>5 DEF IsInjective
  <2>2. ASSUME NEW i \in D PROVE \E k \in D : p[k] = i
    <3>1. r[i] \in D
      BY <1>2
    <3>2. p[r[i]] \in D /\ r[p[r[i]]] = r[i]
      BY <1>4, <3>1
    <3> QED
      BY <1>2, <3>1, <3>2
  <2> QED
    BY <1>5, <2>1, <2>2 DEF Bijection, Injection, Surjection
<1>7. ASSUME NEW i \in D, NEW j \in D, i < j PROVE list[p[i]] <= list[p[j]]
  <2>1. p[i] \in D /\ p[j] \in D /\ r[p[i]] = i /\ r[p[j]] = j /\ i \in Nat /\ j \in Nat
    BY <1>1, <1>4
  <2>2. Before(list, p[i], p[j])
    <3>1. SUFFICES ASSUME ~Before(list, p[i], p[j]) PROVE FALSE
      OBVIOUS
    <3>2. r[p[j]] < r[p[i]]
      BY <1>3, <2>1, <3>1
    <3> QED
      BY <1>7, <2>1, <3>2
  <2> QED
    BY SMTT(30), <1>1, <2>1, <2>2 DEF Before
<1> QED
  BY <1>6, <1>7 DEF D

LEMMA SortedIs ==
    ASSUME NEW list \in Seq(Nat)
    PROVE  \E p \in Bijection(DOMAIN list, DOMAIN list) :
               /\ Sorted(list) = [i \in DOMAIN list |-> list[p[i]]]
               /\ \A i, j \in DOMAIN list : i <= j => list[p[i]] <= list[p[j]]
<1> DEFINE D == DOMAIN list
           Orders(p) == \A i, j \in D : i < j => list[p[i]] <= list[p[j]]
           q == CHOOSE p \in Bijection(D, D) : Orders(p)
<1>1. q \in Bijection(D, D) /\ Orders(q)
  BY OrderExists
<1>2. Sorted(list) = [i \in D |-> list[q[i]]]
  BY DEF Sorted
<1> HIDE DEF q
<1>3. \A i \in D : list[q[i]] \in Nat /\ i \in Nat
  <2>1. \A i \in D : q[i] \in D
    BY <1>1 DEF Bijection, Injection
  <2>2. \A i \in D : list[i] \in Nat /\ i \in Nat
    OBVIOUS
  <2> QED
    BY <2>1, <2>2
<1>4. \A i, j \in D : i <= j => list[q[i]] <= list[q[j]]
  BY <1>1, <1>3
<1> QED
  BY <1>1, <1>2, <1>4

-----------------------------------------------------------------------------
(* What a histogram reports *)

\* The rank of the percentile, as Rollup has it.
RankIn(n) == IF (2 * Percentile * n + 100) \div 200 > 1 THEN (2 * Percentile * n + 100) \div 200 ELSE 1

\* From the percentile 26 on the code looks that rank up.
LEMMA RankFound ==
    ASSUME NEW n \in Nat, n > 0, Percentile \in 26..99
    PROVE  LET k == Round(Percentile * n - 100, 100)
           IN  /\ RankIn(n) \in 1..n
               /\ (IF k < 0 THEN n + k + 1 ELSE k + 1) = RankIn(n)
<1> DEFINE q == Percentile * n
           k == Round(Percentile * n - 100, 100)
<1>1. q \in Nat /\ q >= 26 * n /\ q <= 99 * n /\ 2 * Percentile * n = 2 * q
  OBVIOUS
<1>2. k = IF q - 100 >= 0 THEN (2 * (q - 100) + 100) \div 200 ELSE -((100 - 2 * (q - 100)) \div 200)
  BY DEF Round
<1>3. RankIn(n) = IF (2 * q + 100) \div 200 > 1 THEN (2 * q + 100) \div 200 ELSE 1
  BY <1>1 DEF RankIn
<1> HIDE DEF q, k
<1>4. RankIn(n) \in 1..n
  BY <1>1, <1>3
<1>5. (IF k < 0 THEN n + k + 1 ELSE k + 1) = RankIn(n)
  <2>1. CASE q >= 100
    BY <1>1, <1>2, <1>3, <2>1
  <2>2. CASE q < 100 /\ n = 1
    BY <1>1, <1>2, <1>3, <2>2
  <2>3. CASE q < 100 /\ n > 1
    <3>1. q >= 52
      BY <1>1, <2>3
    <3> QED
      BY <1>1, <1>2, <1>3, <2>3, <3>1
  <2> QED
    BY <1>1, <2>1, <2>2, <2>3
<1> QED
  BY <1>4, <1>5 DEF k

LEMMA AggregatesAre ==
    ASSUME NEW list \in Seq(Nat), list # <<>>, Percentile \in 26..99
    PROVE  LET D == DOMAIN list
           IN  \E low, high, median, place \in D :
                   /\ Aggregates(list) =
                         [min |-> list[low], max |-> list[high], median |-> list[median],
                          sum |-> SumOf(list, D), count |-> Len(list), percentile |-> list[place]]
                   /\ \A i \in D : list[low] <= list[i] /\ list[i] <= list[high]
                   /\ Cardinality({i \in D : list[i] <= list[place]}) >= RankIn(Len(list))
                   /\ Cardinality({i \in D : list[i] < list[place]}) < RankIn(Len(list))
<1> DEFINE D == DOMAIN list
           n == Len(list)
           sorted == Sorted(list)
           k == RankIn(n)
<1>1. D = 1..n /\ n \in Nat /\ n > 0 /\ \A i \in D : list[i] \in Nat
  OBVIOUS
<1>2. PICK p \in Bijection(D, D) :
          /\ sorted = [i \in D |-> list[p[i]]]
          /\ \A i, j \in D : i <= j => list[p[i]] <= list[p[j]]
  BY SortedIs
<1>3. /\ p \in [D -> D] /\ \A a, b \in D : p[a] = p[b] => a = b
      /\ \A j \in D : \E i \in D : p[i] = j
  BY <1>2 DEF Bijection, Injection, Surjection, IsInjective
<1>4. k \in 1..n
  BY <1>1, RankFound
<1>5. Len(sorted) = n /\ \A i \in 1..n : sorted[i] = list[p[i]]
  BY <1>1, <1>2
<1>6. Aggregates(list) =
         [min |-> At(sorted, 0), max |-> At(sorted, -1), median |-> At(sorted, (n \div 2) - 1),
          sum |-> SumOf(list, D), count |-> n,
          percentile |-> At(sorted, Round(Percentile * n - 100, 100))]
  BY FoldIsSum DEF Aggregates, FoldFunction
<1>7. At(sorted, 0) = list[p[1]] /\ At(sorted, -1) = list[p[n]]
  BY <1>1, <1>5 DEF At
<1>8. PICK m \in 1..n : At(sorted, (n \div 2) - 1) = list[p[m]]
  <2>1. CASE n = 1
    <3>1. At(sorted, (n \div 2) - 1) = sorted[1]
      BY <1>1, <1>5, <2>1 DEF At
    <3> QED
      BY <1>1, <1>5, <3>1
  <2>2. CASE n > 1
    <3>1. n \div 2 \in 1..n /\ ~((n \div 2) - 1 < 0) /\ ((n \div 2) - 1) + 1 = n \div 2
      BY <1>1, <2>2
    <3>2. At(sorted, (n \div 2) - 1) = sorted[n \div 2]
      BY <3>1 DEF At
    <3> QED
      BY <1>5, <3>1, <3>2
  <2> QED
    BY <1>1, <2>1, <2>2
<1>9. At(sorted, Round(Percentile * n - 100, 100)) = list[p[k]]
  <2> DEFINE r == Round(Percentile * n - 100, 100)
  <2>1. (IF r < 0 THEN n + r + 1 ELSE r + 1) = k
    BY <1>1, RankFound
  <2> HIDE DEF r
  <2>2. At(sorted, r) = sorted[k]
    BY <1>5, <2>1 DEF At
  <2> QED
    BY <1>4, <1>5, <2>2 DEF r
<1> HIDE DEF k, sorted
<1>10. 1 \in D /\ n \in D /\ m \in D /\ k \in D
  BY <1>1, <1>4
<1>11. ASSUME NEW i \in D PROVE list[p[1]] <= list[i] /\ list[i] <= list[p[n]]
  <2>1. PICK j \in D : p[j] = i
    BY <1>3
  <2>2. 1 <= j /\ j <= n
    BY <1>1
  <2> QED
    BY <1>2, <1>10, <2>1, <2>2
<1>12. Cardinality({i \in D : list[i] <= list[p[k]]}) >= k
  <2> DEFINE S == {i \in D : list[i] <= list[p[k]]}
             f == [i \in 1..k |-> p[i]]
  <2>1. IsFiniteSet(D) /\ IsFiniteSet(1..k) /\ Cardinality(1..k) = k
    BY <1>1, <1>4, FS_Interval
  <2>2. IsFiniteSet(S) /\ Cardinality(S) \in Nat
    BY <2>1, FS_Subset, FS_CardinalityType
  <2>3. \A i \in 1..k : i \in D /\ i <= k
    BY <1>1, <1>4
  <2>4. f \in Injection(1..k, S)
    <3>1. \A i \in 1..k : f[i] \in S
      BY <1>2, <1>3, <1>10, <2>3
    <3>2. IsInjective(f)
      BY <1>3, <2>3 DEF IsInjective
    <3> QED
      BY <3>1, <3>2 DEF Injection
  <2> HIDE DEF S, f
  <2>5. Cardinality(1..k) <= Cardinality(S)
    BY <2>2, <2>4, FS_Injection
  <2> QED
    BY <1>4, <2>1, <2>2, <2>5 DEF S
<1>13. Cardinality({i \in D : list[i] < list[p[k]]}) < k
  <2> DEFINE S == {i \in D : list[i] < list[p[k]]}
             T == 1..(k - 1)
             f == [i \in S |-> CHOOSE j \in D : p[j] = i]
  <2>1. \A i \in S : f[i] \in D /\ p[f[i]] = i
    BY <1>3
  <2>2. ASSUME NEW i \in S PROVE f[i] \in T
    <3>1. f[i] \in D /\ p[f[i]] = i /\ list[i] < list[p[k]]
      BY <2>1, <2>2
    <3>2. ~(k <= f[i])
      <4>1. k <= f[i] => list[p[k]] <= list[p[f[i]]]
        BY <1>2, <1>10, <3>1
      <4>2. list[p[k]] \in Nat /\ list[i] \in Nat
        BY <1>1, <1>3, <1>10, <2>2
      <4> QED
        BY <3>1, <4>1, <4>2
    <3> QED
      BY <1>1, <1>4, <3>1, <3>2
  <2>3. f \in Injection(S, T)
    <3>1. IsInjective(f)
      BY ZenonT(30), <2>1 DEF IsInjective
    <3> QED
      BY <2>2, <3>1 DEF Injection
  <2>4. IsFiniteSet(T) /\ Cardinality(T) = k - 1
    BY SMTT(30), <1>4, FS_Interval
  <2> HIDE DEF S, T, f
  <2>5. IsFiniteSet(S) /\ Cardinality(S) <= Cardinality(T)
    BY <2>3, <2>4, FS_Injection
  <2>6. Cardinality(S) \in Nat
    BY <2>5, FS_CardinalityType
  <2> QED
    BY <1>4, <2>4, <2>5, <2>6 DEF S
<1>14. p[1] \in D /\ p[n] \in D /\ p[m] \in D /\ p[k] \in D
  BY <1>3, <1>10
<1>15. Aggregates(list) =
         [min |-> list[p[1]], max |-> list[p[n]], median |-> list[p[m]],
          sum |-> SumOf(list, D), count |-> n, percentile |-> list[p[k]]]
  BY <1>6, <1>7, <1>8, <1>9
<1> SUFFICES \E low, high, median, place \in D :
        /\ Aggregates(list) =
              [min |-> list[low], max |-> list[high], median |-> list[median],
               sum |-> SumOf(list, D), count |-> n, percentile |-> list[place]]
        /\ \A i \in D : list[low] <= list[i] /\ list[i] <= list[high]
        /\ Cardinality({i \in D : list[i] <= list[place]}) >= k
        /\ Cardinality({i \in D : list[i] < list[place]}) < k
  BY DEF k
<1> USE <1>14
<1> WITNESS p[1] \in D, p[n] \in D, p[m] \in D, p[k] \in D
<1> QED
  BY <1>11, <1>12, <1>13, <1>15

LEMMA CountShifted ==
    ASSUME NEW n \in Nat, NEW k \in Nat, NEW S \in SUBSET (1..n)
    PROVE  Cardinality({k + i : i \in S}) = Cardinality(S)
<1> DEFINE T == {k + i : i \in S}
           f == [i \in S |-> k + i]
<1>1. IsFiniteSet(S)
  <2>1. IsFiniteSet(1..n)
    BY FS_Interval
  <2> QED
    BY <2>1, FS_Subset
<1>2. f \in Bijection(S, T)
  BY DEF Bijection, Injection, Surjection, IsInjective
<1> HIDE DEF T, f
<1>3. ExistsBijection(S, T)
  BY <1>2 DEF ExistsBijection
<1>4. Cardinality(T) = Cardinality(S)
  BY <1>1, <1>3, FS_Bijection
<1> QED
  BY <1>4 DEF T

LEMMA RankIs == ASSUME fresh \in Nat PROVE R!Rank = RankIn(fresh)
<1> DEFINE x == (2 * Percentile * fresh + 100) \div 200
<1>1. x \in Int
  BY MetricsAssumption
<1>2. R!Rank = R!Max({1, x})
  BY DEF R!Rank
<1>3. RankIn(fresh) = IF x > 1 THEN x ELSE 1
  BY DEF RankIn
<1> HIDE DEF x
<1>4. R!Max({1, x}) = IF x > 1 THEN x ELSE 1
  BY <1>1 DEF R!Max
<1> QED
  BY <1>2, <1>3, <1>4

LEMMA SameCardinality == ASSUME NEW S PROVE R!Cardinality(S) = Cardinality(S)
  BY DEF R!Cardinality, Cardinality, R!IsFiniteSet, IsFiniteSet

LEMMA HistogramReported ==
    ASSUME SamplesTyped, kind = "Histogram", ListKept(metric), fresh > 0, Percentile \in 26..99
    PROVE  Aggregates(metric.list) \in R!Reports
<1> DEFINE list == metric.list
           D == DOMAIN list
           k == Size - fresh
           V == R!FreshValues
           Rolled(p, m) == [min |-> R!Min(V), max |-> R!Max(V), sum |-> R!Total, count |-> fresh,
                            percentile |-> R!Values[p], median |-> R!Values[m]]
<1>1. SubmittedTyped
  BY ValuesAre
<1>2. /\ Size \in Nat /\ fresh \in 1..Size /\ R!Fresh = (k + 1)..Size /\ k \in Nat
      /\ R!Values \in [1..Size -> Nat] /\ k + fresh = Size
  BY <1>1 DEF SubmittedTyped
<1>3. /\ list \in Seq(Nat) /\ Len(list) = fresh /\ list # <<>> /\ D = 1..fresh
      /\ \A i \in D : list[i] = R!Values[k + i] /\ list[i] \in Nat
      /\ SumOf(list, D) = SumOf(R!Values, R!Fresh)
  <2>1. /\ list \in Seq(Nat) /\ Len(list) = fresh /\ D = 1..fresh
        /\ \A i \in 1..fresh : list[i] = R!Values[k + i]
        /\ SumOf(list, 1..fresh) = SumOf(R!Values, R!Fresh)
    BY DEF ListKept
  <2>2. list # <<>> /\ \A i \in D : list[i] \in Nat
    BY <1>2, <2>1
  <2> QED
    BY <2>1, <2>2
<1>4. R!Total = SumOf(list, D)
  BY <1>3, FoldIsSum DEF R!Total
<1>5. R!Fresh = {k + i : i \in D}
  <2>1. \A j \in R!Fresh : j - k \in D /\ j = k + (j - k)
    BY <1>2, <1>3
  <2>2. \A i \in D : k + i \in R!Fresh
    BY SMTT(30), <1>2, <1>3
  <2> QED
    BY <2>1, <2>2
<1>6. ASSUME NEW v \in Nat
      PROVE  /\ R!AtMost(v) = Cardinality({i \in D : list[i] <= v})
             /\ R!Below(v) = Cardinality({i \in D : list[i] < v})
  <2> DEFINE S == {i \in D : list[i] <= v}
             T == {i \in D : list[i] < v}
  <2>1. /\ {i \in R!Fresh : R!Values[i] <= v} = {k + i : i \in S}
        /\ {i \in R!Fresh : R!Values[i] < v} = {k + i : i \in T}
    BY <1>3, <1>5
  <2>2. S \in SUBSET (1..fresh) /\ T \in SUBSET (1..fresh) /\ fresh \in Nat
    BY <1>2, <1>3
  <2> HIDE DEF S, T
  <2>3. Cardinality({k + i : i \in S}) = Cardinality(S) /\ Cardinality({k + i : i \in T}) = Cardinality(T)
    BY ZenonT(30), <1>2, <2>2, CountShifted
  <2>4. R!AtMost(v) = Cardinality({i \in R!Fresh : R!Values[i] <= v})
    BY SameCardinality DEF R!AtMost
  <2>5. R!Below(v) = Cardinality({i \in R!Fresh : R!Values[i] < v})
    BY SameCardinality DEF R!Below
  <2>6. R!AtMost(v) = Cardinality(S)
    BY <2>1, <2>3, <2>4
  <2>7. R!Below(v) = Cardinality(T)
    BY <2>1, <2>3, <2>5
  <2> QED
    BY <2>6, <2>7 DEF S, T
<1>7. V = {list[i] : i \in D}
  BY <1>3, <1>5 DEF R!FreshValues
<1>8. PICK low \in D, high \in D, median \in D, place \in D :
          /\ Aggregates(list) =
                [min |-> list[low], max |-> list[high], median |-> list[median],
                 sum |-> SumOf(list, D), count |-> Len(list), percentile |-> list[place]]
          /\ \A i \in D : list[low] <= list[i] /\ list[i] <= list[high]
          /\ Cardinality({i \in D : list[i] <= list[place]}) >= RankIn(Len(list))
          /\ Cardinality({i \in D : list[i] < list[place]}) < RankIn(Len(list))
  BY <1>3, AggregatesAre
<1>9. \A i \in D : list[i] \in Nat
  BY <1>3
<1> HIDE DEF D, list, V, k
<1>10. R!Min(V) = list[low] /\ R!Max(V) = list[high]
  BY <1>7, <1>8, <1>9 DEF R!Min, R!Max
<1>11. R!Rank = RankIn(Len(list))
  BY <1>2, <1>3, RankIs
<1>12. k + place \in R!Ranked /\ R!Values[k + place] = list[place]
  <2>1. k + place \in R!Fresh /\ R!Values[k + place] = list[place]
    BY <1>3, <1>5
  <2>2. R!AtMost(list[place]) >= R!Rank /\ R!Below(list[place]) < R!Rank
    BY <1>6, <1>8, <1>9, <1>11
  <2> QED
    BY <2>1, <2>2 DEF R!Ranked
<1>13. k + median \in R!Fresh /\ R!Values[k + median] = list[median]
  BY <1>3, <1>5
<1>14. Aggregates(list) = Rolled(k + place, k + median)
  BY <1>3, <1>4, <1>8, <1>10, <1>12, <1>13
<1>15. R!Histograms = {Rolled(p, m) : p \in R!Ranked, m \in R!Fresh}
  BY DEF R!Histograms, V
<1> HIDE DEF Rolled
<1>16. Aggregates(list) \in R!Histograms
  BY <1>12, <1>13, <1>14, <1>15
<1>17. R!Reports = R!Histograms
  BY <1>2 DEF R!Reports
<1> QED
  BY <1>16, <1>17 DEF list

-----------------------------------------------------------------------------
(* What the other metrics report *)

LEMMA NothingReported ==
    ASSUME SamplesTyped, Summary(metric), fresh = 0, kind # "Counter"
    PROVE  Reported(metric) = <<>>
<1>1. SubmittedTyped /\ R!Fresh = {} /\ NoValue = NoValue
  BY ValuesAre DEF SubmittedTyped
<1>2. Cardinality({}) = 0 /\ R!FreshValues = {}
  BY <1>1, FS_EmptySet DEF R!FreshValues
<1>3. CASE kind \in {"Raw", "Histogram"}
  <2>1. metric.list = <<>>
    BY <1>3 DEF Summary, ListKept
  <2> QED
    BY <1>3, <2>1 DEF Reported
<1>4. CASE kind = "Set"
  <2>1. metric.list \in Seq(Nat) /\ Len(metric.list) = 0
    BY <1>2, <1>4 DEF Summary, SetKept, R!FreshValues
  <2> QED
    BY <1>4, <2>1 DEF Reported
<1>5. CASE kind = "Rate"
  <2>1. Len(metric.list) < 2
    BY <1>5 DEF Summary, PairKept
  <2> QED
    BY <1>5, <2>1 DEF Reported
<1>6. CASE kind \in {"Gauge", "Count", "MonotonicCount"}
  <2>1. metric.value = NoValue
    BY <1>1, <1>6 DEF Summary, LastKeptIn, CountKept, GrowthKept
  <2> QED
    BY <1>6, <2>1 DEF Reported
<1> QED
  BY <1>3, <1>4, <1>5, <1>6 DEF Kinds, SamplesTyped

LEMMA RawReported ==
    ASSUME SamplesTyped, kind = "Raw", ListKept(metric), fresh > 0
    PROVE  metric.list = SubSeq(R!Values, Len(R!Values) - fresh + 1, Len(R!Values))
<1> DEFINE list == metric.list
           k == Size - fresh
           cut == SubSeq(R!Values, k + 1, Size)
<1>1. SubmittedTyped
  BY ValuesAre
<1>2. /\ Size \in Nat /\ fresh \in 1..Size /\ k \in Nat /\ Size - (k + 1) + 1 = fresh
      /\ Len(R!Values) = Size /\ R!Values \in Seq(Nat)
  <2>1. /\ Size \in Nat /\ fresh \in 0..Size
        /\ Len(R!Values) = Size /\ R!Values \in [1..Size -> Nat]
    BY <1>1 DEF SubmittedTyped
  <2>2. R!Values \in Seq(Nat)
    BY <2>1
  <2> QED
    BY <2>1, <2>2
<1>3. list \in Seq(Nat) /\ Len(list) = fresh /\ \A i \in 1..fresh : list[i] = R!Values[k + i]
  BY DEF ListKept
<1>4. k + 1 \in Nat /\ \A i \in 1..fresh : (k + 1) + i - 1 = k + i
  BY <1>2
<1>5. cut \in Seq(Nat) /\ Len(cut) = fresh /\ \A i \in 1..fresh : cut[i] = R!Values[k + i]
  BY <1>2, <1>4
<1> HIDE DEF list, cut
<1>6. list = cut
  BY <1>3, <1>5, SeqEqual
<1> QED
  BY <1>2, <1>6 DEF list, cut

LEMMA RateReported ==
    ASSUME SamplesTyped, kind = "Rate", PairKept(metric), fresh > 0
    PROVE  Reported(metric) = IF Len(samples) > 1 /\ R!Slope.interval > 0 /\ R!Slope.delta >= 0
                              THEN <<R!Slope>> ELSE <<>>
<1> DEFINE list == metric.list
           n == Len(list)
           before == samples[Size - 1]
           last == samples[Size]
<1>1. SubmittedTyped
  BY ValuesAre
<1>2. /\ Size \in Nat /\ fresh \in 1..Size /\ Size = Len(samples)
      /\ \A i \in 1..Size : samples[i] \in Sample
  BY <1>1 DEF SubmittedTyped, Size
<1>3. /\ list \in Seq(Sample) /\ n = fresh + (IF fresh < Size THEN 1 ELSE 0)
      /\ \A i \in 1..n : list[i] = samples[Size - n + i]
  BY DEF PairKept
<1>4. n \in Nat /\ (n < 2 <=> Size < 2)
  BY <1>2, <1>3
<1>5. Reported(metric) = IF n < 2 THEN <<>> ELSE Rate(At(list, -2), At(list, -1))
  BY DEF Reported
<1>6. CASE n < 2
  BY <1>2, <1>4, <1>5, <1>6
<1>7. CASE n >= 2
  <2>1. At(list, -2) = list[n - 1] /\ At(list, -1) = list[n]
    BY <1>4 DEF At
  <2>2. list[n - 1] = before /\ list[n] = last
    <3>1. n - 1 \in 1..n /\ n \in 1..n /\ Size - n + (n - 1) = Size - 1 /\ Size - n + n = Size
      BY <1>2, <1>4, <1>7
    <3> QED
      BY <1>3, <3>1
  <2>3. before \in Sample /\ last \in Sample
    BY <1>2, <1>4, <1>7
  <2>4. R!Slope = [delta |-> last.value - before.value, interval |-> last.time - before.time]
    BY <1>2 DEF R!Slope
  <2> HIDE DEF list, before, last
  <2>5. /\ last.value \in Nat /\ before.value \in Nat /\ last.time \in Nat /\ before.time \in Nat
    BY <2>3 DEF Sample
  <2>6. /\ R!Slope.interval > 0 <=> last.time > before.time
        /\ R!Slope.delta >= 0 <=> last.value >= before.value
    BY <2>4, <2>5
  <2>7. Rate(before, last) = IF last.time > before.time /\ last.value >= before.value
                             THEN <<R!Slope>> ELSE <<>>
    BY <2>4 DEF Rate
  <2>8. Len(samples) > 1 /\ ~(n < 2)
    BY <1>2, <1>4, <1>7
  <2> QED
    BY <1>5, <2>1, <2>2, <2>6, <2>7, <2>8
<1> QED
  BY <1>4, <1>6, <1>7

LEMMA FlushReports ==
    ASSUME RollInv, metric.exists, ~ContextExpires, Percentile \in 26..99
    PROVE  Reported(metric) \in R!Reports
<1>1. SamplesTyped /\ Summary(metric) /\ SubmittedTyped
  BY ValuesAre DEF RollInv
<1>2. kind # "Raw" => samples # <<>>
  BY DEF RollInv, ContextExpires
<1>3. fresh \in 0..Size /\ Size \in Nat /\ (fresh = 0 <=> R!Fresh = {}) /\ Len(R!Values) = Size
  BY <1>1 DEF SubmittedTyped
<1>4. R!Total = SumOf(R!Values, R!Fresh) /\ R!Grown = SumOf(R!Growth, R!Fresh)
  BY FoldIsSum DEF R!Total, R!Grown
<1>5. CASE fresh = 0 /\ kind # "Counter"
  <2>1. Reported(metric) = <<>>
    BY <1>1, <1>5, NothingReported
  <2>2. R!Reports = {<<>>}
    BY <1>5 DEF R!Reports
  <2> QED
    BY <2>1, <2>2
<1>6. CASE kind = "Counter"
  <2>1. metric.value = R!Total
    BY <1>1, <1>4, <1>6 DEF Summary, IncrementsKept
  <2>2. Reported(metric) = <<metric.value>>
    BY <1>6 DEF Reported
  <2>3. R!Reports = {<<R!Total>>}
    BY <1>2, <1>6 DEF R!Reports
  <2> QED
    BY <2>1, <2>2, <2>3
<1>7. CASE fresh # 0 /\ kind \in {"Gauge", "Count"}
  <2>1. SumOf(R!Values, R!Fresh) \in Nat /\ R!Values[Size] \in Nat /\ NoValue \notin Nat
    <3>1. R!Values \in [1..Size -> Nat] /\ Size \in 1..Size
      BY <1>1, <1>3, <1>7 DEF SubmittedTyped
    <3> QED
      BY <1>1, <3>1, SumsAreNat DEF NoValue
  <2>2. metric.value = IF kind = "Gauge" THEN R!Values[Size] ELSE R!Total
    BY <1>1, <1>4, <1>7 DEF Summary, LastKeptIn, CountKept
  <2>3. Reported(metric) = <<metric.value>>
    BY <1>4, <1>7, <2>1, <2>2 DEF Reported
  <2>4. R!Reports = {<<IF kind = "Gauge" THEN R!Values[Size] ELSE R!Total>>}
    BY <1>3, <1>7 DEF R!Reports
  <2> QED
    BY <2>2, <2>3, <2>4
<1>8. CASE fresh # 0 /\ kind = "MonotonicCount"
  <2>1. SumOf(R!Growth, R!Fresh) \in Nat /\ NoValue \notin Nat
    BY <1>1, SumsAreNat DEF NoValue
  <2>2. metric.value = IF R!Fresh \ {1} = {} THEN NoValue ELSE R!Grown
    BY <1>1, <1>4, <1>8 DEF Summary, GrowthKept
  <2>3. Reported(metric) = IF metric.value = NoValue THEN <<>> ELSE <<metric.value>>
    BY <1>8 DEF Reported
  <2>4. R!Reports = {IF R!Fresh \ {1} = {} THEN <<>> ELSE <<R!Grown>>}
    BY <1>8 DEF R!Reports
  <2> QED
    BY <1>4, <2>1, <2>2, <2>3, <2>4
<1>9. CASE fresh # 0 /\ kind = "Set"
  <2>1. metric.list \in Seq(Nat) /\ Len(metric.list) = Cardinality(R!FreshValues)
        /\ ToSet(metric.list) = R!FreshValues
    BY <1>1, <1>9 DEF Summary, SetKept, R!FreshValues
  <2>2. metric.list # <<>>
    <3>1. R!FreshValues # {}
      BY <1>3, <1>9 DEF R!FreshValues
    <3> QED
      BY <2>1, <3>1 DEF ToSet
  <2>3. Reported(metric) = <<Len(metric.list)>>
    BY <1>9, <2>2 DEF Reported
  <2>4. R!Reports = {<<Cardinality(R!FreshValues)>>}
    BY <1>9, SameCardinality DEF R!Reports
  <2> QED
    BY <2>1, <2>3, <2>4
<1>10. CASE fresh # 0 /\ kind = "Raw"
  <2>1. metric.list = SubSeq(R!Values, Len(R!Values) - fresh + 1, Len(R!Values))
    BY <1>1, <1>3, <1>10, RawReported DEF Summary
  <2>2. Reported(metric) = metric.list
    BY <1>10 DEF Reported
  <2>3. R!Reports = {SubSeq(R!Values, Len(R!Values) - fresh + 1, Len(R!Values))}
    BY <1>10 DEF R!Reports
  <2> QED
    BY <2>1, <2>2, <2>3
<1>11. CASE fresh # 0 /\ kind = "Rate"
  <2>1. Reported(metric) = IF Len(samples) > 1 /\ R!Slope.interval > 0 /\ R!Slope.delta >= 0
                           THEN <<R!Slope>> ELSE <<>>
    BY <1>1, <1>3, <1>11, RateReported DEF Summary
  <2>2. R!Reports = {IF Len(samples) > 1 /\ R!Slope.interval > 0 /\ R!Slope.delta >= 0
                     THEN <<R!Slope>> ELSE <<>>}
    BY <1>11 DEF R!Reports
  <2> QED
    BY <2>1, <2>2
<1>12. CASE fresh # 0 /\ kind = "Histogram"
  <2>1. Aggregates(metric.list) \in R!Reports
    BY <1>1, <1>3, <1>12, HistogramReported DEF Summary
  <2>2. metric.list # <<>>
    BY <1>1, <1>12 DEF Summary, ListKept
  <2>3. Reported(metric) = Aggregates(metric.list)
    BY <1>12, <2>2 DEF Reported
  <2> QED
    BY <2>1, <2>3
<1> QED
  BY <1>1, <1>5, <1>6, <1>7, <1>8, <1>9, <1>10, <1>11, <1>12 DEF SamplesTyped, Kinds

\* A flush leaves a summary of no samples.
LEMMA FlushKeeps ==
    ASSUME RollInv, FlushContext
    PROVE  /\ metric' \in MetricState /\ metric'.exists = metric.exists /\ metric'.last = metric.last
           /\ Summary(metric)'
<1> DEFINE m == metric
<1>1. /\ SamplesTyped /\ SubmittedTyped /\ Summary(m) /\ m \in MetricState
      /\ metric' = FlushedMetric(m) /\ fresh' = 0 /\ UNCHANGED <<clock, kind, samples>>
  BY ValuesAre DEF RollInv, FlushContext
<1>2. /\ Size \in Nat /\ fresh \in 0..Size /\ Size' = Size /\ R!Values' = R!Values /\ kind \in Kinds
      /\ samples \in Seq(Sample)
  BY <1>1 DEF SubmittedTyped, SamplesTyped, Size, R!Values
<1>3. R!Fresh' = {} /\ R!FreshValues' = {}
  <2>1. R!Fresh' = (Size - 0 + 1)..Size
    BY <1>1, <1>2 DEF R!Fresh, Size
  <2> QED
    BY <1>2, <2>1 DEF R!FreshValues
<1>4. /\ SumOf(R!Values', {}) = 0 /\ SumOf(R!Growth', {}) = 0 /\ SumOf(<<>>, {}) = 0
      /\ Cardinality({}) = 0 /\ <<>> \in Seq(Nat) /\ 1..0 = {} /\ Len(<<>>) = 0
  BY SumOfNone, FS_EmptySet
<1>5. NoValue \in Known /\ 0 \in Known /\ <<>> \in Seq(Nat) \cup Seq(Sample) /\ NoValue \notin Nat
  BY <1>4 DEF Known, NoValue
<1>6. CASE kind \in {"Raw", "Set", "Histogram"}
  <2>1. metric' = [m EXCEPT !.list = <<>>]
    BY <1>1, <1>6 DEF FlushedMetric
  <2>2. metric' \in MetricState /\ metric'.exists = m.exists /\ metric'.last = m.last /\ metric'.list = <<>>
    BY <1>1, <1>5, <2>1 DEF MetricState
  <2>3. ListKept(metric)'
    BY <1>1, <1>3, <1>4, <2>2 DEF ListKept
  <2>4. SetKept(metric)'
    <3>1. ToSet(<<>>) = {}
      BY DEF ToSet
    <3> QED
      BY <1>3, <1>4, <2>2, <3>1 DEF SetKept
  <2> QED
    BY <1>1, <1>6, <2>2, <2>3, <2>4 DEF Summary
<1>7. CASE kind \in {"Gauge", "Count"}
  <2>1. metric' = [m EXCEPT !.value = NoValue]
    BY <1>1, <1>7 DEF FlushedMetric
  <2>2. metric' \in MetricState /\ metric'.exists = m.exists /\ metric'.last = m.last /\ metric'.value = NoValue
    BY <1>1, <1>5, <2>1 DEF MetricState
  <2> QED
    BY <1>1, <1>7, <2>2 DEF Summary, LastKeptIn, CountKept
<1>8. CASE kind = "Counter"
  <2>1. metric' = [m EXCEPT !.value = 0]
    BY <1>1, <1>8 DEF FlushedMetric
  <2>2. metric' \in MetricState /\ metric'.exists = m.exists /\ metric'.last = m.last /\ metric'.value = 0
    BY <1>1, <1>5, <2>1 DEF MetricState
  <2> QED
    BY <1>1, <1>3, <1>4, <1>8, <2>2 DEF Summary, IncrementsKept
<1>9. CASE kind = "MonotonicCount"
  <2>1. GrowthKept(m)
    BY <1>1, <1>9 DEF Summary
  <2>2. CASE m.value = NoValue
    <3>1. metric' = m
      BY <1>1, <1>9, <2>2 DEF FlushedMetric
    <3>2. GrowthKept(metric)'
      BY <1>2, <1>3, <2>1, <2>2, <3>1 DEF GrowthKept, LastSeen
    <3> QED
      BY <1>1, <1>9, <3>1, <3>2 DEF Summary
  <2>3. CASE m.value # NoValue
    <3>1. metric' = [m EXCEPT !.prev = m.curr, !.curr = NoValue, !.value = NoValue]
      BY <1>1, <1>9, <2>3 DEF FlushedMetric
    <3>2. /\ metric' \in MetricState /\ metric'.exists = m.exists /\ metric'.last = m.last
          /\ metric'.prev = m.curr /\ metric'.curr = NoValue /\ metric'.value = NoValue
      BY <1>1, <1>5, <3>1 DEF MetricState
    <3>3. m.curr # NoValue /\ LastSeen(m) = m.curr
      BY <2>1, <2>3 DEF GrowthKept, LastSeen
    <3>4. LastSeen(metric)' = LastSeen(m)
      BY <3>2, <3>3 DEF LastSeen
    <3>5. GrowthKept(metric)'
      BY <1>2, <1>3, <2>1, <3>2, <3>4 DEF GrowthKept
    <3> QED
      BY <1>1, <1>9, <3>2, <3>5 DEF Summary
  <2> QED
    BY <2>2, <2>3
<1>10. CASE kind = "Rate"
  <2> DEFINE n == Len(m.list)
  <2>1. metric' = [m EXCEPT !.list = LastKept(m.list)]
    BY <1>1, <1>10 DEF FlushedMetric
  <2>2. /\ m.list \in Seq(Sample) /\ n = fresh + (IF fresh < Size THEN 1 ELSE 0)
        /\ \A i \in 1..n : m.list[i] = samples[Size - n + i]
    BY <1>1, <1>10 DEF Summary, PairKept
  <2>3. n \in Nat /\ (n = 0 <=> Size = 0)
    BY <1>2, <2>2
  <2>4. LastKept(m.list) = IF Size = 0 THEN <<>> ELSE <<samples[Size]>>
    <3>1. CASE n = 0
      BY <2>2, <2>3, <3>1 DEF LastKept
    <3>2. CASE n # 0
      <4>1. m.list[n] = samples[Size]
        <5>1. n \in 1..n /\ Size - n + n = Size
          BY <1>2, <2>3, <3>2
        <5> QED
          BY <2>2, <5>1
      <4>2. CASE n = 1
        <5>1. m.list = <<m.list[1]>>
          BY <2>2, <4>2
        <5> QED
          BY <2>3, <3>2, <4>1, <4>2, <5>1 DEF LastKept
      <4>3. CASE n # 1
        <5>1. Size # 0
          BY <2>3, <3>2
        <5>2. ~(n < 2)
          <6> HIDE DEF n
          <6> QED
            BY <2>3, <3>2, <4>3
        <5>3. LastKept(m.list) = <<m.list[n]>>
          BY <5>2 DEF LastKept, Last
        <5> QED
          BY <4>1, <5>1, <5>3
      <4> QED
        BY <4>2, <4>3
    <3> QED
      BY <3>1, <3>2
  <2>5. LastKept(m.list) \in Seq(Sample)
    <3>1. CASE Size = 0
      BY <2>4, <3>1
    <3>2. CASE Size # 0
      <4>1. samples[Size] \in Sample
        BY <1>2, <3>2 DEF Size
      <4> QED
        BY <2>4, <3>2, <4>1
    <3> QED
      BY <3>1, <3>2
  <2> HIDE DEF m
  <2>6. metric' \in MetricState /\ metric'.exists = m.exists /\ metric'.last = m.last
        /\ metric'.list = LastKept(m.list)
    BY <1>1, <2>1, <2>5 DEF MetricState
  <2>7. PairKept(metric)'
    <3>1. CASE Size = 0
      BY <1>1, <1>2, <2>4, <2>5, <2>6, <3>1 DEF PairKept
    <3>2. CASE Size # 0
      <4>1. metric'.list = <<samples[Size]>> /\ Len(metric'.list) = 1 /\ 0 < Size
        BY <1>2, <2>4, <2>6, <3>2
      <4>2. Size - 1 + 1 = Size /\ metric'.list[1] = samples[Size]
        BY <1>2, <4>1
      <4> QED
        BY <1>1, <1>2, <2>5, <2>6, <4>1, <4>2 DEF PairKept
    <3> QED
      BY <3>1, <3>2
  <2> QED
    BY <1>1, <1>10, <2>6, <2>7 DEF Summary, m
<1> QED
  BY <1>2, <1>6, <1>7, <1>8, <1>9, <1>10 DEF Kinds

LEMMA SubmitKeeps ==
    ASSUME RollInv, NEW v \in Nat, SubmitValue(v)
    PROVE  RollInv'
<1>1. /\ SamplesTyped /\ Existing \in MetricState /\ Existing.exists /\ Summary(Existing) /\ kind \in Kinds
      /\ clock \in Nat /\ kind' = kind
  BY ExistingKept DEF RollInv, SamplesTyped, SubmitValue
<1>2. /\ SamplesTyped' /\ Size' = Size + 1 /\ samples' # <<>>
      /\ samples'[Size + 1] = [value |-> v, time |-> clock]
  BY <1>1, SubmitSamples
<1>3. /\ metric'.exists /\ metric'.last = clock
      /\ kind \in {"Raw", "Histogram"} => metric'.list = Append(Existing.list, v)
      /\ kind = "Set" => metric'.list = WithUnique(Existing.list, v)
      /\ kind = "Rate" =>
            metric'.list = Append(Existing.list, [value |-> v, time |-> clock])
      /\ kind = "Gauge" => metric'.value = v
      /\ kind \in {"Count", "Counter"} => metric'.value = OrZero(Existing.value) + v
      /\ kind = "MonotonicCount" =>
            /\ metric'.prev = LastSeen(Existing) /\ metric'.curr = v
            /\ metric'.value = IF LastSeen(Existing) = NoValue THEN Existing.value
                               ELSE OrZero(Existing.value) + Positive(v - LastSeen(Existing))
  BY <1>1, SampledFields
<1>4. Summary(metric)'
  <2>1. kind \in {"Raw", "Histogram"} => ListKept(metric)'
    BY <1>1, <1>3, ListSubmit DEF Summary
  <2>2. kind = "Gauge" => LastKeptIn(metric)'
    BY <1>1, <1>3, ValueSubmit DEF Summary
  <2>3. kind = "Count" => CountKept(metric)'
    BY <1>1, <1>3, ValueSubmit DEF Summary
  <2>4. kind = "Counter" => IncrementsKept(metric)'
    BY <1>1, <1>3, ValueSubmit DEF Summary
  <2>5. kind = "MonotonicCount" => GrowthKept(metric)'
    BY <1>1, <1>3, GrowthSubmit DEF Summary
  <2>6. kind = "Set" => SetKept(metric)'
    BY <1>1, <1>3, SetSubmit DEF Summary
  <2>7. kind = "Rate" => PairKept(metric)'
    BY <1>1, <1>3, PairSubmit DEF Summary
  <2> QED
    BY <1>1, <2>1, <2>2, <2>3, <2>4, <2>5, <2>6, <2>7 DEF Summary
<1>5. metric' \in MetricState
  <2> DEFINE old == Existing
             value == metric'.value
             prev == metric'.prev
             curr == metric'.curr
             list == metric'.list
  <2>1. metric' = [exists |-> metric'.exists, value |-> value, prev |-> prev, curr |-> curr,
                   list |-> list, last |-> metric'.last]
    BY <1>1, SampledFields
  <2>2. /\ old.value \in Known /\ old.prev \in Known /\ old.curr \in Known
        /\ old.list \in Seq(Nat) \cup Seq(Sample)
    BY <1>1 DEF MetricState
  <2>3. v \in Known /\ LastSeen(old) \in Known /\ clock \in Known /\ metric'.exists \in BOOLEAN
    BY <1>1, <1>3, <2>2, SampledFields DEF LastSeen, Known, MetricState
  <2>4. prev \in Known /\ curr \in Known
    BY <1>1, <1>3, <2>2, <2>3, SampledFields
  <2>5. OrZero(old.value) \in Nat
    BY <2>2 DEF OrZero, Known
  <2>6. LastSeen(old) # NoValue => Positive(v - LastSeen(old)) \in Nat
    <3>1. LastSeen(old) # NoValue => LastSeen(old) \in Nat
      BY <2>3 DEF Known
    <3> QED
      BY <3>1 DEF Positive
  <2>7. value \in Known
    <3>1. CASE kind = "MonotonicCount"
      <4>1. CASE LastSeen(old) = NoValue
        BY <1>3, <2>2, <3>1, <4>1
      <4>2. CASE LastSeen(old) # NoValue
        <5>1. value = OrZero(old.value) + Positive(v - LastSeen(old))
          BY <1>3, <3>1, <4>2
        <5>2. value \in Nat
          BY <2>5, <2>6, <4>2, <5>1
        <5> QED
          BY <5>2 DEF Known
      <4> QED
        BY <4>1, <4>2
    <3>2. CASE kind \in {"Count", "Counter"}
      <4>1. value \in Nat
        BY <1>3, <2>5, <3>2
      <4> QED
        BY <4>1 DEF Known
    <3>3. CASE kind \notin {"MonotonicCount", "Count", "Counter"}
      BY <1>1, <1>3, <2>2, <2>3, <3>3, SampledFields
    <3> QED
      BY <3>1, <3>2, <3>3
  <2>8. list \in Seq(Nat) \cup Seq(Sample)
    <3>1. CASE kind \in {"Raw", "Histogram", "Set", "Rate"}
      BY <1>1, <1>4, <3>1 DEF Summary, ListKept, SetKept, PairKept
    <3>2. CASE kind \notin {"Raw", "Histogram", "Set", "Rate"}
      <4>1. kind \in {"Gauge", "Count", "Counter", "MonotonicCount"}
        BY <1>1, <3>2 DEF Kinds
      <4> QED
        BY <1>1, <2>2, <4>1, SampledFields
    <3> QED
      BY <3>1, <3>2
  <2> HIDE DEF value, prev, curr, list
  <2>9. metric'.last \in Known
    BY <1>3, <2>3
  <2> QED
    BY <2>1, <2>3, <2>4, <2>7, <2>8, <2>9 DEF MetricState
<1>6. metric'.last = samples'[Size'].time
  BY <1>2, <1>3
<1> QED
  BY <1>2, <1>3, <1>4, <1>5, <1>6 DEF RollInv

\* A step that leaves the samples alone leaves the summary right.
LEMMA SummaryStays ==
    ASSUME NEW m, UNCHANGED <<kind, samples, fresh>>, Summary(m), metric' = m
    PROVE  Summary(metric)'
<1>1. UNCHANGED <<kind, Size, fresh, samples, R!Values, R!Fresh, R!Growth>>
  BY DEF Size, R!Values, R!Fresh, R!Growth
<1> QED
  BY <1>1 DEF Summary, ListKept, LastKeptIn, CountKept, IncrementsKept, GrowthKept, SetKept, PairKept,
              LastSeen

\* Each step of the aggregator is one of Rollup, or none, and keeps the summary right.
LEMMA RollStep ==
    ASSUME RollInv, [MetricsNext]_metricsVars, Percentile \in 26..99
    PROVE  RollInv' /\ [R!Next]_(R!vars)
<1> USE DEF R!Next, R!vars
<1>1. ASSUME NEW v \in Inputs, SubmitValue(v)
      PROVE  RollInv' /\ [R!Next]_(R!vars)
  <2>1. v \in Nat
    BY <1>1, MetricsAssumption
  <2>2. R!Submit(v)
    BY <1>1 DEF SubmitValue, R!Submit
  <2> QED
    BY <1>1, <2>1, <2>2, SubmitKeeps
<1>2. CASE SubmitOldValue
  <2>1. /\ Existing \in MetricState /\ Existing.exists /\ Summary(Existing) /\ Existing.last = metric.last
        /\ metric' = Existing /\ UNCHANGED <<clock, kind, samples, fresh, report>>
    BY <1>2, ExistingKept DEF SubmitOldValue
  <2>2. Summary(metric)'
    BY <2>1, SummaryStays
  <2>3. SamplesTyped' /\ Size' = Size
    BY <2>1 DEF RollInv, SamplesTyped, Size
  <2> QED
    BY <2>1, <2>2, <2>3 DEF RollInv
<1>3. CASE FlushContext
  <2>1. /\ metric' \in MetricState /\ metric'.exists = metric.exists /\ metric'.last = metric.last
        /\ Summary(metric)' /\ metric.exists
    BY <1>3, FlushKeeps DEF FlushContext
  <2>2. report' = Reported(metric) /\ fresh' = 0 /\ UNCHANGED <<clock, kind, samples>>
    BY <1>3 DEF FlushContext
  <2>3. Reported(metric) \in R!Reports
    BY <1>3, FlushReports DEF FlushContext
  <2>4. R!Flush
    BY <2>2, <2>3 DEF R!Flush
  <2>5. SamplesTyped' /\ Size' = Size
    BY <2>2 DEF RollInv, SamplesTyped, Size
  <2>6. RollInv'
    BY <2>1, <2>2, <2>5 DEF RollInv
  <2> QED
    BY <2>4, <2>6
<1>4. CASE FlushNoMetric
  <2>1. /\ samples = <<>> /\ fresh = 0 /\ report' = <<>>
        /\ UNCHANGED <<clock, kind, metric, samples, fresh>>
    BY <1>4 DEF FlushNoMetric, RollInv, SamplesTyped, Size
  <2>2. R!Reports = {<<>>}
    BY <2>1 DEF R!Reports
  <2>3. R!Flush
    BY <2>1, <2>2 DEF R!Flush
  <2>4. RollInv'
    BY <1>4, <2>1 DEF RollInv, SamplesTyped, Size, FlushNoMetric
  <2> QED
    BY <2>3, <2>4
<1>5. CASE Expire
  <2>1. /\ metric' = NoMetric /\ samples' = <<>> /\ fresh' = 0 /\ report' = <<>>
        /\ UNCHANGED <<clock, kind>> /\ ContextExpires
    BY <1>5 DEF Expire
  <2>2. RollInv'
    <3>1. /\ NoMetric \in MetricState /\ ~NoMetric.exists /\ NoMetric.last = NoValue
      <4>1. NoValue \in Known /\ <<>> \in Seq(Nat) \cup Seq(Sample)
        BY EmptySeq DEF Known
      <4> QED
        BY <4>1 DEF NoMetric, MetricState
    <3>2. SamplesTyped'
      BY <2>1 DEF RollInv, SamplesTyped, Size
    <3> HIDE DEF NoMetric
    <3> QED
      BY <2>1, <3>1, <3>2 DEF RollInv
  <2>3. CASE samples = <<>>
    <3>1. fresh = 0
      BY <2>3 DEF RollInv, SamplesTyped, Size
    <3>2. R!Reports = {<<>>}
      BY <2>3, <3>1 DEF R!Reports
    <3>3. R!Flush
      BY <2>1, <2>3, <3>2 DEF R!Flush
    <3> QED
      BY <2>2, <3>3
  <2>4. CASE samples # <<>>
    <3>1. metric.last = samples[Len(samples)].time /\ metric.last \in Nat
      <4>1. metric.last = samples[Size].time
        BY <2>4 DEF RollInv
      <4>2. samples[Size] \in Sample
        BY <2>4 DEF RollInv, SamplesTyped, Size
      <4> QED
        BY <4>1, <4>2 DEF Size, Sample
    <3>2. samples[Len(samples)].time < clock - MetricExpiry
      BY <2>1, <3>1 DEF ContextExpires, NoValue
    <3>3. R!Forget
      BY <2>1, <2>4, <3>2 DEF R!Forget
    <3> QED
      BY <2>2, <3>3
  <2> QED
    BY <2>3, <2>4
<1>6. CASE MetricsTick
  <2>1. clock' = clock + 1 /\ UNCHANGED <<kind, metric, samples, fresh, report>>
    BY <1>6 DEF MetricsTick
  <2>2. R!Tick
    BY <2>1 DEF R!Tick
  <2>3. metric.exists => Summary(metric)'
    BY <2>1, SummaryStays DEF RollInv
  <2>4. SamplesTyped' /\ Size' = Size
    BY <2>1 DEF RollInv, SamplesTyped, Size
  <2>5. RollInv'
    BY <2>1, <2>3, <2>4 DEF RollInv
  <2> QED
    BY <2>2, <2>5
<1>7. CASE UNCHANGED metricsVars
  <2>1. UNCHANGED <<clock, kind, metric, samples, fresh, report>>
    BY <1>7 DEF metricsVars
  <2>2. metric.exists => Summary(metric)'
    BY <2>1, SummaryStays DEF RollInv
  <2>3. SamplesTyped' /\ Size' = Size
    BY <2>1 DEF RollInv, SamplesTyped, Size
  <2> QED
    BY <2>1, <2>2, <2>3 DEF RollInv
<1> QED
  BY <1>1, <1>2, <1>3, <1>4, <1>5, <1>6, <1>7 DEF MetricsNext

LEMMA RollInitially == MetricsInit => RollInv /\ R!Init
<1> SUFFICES ASSUME MetricsInit PROVE RollInv /\ R!Init
  OBVIOUS
<1>1. NoMetric \in MetricState /\ ~NoMetric.exists /\ NoMetric.last = NoValue
  <2>1. NoValue \in Known /\ <<>> \in Seq(Nat) \cup Seq(Sample)
    BY EmptySeq DEF Known
  <2> QED
    BY <2>1 DEF NoMetric, MetricState
<1>2. clock = 0 /\ kind \in Kinds /\ metric = NoMetric /\ samples = <<>> /\ fresh = 0 /\ report = <<>>
  BY DEF MetricsInit
<1>3. SamplesTyped
  BY <1>2 DEF SamplesTyped, Size
<1> QED
  BY <1>1, <1>2, <1>3 DEF RollInv, R!Init

\* What a flush reports is what the samples since the flush before add up to, and a
\* metric is forgotten only when nothing was submitted for expiry_seconds: the
\* aggregator implements Rollup, for percentiles above 25 (below, the place it looks
\* up may be -1, which Python takes from the end).
THEOREM RollupImplemented ==
    ASSUME Percentile \in 26..99
    PROVE  MetricsSpec => ImplementsRollup
<1>1. MetricsInit => RollInv /\ R!Init
  BY RollInitially
<1>2. RollInv /\ [MetricsNext]_metricsVars => RollInv' /\ [R!Next]_(R!vars)
  BY RollStep
<1> QED
  BY <1>1, <1>2, PTL DEF MetricsSpec, ImplementsRollup, R!Spec
=============================================================================
