---- MODULE WmiSampler ----
(***************************************************************************)
(* A WMI check that samples a performance class (checks/wmi_check.py,      *)
(* checks/libs/wmi/sampler.py).  Every query runs in a thread of its own   *)
(* that utils/timeout.py starts: a query that takes too long is abandoned  *)
(* by the check and not by its thread, and the next call with the same     *)
(* arguments joins that thread instead of starting another.                *)
(* A sampler is used by the collector thread alone, so one call at a time  *)
(* waits; names and filters of the query are left out.                     *)
(***************************************************************************)
EXTENDS Integers, Sequences

CONSTANTS
    WmiObjects,  \* objects that the WMI class may have, e.g. disks
    IsRaw,       \* the class holds raw counters (_PERFRAWDATA_)
    CounterKind, \* how the counter is calculated: from the "interval" between the
                 \* samples, or "raw"
    TagBy,       \* the instance has a tag_by property
    MaxQueries   \* bound on the clock: each query that answers is a tick

ASSUME WmiAssumption ==
    /\ IsRaw \in BOOLEAN /\ TagBy \in BOOLEAN
    /\ CounterKind \in {"interval", "raw"}
    /\ MaxQueries \in Nat

VARIABLES
    world,      \* the objects of the class, in the order of enumeration
    clock,      \* Timestamp_Sys100NS of the last query
    types,      \* _property_counter_types: "unset", "empty" or "known"
    worker,     \* the thread in _thread_by_func, or NoWorker
    previous, current, sampling,  \* the samples and the flag of the sampler
    caller,     \* what the check is doing
    reported,   \* the metrics of the last extraction
    extracted   \* history: time of the last sample that was extracted

wmiVars == <<world, clock, types, worker, previous, current, sampling, caller, reported, extracted>>

\* None until a query has answered; an answer has a time, and objects or none.
NoSample == [at |-> 0, objects |-> <<>>]
Taken(s) == s # NoSample
Empty(s) == s.objects = <<>>
NoWorker == [state |-> "none", result |-> NoSample]
QueryRunning == [state |-> "running", result |-> NoSample]

Worlds == {<<>>} \union {<<o>> : o \in WmiObjects}
          \union {s \in WmiObjects \X WmiObjects : s[1] # s[2]}

WmiInit ==
    /\ world \in Worlds
    /\ clock = 0
    /\ types = "unset"
    /\ worker = NoWorker
    /\ previous = NoSample /\ current = NoSample
    /\ sampling = FALSE
    /\ caller = "idle"
    /\ reported = {}
    /\ extracted = 0

(***************************************************************************)
(* utils/timeout.py                                                        *)
(***************************************************************************)
\* A call joins the thread of an equal call that has not been collected, or
\* starts one.
CallQuery == worker' = IF worker.state = "none" THEN QueryRunning ELSE worker

\* The call that found the thread ended forgets it.
\* Mutant: the thread stays in _thread_by_func after its result is returned.
KeepThread == worker' = worker
Forget == worker' = NoWorker

(***************************************************************************)
(* The thread: WMISampler._query()                                         *)
(***************************************************************************)
\* The first query of a raw class asks for the qualifiers of the properties.
IncludesQualifiers == IsRaw /\ types = "unset"
TypesAfter(objs) ==
    IF IncludesQualifiers THEN (IF objs = <<>> THEN "empty" ELSE "known") ELSE types

Done(objs) ==
    /\ worker.state = "running"
    /\ clock < MaxQueries
    /\ clock' = clock + 1
    /\ worker' = [state |-> "done", result |-> [at |-> clock + 1, objects |-> objs]]
    /\ types' = TypesAfter(objs)
    /\ UNCHANGED <<world, previous, current, sampling, caller, reported, extracted>>

QueryAnswers == Done(world)
\* A com_error is logged and gives no objects.
QueryComError == Done(<<>>)
\* Any other exception is kept for the thread that collects the result.
QueryRaises ==
    /\ worker.state = "running"
    /\ worker' = [state |-> "failed", result |-> NoSample]
    /\ types' = TypesAfter(<<>>)
    /\ UNCHANGED <<world, clock, previous, current, sampling, caller, reported, extracted>>

(***************************************************************************)
(* The check: WMISampler.sample() and WinWMICheck._extract_metrics()       *)
(***************************************************************************)
\* A raw class needs a previous sample, taken by a query of its own.
NeedsFirst == IsRaw /\ Empty(previous)

SampleFirst ==
    /\ caller = "idle" /\ NeedsFirst
    /\ sampling' = TRUE
    /\ CallQuery
    /\ caller' = "first"
    /\ UNCHANGED <<world, clock, types, previous, current, reported, extracted>>

\* The current sample becomes the previous one before the query is made.
Sample ==
    /\ caller = "idle" /\ ~NeedsFirst
    /\ sampling' = TRUE
    /\ previous' = current
    /\ CallQuery
    /\ caller' = "second"
    /\ UNCHANGED <<world, clock, types, current, reported, extracted>>

FirstReturns ==
    /\ caller = "first" /\ worker.state = "done"
    /\ current' = worker.result
    /\ previous' = worker.result
    /\ worker' = QueryRunning
    /\ caller' = "second"
    /\ UNCHANGED <<world, clock, types, sampling, reported, extracted>>

SecondReturns ==
    /\ caller = "second" /\ worker.state = "done"
    /\ current' = worker.result
    /\ sampling' = FALSE
    /\ Forget
    /\ caller' = "extract"
    /\ UNCHANGED <<world, clock, types, previous, reported, extracted>>

\* join() gave up on a thread that is alive: the sampler stays in sampling.
TimesOut ==
    /\ caller \in {"first", "second"} /\ worker.state = "running"
    /\ caller' = "idle"
    /\ UNCHANGED <<world, clock, types, worker, previous, current, sampling, reported, extracted>>

WmiCallRaises ==
    /\ caller \in {"first", "second"} /\ worker.state = "failed"
    /\ Forget
    /\ caller' = "idle"
    /\ UNCHANGED <<world, clock, types, previous, current, sampling, reported, extracted>>

\* The calculator of the counter type that the qualifiers told.
Calculated == types = "known" /\ CounterKind = "interval"

\* The values of the objects at place i of both samples, whether or not they are
\* the same object.
Format(i) == [object |-> current.objects[i], basis |-> previous.objects[i],
              from |-> previous.at, to |-> current.at, rate |-> Calculated]
\* Objects are paired by their places, up to the end of the shorter sample.
Pairs == {Format(i) : i \in DOMAIN previous.objects \cap DOMAIN current.objects}
Plain == {[object |-> o, basis |-> o, from |-> current.at, to |-> current.at, rate |-> FALSE]
          : o \in {current.objects[i] : i \in 1..Len(current.objects)}}

Extract ==
    /\ caller = "extract" /\ ~sampling
    /\ Len(current.objects) <= 1 \/ TagBy
    /\ reported' = IF IsRaw THEN Pairs ELSE Plain
    /\ extracted' = current.at
    /\ caller' = "idle"
    /\ UNCHANGED <<world, clock, types, worker, previous, current, sampling>>

\* MissingTagBy, or an exception of the query of a tag.
ExtractRaises ==
    /\ caller = "extract"
    /\ caller' = "idle"
    /\ UNCHANGED <<world, clock, types, worker, previous, current, sampling, reported, extracted>>

\* Objects appear, disappear or are enumerated in another order.
WorldChanges ==
    /\ clock < MaxQueries
    /\ world' \in Worlds \ {world}
    /\ UNCHANGED <<clock, types, worker, previous, current, sampling, caller, reported, extracted>>

WmiNext ==
    \/ WorldChanges \/ QueryAnswers \/ QueryComError \/ QueryRaises
    \/ SampleFirst \/ Sample \/ FirstReturns \/ SecondReturns \/ TimesOut \/ WmiCallRaises
    \/ Extract \/ ExtractRaises

WmiSpec == WmiInit /\ [][WmiNext]_wmiVars

----
\* No data is extracted twice, however queries and time-outs fell, and a rate is
\* computed over an interval that begins before it ends: the sampler never
\* divides by an empty interval, nor pairs a late answer with an earlier one.
SamplesAdvance ==
    /\ caller = "extract" =>
        /\ Taken(current) /\ extracted < current.at
        /\ IsRaw => Taken(previous) /\ previous.at < current.at
    /\ \A m \in reported : m.rate => m.from < m.to
====
