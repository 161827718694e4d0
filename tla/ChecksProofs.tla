----------------------------- MODULE ChecksProofs ------------------------------
(***************************************************************************)
(* Theorems about components of the checks and of what they are given:      *)
(* WmiSampler, for any objects and any number of queries; ContainerTags,    *)
(* for any containers and any number of events; KubeServices, for any pods  *)
(* and services; JmxFetch, for any checks and templates; StoreClients, for  *)
(* any templates and any number of writes; CheckLoading, for any names,     *)
(* places and contents of the disk; UcmdbDump, for any dump; LogTail, for   *)
(* any number of lines, rotations, truncations and checks; CheckRun, for    *)
(* any topologies, calls and failures.                                      *)
(***************************************************************************)
EXTENDS WmiSampler, ContainerTags, KubeServices, JmxFetch, StoreClients, CheckLoading,
        UcmdbDump, LogTail, CheckRun, FiniteSetTheorems, SequenceTheorems, WellFoundedInduction, TLAPS

-----------------------------------------------------------------------------
(* WmiSampler *)

Samples == {s \in [at : Nat, objects : Seq(WmiObjects)] : s.at = 0 => s = NoSample}

\* Every sample has a time, or is the one that was never taken.
SampleType ==
    /\ world \in Seq(WmiObjects)
    /\ clock \in Nat /\ extracted \in Nat
    /\ previous \in Samples /\ current \in Samples
    /\ worker \in [state : {"none", "running", "done", "failed"}, result : Samples]
    /\ types \in {"unset", "empty", "known"}
    /\ caller \in {"idle", "first", "second", "extract"}

\* The samples are ordered, and the answer that a thread holds is later than both,
\* whether the call that started the thread still waits or has given up.
Ordered ==
    /\ extracted <= current.at
    /\ previous.at <= current.at
    /\ current.at <= clock
    /\ worker.state = "done" => current.at < worker.result.at /\ worker.result.at <= clock

\* What a call that returns will find: a raw class has a previous sample by then.
Prepared ==
    /\ caller = "second" /\ IsRaw => Taken(previous)
    /\ types = "known" => IsRaw

SamplerInvariant == SampleType /\ Ordered /\ Prepared /\ SamplesAdvance

LEMMA WorldsAreSequences == Worlds \subseteq Seq(WmiObjects)
<1>1. <<>> \in Seq(WmiObjects)
  OBVIOUS
<1>2. \A o \in WmiObjects : <<o>> \in Seq(WmiObjects)
  OBVIOUS
<1>3. \A o, p \in WmiObjects : <<o, p>> \in Seq(WmiObjects)
  OBVIOUS
<1>4. ASSUME NEW s \in WmiObjects \X WmiObjects PROVE s \in Seq(WmiObjects)
  <2>1. s = <<s[1], s[2]>> /\ s[1] \in WmiObjects /\ s[2] \in WmiObjects
    OBVIOUS
  <2> QED
    BY <1>3, <2>1
<1> QED
  BY <1>1, <1>2, <1>4 DEF Worlds

LEMMA EmptySample == NoSample \in Samples /\ NoSample.at = 0 /\ NoSample.objects = <<>>
  BY DEF NoSample, Samples

LEMMA TakenHasTime ==
    ASSUME NEW s \in Samples
    PROVE  /\ s.at \in Nat /\ s.objects \in Seq(WmiObjects)
           /\ Taken(s) <=> s.at > 0
           /\ ~Empty(s) => Taken(s)
<1>1. s.at \in Nat /\ s.objects \in Seq(WmiObjects) /\ (s.at = 0 => s = NoSample)
  BY DEF Samples
<1> QED
  BY <1>1, EmptySample DEF Taken, Empty

LEMMA Threads ==
    /\ NoWorker \in [state : {"none", "running", "done", "failed"}, result : Samples]
    /\ QueryRunning \in [state : {"none", "running", "done", "failed"}, result : Samples]
    /\ NoWorker.state = "none" /\ QueryRunning.state = "running"
  BY EmptySample DEF NoWorker, QueryRunning

LEMMA InitSamples == WmiInit => SamplerInvariant
<1> SUFFICES ASSUME WmiInit PROVE SamplerInvariant
  OBVIOUS
<1>1. SampleType
  BY EmptySample, Threads, WorldsAreSequences DEF WmiInit, SampleType
<1>2. Ordered
  BY EmptySample, Threads DEF WmiInit, Ordered
<1>3. Prepared /\ SamplesAdvance
  BY DEF WmiInit, Prepared, SamplesAdvance
<1> QED
  BY <1>1, <1>2, <1>3 DEF SamplerInvariant

\* A thread that ends keeps the samples of the sampler and has a later time.
LEMMA DoneOrdered ==
    ASSUME SamplerInvariant, NEW objs \in Seq(WmiObjects), Done(objs)
    PROVE  SamplerInvariant'
<1> USE WmiAssumption
<1>1. /\ clock' = clock + 1 /\ clock \in Nat
      /\ worker' = [state |-> "done", result |-> [at |-> clock + 1, objects |-> objs]]
      /\ types' = TypesAfter(objs)
      /\ UNCHANGED <<world, previous, current, sampling, caller, reported, extracted>>
  BY DEF SamplerInvariant, SampleType, Done
<1>2. [at |-> clock + 1, objects |-> objs] \in Samples
  BY <1>1 DEF Samples
<1>3. types' \in {"unset", "empty", "known"} /\ (types' = "known" => IsRaw)
  BY <1>1 DEF TypesAfter, IncludesQualifiers, SamplerInvariant, SampleType, Prepared
<1>4. SampleType'
  BY <1>1, <1>2, <1>3 DEF SamplerInvariant, SampleType
<1>5. current.at \in Nat
  BY TakenHasTime DEF SamplerInvariant, SampleType
<1>6. Ordered'
  BY <1>1, <1>5 DEF SamplerInvariant, Ordered
<1>7. Prepared' /\ SamplesAdvance'
  BY <1>1, <1>3 DEF SamplerInvariant, Prepared, SamplesAdvance, Taken
<1> QED
  BY <1>4, <1>6, <1>7 DEF SamplerInvariant

LEMMA RaisesOrdered == SamplerInvariant /\ QueryRaises => SamplerInvariant'
<1> SUFFICES ASSUME SamplerInvariant, QueryRaises PROVE SamplerInvariant'
  OBVIOUS
<1>1. /\ worker' = [state |-> "failed", result |-> NoSample]
      /\ types' = TypesAfter(<<>>)
      /\ UNCHANGED <<world, clock, previous, current, sampling, caller, reported, extracted>>
  BY DEF QueryRaises
<1>2. types' \in {"unset", "empty", "known"} /\ (types' = "known" => IsRaw)
  BY <1>1 DEF TypesAfter, IncludesQualifiers, SamplerInvariant, SampleType, Prepared
<1>3. SampleType'
  BY <1>1, <1>2, EmptySample DEF SamplerInvariant, SampleType
<1>4. Ordered'
  BY <1>1 DEF SamplerInvariant, Ordered
<1>5. Prepared' /\ SamplesAdvance'
  BY <1>1, <1>2 DEF SamplerInvariant, Prepared, SamplesAdvance, Taken
<1> QED
  BY <1>3, <1>4, <1>5 DEF SamplerInvariant

\* A call joins a thread that may have ended long ago, or starts one.
LEMMA CallType ==
    ASSUME SamplerInvariant, CallQuery
    PROVE  /\ worker' \in [state : {"none", "running", "done", "failed"}, result : Samples]
           /\ worker'.state = "done" => worker' = worker
  BY Threads DEF SamplerInvariant, SampleType, CallQuery, QueryRunning

LEMMA FirstOrdered == SamplerInvariant /\ SampleFirst => SamplerInvariant'
<1> SUFFICES ASSUME SamplerInvariant, SampleFirst PROVE SamplerInvariant'
  OBVIOUS
<1>1. /\ caller' = "first" /\ CallQuery
      /\ UNCHANGED <<world, clock, types, previous, current, reported, extracted>>
  BY DEF SampleFirst
<1>2. SampleType'
  BY <1>1, CallType DEF SamplerInvariant, SampleType
<1>3. Ordered'
  BY <1>1, CallType DEF SamplerInvariant, Ordered
<1>4. Prepared' /\ SamplesAdvance'
  BY <1>1 DEF SamplerInvariant, Prepared, SamplesAdvance
<1> QED
  BY <1>2, <1>3, <1>4 DEF SamplerInvariant

LEMMA SampleOrdered == SamplerInvariant /\ Sample => SamplerInvariant'
<1> SUFFICES ASSUME SamplerInvariant, Sample PROVE SamplerInvariant'
  OBVIOUS
<1>1. /\ caller' = "second" /\ CallQuery /\ previous' = current
      /\ ~NeedsFirst
      /\ UNCHANGED <<world, clock, types, current, reported, extracted>>
  BY DEF Sample
<1>2. SampleType'
  BY <1>1, CallType DEF SamplerInvariant, SampleType
<1>3. previous.at \in Nat /\ current.at \in Nat
  BY TakenHasTime DEF SamplerInvariant, SampleType
<1>4. Ordered'
  BY <1>1, <1>3, CallType DEF SamplerInvariant, Ordered
<1>5. IsRaw => Taken(current)
  <2>1. ASSUME IsRaw PROVE Taken(current)
    <3>1. previous.at > 0
      BY <1>1, <2>1, TakenHasTime DEF NeedsFirst, SamplerInvariant, SampleType
    <3>2. current.at > 0
      BY <3>1, <1>3 DEF SamplerInvariant, Ordered
    <3> QED
      BY <3>2, TakenHasTime DEF SamplerInvariant, SampleType
  <2> QED
    BY <2>1
<1>6. Prepared' /\ SamplesAdvance'
  BY <1>1, <1>5 DEF SamplerInvariant, Prepared, SamplesAdvance, Taken
<1> QED
  BY <1>2, <1>4, <1>6 DEF SamplerInvariant

\* The answer a call collects is later than the current sample.
LEMMA AnswerIsLater ==
    ASSUME SamplerInvariant, worker.state = "done"
    PROVE  /\ worker.result \in Samples /\ worker.result.at \in Nat
           /\ current.at \in Nat /\ previous.at \in Nat
           /\ current.at < worker.result.at /\ worker.result.at <= clock
           /\ Taken(worker.result)
<1>1. worker.result \in Samples /\ current \in Samples /\ previous \in Samples
  BY DEF SamplerInvariant, SampleType
<1>2. current.at < worker.result.at /\ worker.result.at <= clock
  BY DEF SamplerInvariant, Ordered
<1>3. worker.result.at > 0
  BY <1>1, <1>2, TakenHasTime
<1> QED
  BY <1>1, <1>2, <1>3, TakenHasTime

LEMMA FirstReturnsOrdered == SamplerInvariant /\ FirstReturns => SamplerInvariant'
<1> SUFFICES ASSUME SamplerInvariant, FirstReturns PROVE SamplerInvariant'
  OBVIOUS
<1>1. /\ worker.state = "done"
      /\ current' = worker.result /\ previous' = worker.result
      /\ worker' = QueryRunning /\ caller' = "second"
      /\ UNCHANGED <<world, clock, types, reported, extracted>>
  BY DEF FirstReturns
<1>2. SampleType'
  BY <1>1, Threads, AnswerIsLater DEF SamplerInvariant, SampleType
<1>3. Ordered'
  <2>1. extracted <= current.at /\ extracted \in Nat /\ clock \in Nat
    BY DEF SamplerInvariant, SampleType, Ordered
  <2>2. worker'.state # "done"
    BY <1>1, Threads
  <2> QED
    BY <1>1, <2>1, <2>2, AnswerIsLater DEF Ordered
<1>4. Prepared' /\ SamplesAdvance'
  BY <1>1, AnswerIsLater DEF SamplerInvariant, Prepared, SamplesAdvance, Taken
<1> QED
  BY <1>2, <1>3, <1>4 DEF SamplerInvariant

LEMMA SecondReturnsOrdered == SamplerInvariant /\ SecondReturns => SamplerInvariant'
<1> SUFFICES ASSUME SamplerInvariant, SecondReturns PROVE SamplerInvariant'
  OBVIOUS
<1>1. /\ caller = "second" /\ worker.state = "done"
      /\ current' = worker.result
      /\ worker' = NoWorker /\ caller' = "extract"
      /\ UNCHANGED <<world, clock, types, previous, reported, extracted>>
  BY DEF SecondReturns, Forget
<1>2. SampleType'
  BY <1>1, Threads, AnswerIsLater DEF SamplerInvariant, SampleType
<1>3. extracted < worker.result.at /\ previous.at < worker.result.at
  <2>1. extracted <= current.at /\ previous.at <= current.at /\ extracted \in Nat
    BY DEF SamplerInvariant, SampleType, Ordered
  <2> QED
    BY <1>1, <2>1, AnswerIsLater
<1>4. Ordered'
  <2>1. worker'.state # "done" /\ extracted \in Nat /\ clock \in Nat
    BY <1>1, Threads DEF SamplerInvariant, SampleType
  <2>2. extracted <= worker.result.at /\ previous.at <= worker.result.at
    BY <1>1, <1>3, <2>1, AnswerIsLater
  <2> QED
    BY <1>1, <2>1, <2>2, AnswerIsLater DEF Ordered
<1>5. Prepared'
  BY <1>1 DEF SamplerInvariant, Prepared
<1>6. SamplesAdvance'
  BY <1>1, <1>3, AnswerIsLater DEF SamplerInvariant, Prepared, SamplesAdvance, Taken
<1> QED
  BY <1>2, <1>4, <1>5, <1>6 DEF SamplerInvariant

\* A call that gives up or raises changes neither sample.
LEMMA GivesUpOrdered == SamplerInvariant /\ (TimesOut \/ WmiCallRaises \/ ExtractRaises) => SamplerInvariant'
<1> SUFFICES ASSUME SamplerInvariant, TimesOut \/ WmiCallRaises \/ ExtractRaises PROVE SamplerInvariant'
  OBVIOUS
<1>1. /\ caller' = "idle" /\ (worker' = worker \/ worker' = NoWorker)
      /\ UNCHANGED <<world, clock, types, previous, current, reported, extracted>>
  BY DEF TimesOut, WmiCallRaises, ExtractRaises, Forget
<1>2. SampleType'
  BY <1>1, Threads DEF SamplerInvariant, SampleType
<1>3. Ordered'
  BY <1>1, Threads DEF SamplerInvariant, Ordered
<1>4. Prepared' /\ SamplesAdvance'
  BY <1>1 DEF SamplerInvariant, Prepared, SamplesAdvance
<1> QED
  BY <1>2, <1>3, <1>4 DEF SamplerInvariant

LEMMA ExtractOrdered == SamplerInvariant /\ Extract => SamplerInvariant'
<1> SUFFICES ASSUME SamplerInvariant, Extract PROVE SamplerInvariant'
  OBVIOUS
<1>1. /\ caller = "extract" /\ caller' = "idle" /\ extracted' = current.at
      /\ reported' = IF IsRaw THEN Pairs ELSE Plain
      /\ UNCHANGED <<world, clock, types, worker, previous, current>>
  BY DEF Extract
<1>2. current.at \in Nat
  BY TakenHasTime DEF SamplerInvariant, SampleType
<1>3. SampleType'
  BY <1>1, <1>2 DEF SamplerInvariant, SampleType
<1>4. Ordered'
  BY <1>1, <1>2 DEF SamplerInvariant, Ordered
<1>5. Prepared'
  BY <1>1 DEF SamplerInvariant, Prepared
<1>6. \A m \in reported' : m.rate => m.from < m.to
  <2>1. CASE IsRaw
    <3>1. previous.at < current.at
      BY <1>1, <2>1 DEF SamplerInvariant, SamplesAdvance
    <3>2. \A m \in Pairs : m.from = previous.at /\ m.to = current.at
      BY DEF Pairs, Format
    <3> QED
      BY <1>1, <2>1, <3>1, <3>2
  <2>2. CASE ~IsRaw
    <3>1. \A m \in Plain : m.rate = FALSE
      BY DEF Plain
    <3> QED
      BY <1>1, <2>2, <3>1
  <2> QED
    BY <2>1, <2>2
<1>7. SamplesAdvance'
  BY <1>1, <1>6 DEF SamplesAdvance
<1> QED
  BY <1>3, <1>4, <1>5, <1>7 DEF SamplerInvariant

LEMMA StepOrdered == SamplerInvariant /\ [WmiNext]_wmiVars => SamplerInvariant'
<1> SUFFICES ASSUME SamplerInvariant, [WmiNext]_wmiVars PROVE SamplerInvariant'
  OBVIOUS
<1>1. CASE QueryAnswers
  BY <1>1, DoneOrdered DEF QueryAnswers, SamplerInvariant, SampleType
<1>2. CASE QueryComError
  <2>1. <<>> \in Seq(WmiObjects)
    OBVIOUS
  <2>2. Done(<<>>)
    BY <1>2 DEF QueryComError
  <2> QED
    BY <2>1, <2>2, DoneOrdered
<1>3. CASE WorldChanges
  <2>1. /\ world' \in Seq(WmiObjects)
        /\ UNCHANGED <<clock, types, worker, previous, current, caller, reported, extracted>>
    BY <1>3, WorldsAreSequences DEF WorldChanges
  <2> QED
    BY <2>1 DEF SamplerInvariant, SampleType, Ordered, Prepared, SamplesAdvance, Taken
<1>4. CASE UNCHANGED wmiVars
  BY <1>4 DEF wmiVars, SamplerInvariant, SampleType, Ordered, Prepared, SamplesAdvance, Taken
<1> QED
  BY <1>1, <1>2, <1>3, <1>4, RaisesOrdered, FirstOrdered, SampleOrdered, FirstReturnsOrdered,
     SecondReturnsOrdered, GivesUpOrdered, ExtractOrdered DEF WmiNext

\* No sample is extracted twice and every rate has an interval to be a rate of,
\* whatever queries hang, fail or answer late.
THEOREM SamplesAdvanceCorrect == WmiSpec => []SamplesAdvance
<1>1. WmiSpec => []SamplerInvariant
  BY InitSamples, StepOrdered, PTL DEF WmiSpec
<1>2. SamplerInvariant => SamplesAdvance
  BY DEF SamplerInvariant
<1> QED
  BY <1>1, <1>2, PTL

-----------------------------------------------------------------------------
(* ContainerTags *)

Event == [container : Containers, what : {"start", "die"}, at : Nat]

\* What is logged has a time that is past; windows end with the second that begins
\* the next one; only tasks are listed.
LogOrdered ==
    /\ dockerLog \in Seq(Event)
    /\ second \in Nat /\ since \in Nat /\ since <= second
    /\ \A i \in DOMAIN dockerLog : dockerLog[i].at <= second
    /\ collected \subseteq DOMAIN dockerLog
    /\ listed \subseteq Tasks

\* What TasksKnown says holds of ecs_tags too, from which the tags are taken later.
EntriesKnown ==
    \A c \in DOMAIN ecsTags : c \in Tasks => ecsTags[c] = "task" \/ c \in askedEarly \/ ~agentUrl

TagsInvariant == LogOrdered /\ EntriesKnown /\ TagsFollow

\* The list of tasks leaves what is known, and knows what it lists.
LEMMA PopulatedKeeps ==
    ASSUME NEW c
    PROVE  /\ DOMAIN Populated(c) = DOMAIN ecsTags \cup NewlyListed \cup {c}
           /\ \A d \in DOMAIN ecsTags : Populated(c)[d] = ecsTags[d]
           /\ \A d \in NewlyListed : Populated(c)[d] = "task"
  BY DEF Populated, NewlyListed

\* The times and containers of what is logged.
LEMMA LogTyped ==
    ASSUME LogOrdered
    PROVE  \A i \in DOMAIN dockerLog :
              /\ dockerLog[i].container \in Containers /\ dockerLog[i].at \in Nat
              /\ dockerLog[i].at <= second
<1> SUFFICES ASSUME NEW i \in DOMAIN dockerLog
             PROVE  dockerLog[i].container \in Containers /\ dockerLog[i].at \in Nat
  BY DEF LogOrdered
<1>1. dockerLog[i] \in Event
  BY DEF LogOrdered
<1> QED
  BY <1>1 DEF Event

\* An event that is logged leaves those before it, and is neither before the window
\* nor collected.
LEMMA LoggedIsNew ==
    ASSUME LogOrdered, NEW c \in Containers, NEW what \in {"start", "die"}, Logged(c, what)
    PROVE  /\ dockerLog' \in Seq(Event)
           /\ DOMAIN dockerLog' = DOMAIN dockerLog \cup {Len(dockerLog) + 1}
           /\ \A i \in DOMAIN dockerLog : dockerLog'[i] = dockerLog[i]
           /\ dockerLog'[Len(dockerLog) + 1].container = c
           /\ dockerLog'[Len(dockerLog) + 1].what = what
           /\ dockerLog'[Len(dockerLog) + 1].at = second
           /\ Len(dockerLog) + 1 \notin DOMAIN dockerLog
<1> DEFINE e == [container |-> c, what |-> what, at |-> second]
<1>1. e \in Event /\ dockerLog \in Seq(Event)
  BY DEF LogOrdered, Event
<1>2. dockerLog' = Append(dockerLog, e)
  BY DEF Logged
<1>4. e.container = c /\ e.what = what /\ e.at = second
  OBVIOUS
<1> HIDE DEF e
<1>3. /\ Append(dockerLog, e) \in Seq(Event)
      /\ DOMAIN Append(dockerLog, e) = DOMAIN dockerLog \cup {Len(dockerLog) + 1}
      /\ \A i \in DOMAIN dockerLog : Append(dockerLog, e)[i] = dockerLog[i]
      /\ Append(dockerLog, e)[Len(dockerLog) + 1] = e
      /\ Len(dockerLog) + 1 \notin DOMAIN dockerLog
  BY <1>1
<1> QED
  BY <1>2, <1>3, <1>4, Zenon

\* At first nothing is logged or cached.
LEMMA InitTags == TagsInit => TagsInvariant
<1> SUFFICES ASSUME TagsInit PROVE TagsInvariant
  OBVIOUS
<1>1. LogOrdered
  BY DEF TagsInit, LogOrdered
<1>2. DOMAIN NoTags = {}
  BY DEF NoTags
<1>3. EntriesKnown /\ TasksKnown
  BY <1>2 DEF TagsInit, EntriesKnown, TasksKnown
<1>4. EventsDelivered /\ DeadForgotten
  BY <1>2 DEF TagsInit, EventsDelivered, DeadForgotten
<1> QED
  BY <1>1, <1>3, <1>4 DEF TagsInvariant, TagsFollow

-------------------------------------------------------------------------------
\* The log grows at its end, with the time of then.
LEMMA LoggedStep ==
    ASSUME TagsInvariant, [TagsNext]_tagVars
    PROVE  LogOrdered'
<1> USE DEF TagsInvariant
<1>1. CASE UNCHANGED tagVars
  BY <1>1 DEF LogOrdered, tagVars, dockerVars
<1>2. CASE TryClient
  BY <1>2 DEF TryClient, LogOrdered, dockerVars
<1>3. CASE GetEvents
  BY <1>3 DEF GetEvents, NextSince, Window, LogOrdered, dockerVars
<1>4. CASE DockerComes
  BY <1>4 DEF DockerComes, WorldUnchanged, LogOrdered
<1>5. CASE SecondPasses
  <2>1. /\ second' = second + 1
        /\ UNCHANGED <<dockerLog, since, collected, listed>>
    BY <1>5 DEF SecondPasses, WorldUnchanged
  <2>2. second \in Nat /\ since \in Nat /\ since <= second
    BY DEF LogOrdered
  <2>3. \A i \in DOMAIN dockerLog : dockerLog[i].at <= second + 1
    BY <2>2, LogTyped
  <2> QED
    BY <2>1, <2>2, <2>3 DEF LogOrdered
<1>6. ASSUME NEW c \in Containers, GetTags(c) PROVE LogOrdered'
  BY <1>6 DEF GetTags, LogOrdered, dockerVars
<1>7. ASSUME NEW c \in Containers, EcsFails(c) PROVE LogOrdered'
  BY <1>7 DEF EcsFails, LogOrdered, dockerVars
<1>8. ASSUME NEW c \in Containers, NEW what \in {"start", "die"}, Logged(c, what),
             UNCHANGED <<listed, second, since, collected>>
      PROVE  LogOrdered'
  <2>1. \A i \in DOMAIN dockerLog' : dockerLog'[i].at <= second
    <3>1. \A i \in DOMAIN dockerLog : dockerLog'[i].at <= second
      BY <1>8, LoggedIsNew, LogTyped
    <3>2. dockerLog'[Len(dockerLog) + 1].at <= second
      <4>1. dockerLog'[Len(dockerLog) + 1].at = second /\ second \in Nat
        BY <1>8, LoggedIsNew DEF LogOrdered
      <4> QED
        BY <4>1
    <3> QED
      <4>1. DOMAIN dockerLog' = DOMAIN dockerLog \cup {Len(dockerLog) + 1}
        BY <1>8, LoggedIsNew
      <4> QED
        BY <3>1, <3>2, <4>1, Zenon
  <2>2. collected \subseteq DOMAIN dockerLog'
    BY <1>8, LoggedIsNew DEF LogOrdered
  <2>3. dockerLog' \in Seq(Event)
    BY <1>8, LoggedIsNew
  <2> QED
    BY <1>8, <2>1, <2>2, <2>3 DEF LogOrdered
<1>9. ASSUME NEW c \in Containers, ContainerStarts(c) PROVE LogOrdered'
  BY <1>8, <1>9 DEF ContainerStarts, WorldUnchanged
<1>10. ASSUME NEW c \in Containers, ContainerDies(c) PROVE LogOrdered'
  BY <1>8, <1>10 DEF ContainerDies, WorldUnchanged
<1>11. ASSUME NEW c \in Containers, TaskListed(c) PROVE LogOrdered'
  BY <1>11 DEF TaskListed, WorldUnchanged, LogOrdered
<1> QED
  BY <1>1, <1>2, <1>3, <1>4, <1>5, <1>6, <1>7, <1>9, <1>10, <1>11 DEF TagsNext

\* Every step but the collection leaves the window, and what is logged is not before it.
LEMMA DeliveredStep ==
    ASSUME TagsInvariant, [TagsNext]_tagVars
    PROVE  EventsDelivered'
<1> USE DEF TagsInvariant, TagsFollow
<1>1. CASE UNCHANGED <<dockerLog, since, collected, lostEvents>>
  BY <1>1 DEF EventsDelivered
<1>2. CASE GetEvents
  <2>1. since' = second /\ dockerLog' = dockerLog
    BY <1>2 DEF GetEvents, NextSince, dockerVars
  <2>2. collected \cup lostEvents \cup Window \subseteq collected' \cup lostEvents'
    BY <1>2 DEF GetEvents
  <2>3. ASSUME NEW i \in DOMAIN dockerLog, dockerLog[i].at < second
        PROVE  i \in collected \cup lostEvents \cup Window
    <3>1. dockerLog[i].at \in Nat /\ since \in Nat /\ second \in Nat
      BY LogTyped DEF LogOrdered
    <3>2. CASE dockerLog[i].at < since
      BY <3>2 DEF EventsDelivered
    <3>3. CASE ~(dockerLog[i].at < since)
      BY <2>3, <3>1, <3>3 DEF Window
    <3> QED
      BY <3>2, <3>3
  <2> QED
    BY <2>1, <2>2, <2>3 DEF EventsDelivered
<1>3. ASSUME NEW c \in Containers, NEW what \in {"start", "die"}, Logged(c, what),
             UNCHANGED <<since, collected, lostEvents>>
      PROVE  EventsDelivered'
  <2>1. second \in Nat /\ since \in Nat /\ since <= second
    BY DEF LogOrdered
  <2>2. ASSUME NEW i \in DOMAIN dockerLog', dockerLog'[i].at < since
        PROVE  i \in collected \cup lostEvents
    <3>1. CASE i \in DOMAIN dockerLog
      BY <1>3, <2>2, <3>1, LoggedIsNew DEF EventsDelivered
    <3>2. CASE i = Len(dockerLog) + 1
      <4>1. dockerLog'[i].at = second
        BY <1>3, <3>2, LoggedIsNew
      <4> QED
        BY <2>1, <2>2, <4>1
    <3>3. DOMAIN dockerLog' = DOMAIN dockerLog \cup {Len(dockerLog) + 1}
      BY <1>3, LoggedIsNew
    <3> QED
      BY <2>2, <3>1, <3>2, <3>3, Zenon
  <2> QED
    BY <1>3, <2>2 DEF EventsDelivered
<1>4. ASSUME NEW c \in Containers, ContainerStarts(c) \/ ContainerDies(c) PROVE EventsDelivered'
  BY <1>3, <1>4 DEF ContainerStarts, ContainerDies, WorldUnchanged
<1>5. ASSUME NEW c \in Containers, GetTags(c) \/ EcsFails(c) \/ TaskListed(c)
      PROVE  UNCHANGED <<dockerLog, since, collected, lostEvents>>
  BY <1>5 DEF GetTags, EcsFails, TaskListed, WorldUnchanged, dockerVars
<1>6. ASSUME TryClient \/ DockerComes \/ SecondPasses \/ UNCHANGED tagVars
      PROVE  UNCHANGED <<dockerLog, since, collected, lostEvents>>
  BY <1>6 DEF TryClient, DockerComes, SecondPasses, WorldUnchanged, dockerVars, tagVars
<1> QED
  BY <1>1, <1>2, <1>4, <1>5, <1>6 DEF TagsNext

-------------------------------------------------------------------------------
\* The steps other than those of the caches.
LEMMA CachesKept ==
    ASSUME TryClient \/ DockerComes \/ SecondPasses \/ UNCHANGED tagVars
               \/ (\E c \in Containers : ContainerStarts(c) \/ ContainerDies(c) \/ TaskListed(c))
    PROVE  UNCHANGED <<mesosCache, ecsCache, ecsTags, renewed, askedEarly, agentUrl, collected>>
<1>1. CASE TryClient
  BY <1>1 DEF TryClient, cacheVars
<1>2. CASE DockerComes
  BY <1>2 DEF DockerComes, WorldUnchanged, cacheVars
<1>3. CASE SecondPasses
  BY <1>3 DEF SecondPasses, WorldUnchanged, cacheVars
<1>4. CASE UNCHANGED tagVars
  BY <1>4 DEF tagVars, cacheVars
<1>5. CASE \E c \in Containers : ContainerStarts(c)
  BY <1>5 DEF ContainerStarts, WorldUnchanged, cacheVars
<1>6. CASE \E c \in Containers : ContainerDies(c)
  BY <1>6 DEF ContainerDies, WorldUnchanged, cacheVars
<1>7. CASE \E c \in Containers : TaskListed(c)
  BY <1>7 DEF TaskListed, WorldUnchanged, cacheVars
<1> QED
  BY <1>1, <1>2, <1>3, <1>4, <1>5, <1>6, <1>7

\* A container whose task is not listed when it is asked for is noted.
LEMMA EntriesStep ==
    ASSUME TagsInvariant, [TagsNext]_tagVars
    PROVE  EntriesKnown'
<1> USE DEF TagsInvariant
<1>1. CASE UNCHANGED <<ecsTags, askedEarly, agentUrl>>
  BY <1>1 DEF EntriesKnown
<1>2. ASSUME NEW cs, Invalidate(cs), UNCHANGED agentUrl PROVE EntriesKnown'
  <2>1. ecsTags' = WithoutTags(ecsTags, cs) /\ askedEarly' = askedEarly \ cs
    BY <1>2 DEF Invalidate
  <2> QED
    BY <1>2, <2>1 DEF EntriesKnown, WithoutTags
<1>3. CASE GetEvents
  <2>1. CASE Invalidate(Died(Window))
    BY <1>2, <1>3, <2>1 DEF GetEvents
  <2>2. CASE UNCHANGED cacheVars
    BY <1>1, <1>3, <2>2 DEF GetEvents, cacheVars
  <2> QED
    BY <1>3, <2>1, <2>2 DEF GetEvents
<1>4. ASSUME NEW c \in Containers, GetTags(c) PROVE EntriesKnown'
  <2>1. /\ ecsTags' = Populated(c) /\ agentUrl' = agentUrl
        /\ askedEarly' = askedEarly \cup ({c} \ listed)
    BY <1>4 DEF GetTags
  <2>2. ASSUME NEW d \in DOMAIN ecsTags', d \in Tasks
        PROVE  ecsTags'[d] = "task" \/ d \in askedEarly' \/ ~agentUrl
    <3>1. CASE d \in DOMAIN ecsTags
      BY <2>1, <2>2, <3>1, PopulatedKeeps DEF EntriesKnown
    <3>2. CASE d \in NewlyListed
      BY <2>1, <3>2, PopulatedKeeps
    <3>3. CASE d = c /\ d \notin DOMAIN ecsTags \cup NewlyListed
      BY <2>1, <3>3 DEF NewlyListed
    <3> QED
      BY <2>1, <3>1, <3>2, <3>3, PopulatedKeeps
  <2> QED
    BY <2>1, <2>2 DEF EntriesKnown
<1>5. ASSUME NEW c \in Containers, EcsFails(c) PROVE EntriesKnown'
  BY <1>1, <1>5 DEF EcsFails
<1> QED
  BY <1>1, <1>3, <1>4, <1>5, CachesKept DEF TagsNext

\* What is cached is taken from ecs_tags, and goes with it.
LEMMA TasksStep ==
    ASSUME TagsInvariant, [TagsNext]_tagVars
    PROVE  TasksKnown'
<1> USE DEF TagsInvariant, TagsFollow
<1>1. EntriesKnown'
  BY EntriesStep
<1>2. SUFFICES ASSUME NEW c \in DOMAIN ecsCache'
               PROVE  c \in DOMAIN ecsTags' /\ ecsTags'[c] = ecsCache'[c]
  BY <1>1 DEF TasksKnown, EntriesKnown
<1>3. \A d \in DOMAIN ecsCache : d \in DOMAIN ecsTags /\ ecsTags[d] = ecsCache[d]
  BY DEF TasksKnown
<1>4. CASE UNCHANGED <<ecsTags, ecsCache>>
  BY <1>2, <1>3, <1>4
<1>5. CASE \E cs : Invalidate(cs)
  <2>1. PICK cs : ecsCache' = WithoutTags(ecsCache, cs) /\ ecsTags' = WithoutTags(ecsTags, cs)
    BY <1>5 DEF Invalidate
  <2> QED
    BY <1>2, <1>3, <2>1 DEF WithoutTags
<1>6. CASE GetEvents
  BY <1>4, <1>5, <1>6 DEF GetEvents, cacheVars
<1>7. ASSUME NEW d \in Containers, GetTags(d) PROVE c \in DOMAIN ecsTags' /\ ecsTags'[c] = ecsCache'[c]
  <2>1. ecsTags' = Populated(d) /\ ecsCache' = WithTags(ecsCache, d, Populated(d)[d])
    BY <1>7 DEF GetTags
  <2>2. CASE c = d
    <3>1. ecsCache'[d] = Populated(d)[d]
      BY <2>1 DEF WithTags
    <3> QED
      BY <2>1, <2>2, <3>1, PopulatedKeeps
  <2>3. CASE c # d
    <3>1. c \in DOMAIN ecsCache /\ ecsCache'[c] = ecsCache[c]
      BY <1>2, <2>1, <2>3 DEF WithTags
    <3> QED
      BY <1>3, <2>1, <3>1, PopulatedKeeps
  <2> QED
    BY <2>2, <2>3
<1>8. ASSUME NEW d \in Containers, EcsFails(d) PROVE UNCHANGED <<ecsTags, ecsCache>>
  BY <1>8 DEF EcsFails
<1> QED
  BY <1>4, <1>6, <1>7, <1>8, CachesKept DEF TagsNext

\* What a collection leaves of a dead container is an end that it did not collect.
LEMMA ForgottenStep ==
    ASSUME TagsInvariant, [TagsNext]_tagVars
    PROVE  DeadForgotten'
<1> USE DEF TagsInvariant, TagsFollow
<1> DEFINE Cached == mesosCache \cup DOMAIN ecsCache \cup DOMAIN ecsTags
           Ends(c, i) == dockerLog[i].container = c /\ dockerLog[i].what = "die"
           Due(c) == \E i \in DOMAIN dockerLog \ collected : Ends(c, i)
<1>1. \A c \in Containers \ up : c \in Cached => c \in renewed \/ Due(c)
  BY DEF DeadForgotten
<1>2. SUFFICES ASSUME NEW c \in Containers \ up', c \in Cached'
               PROVE  c \in renewed' \/ Due(c)'
  BY DEF DeadForgotten
<1>3. ASSUME UNCHANGED <<up, dockerLog, collected>> PROVE Due(c)' <=> Due(c)
  BY <1>3
<1>4. ASSUME UNCHANGED <<mesosCache, ecsCache, ecsTags, renewed, dockerLog, collected>>, c \notin up
      PROVE  c \in renewed' \/ Due(c)'
  BY <1>1, <1>2, <1>4
<1>5. CASE TryClient \/ DockerComes \/ SecondPasses \/ UNCHANGED tagVars
  <2>1. UNCHANGED <<up, dockerLog>>
    BY <1>5 DEF TryClient, DockerComes, SecondPasses, tagVars, dockerVars
  <2> QED
    BY <1>2, <1>4, <1>5, <2>1, CachesKept
<1>6. ASSUME NEW d \in Containers, TaskListed(d) PROVE c \in renewed' \/ Due(c)'
  <2>1. UNCHANGED <<up, dockerLog>>
    BY <1>6 DEF TaskListed
  <2> QED
    BY <1>2, <1>4, <1>6, <2>1, CachesKept
<1>7. ASSUME NEW d \in Containers, NEW what \in {"start", "die"}, Logged(d, what),
             UNCHANGED <<mesosCache, ecsCache, ecsTags, renewed, collected>>,
             c \notin up \/ (c = d /\ what = "die")
      PROVE  c \in renewed' \/ Due(c)'
  <2>1. /\ DOMAIN dockerLog' = DOMAIN dockerLog \cup {Len(dockerLog) + 1}
        /\ \A i \in DOMAIN dockerLog : dockerLog'[i] = dockerLog[i]
    BY <1>7, LoggedIsNew
  <2>2. CASE c \notin up
    BY <1>1, <1>2, <1>7, <2>1, <2>2
  <2>3. CASE c = d /\ what = "die"
    <3>1. Len(dockerLog) + 1 \in DOMAIN dockerLog' \ collected'
      BY <1>7, <2>1, LoggedIsNew DEF LogOrdered
    <3>2. /\ dockerLog'[Len(dockerLog) + 1].container = c
          /\ dockerLog'[Len(dockerLog) + 1].what = "die"
      BY <1>7, <2>3, LoggedIsNew
    <3> QED
      BY <3>1, <3>2
  <2> QED
    BY <1>7, <2>2, <2>3
<1>8. ASSUME NEW d \in Containers, ContainerStarts(d) PROVE c \in renewed' \/ Due(c)'
  <2>1. Logged(d, "start") /\ up' = up \cup {d}
    BY <1>8 DEF ContainerStarts
  <2> QED
    BY <1>2, <1>7, <1>8, <2>1, CachesKept
<1>9. ASSUME NEW d \in Containers, ContainerDies(d) PROVE c \in renewed' \/ Due(c)'
  <2>1. Logged(d, "die") /\ up' = up \ {d}
    BY <1>9 DEF ContainerDies
  <2> QED
    BY <1>2, <1>7, <1>9, <2>1, CachesKept
<1>10. ASSUME NEW d \in Containers, GetTags(d) PROVE c \in renewed' \/ Due(c)'
  <2>1. /\ mesosCache' = mesosCache \cup {d}
        /\ ecsTags' = Populated(d) /\ ecsCache' = WithTags(ecsCache, d, Populated(d)[d])
        /\ renewed' = renewed \cup (((DOMAIN Populated(d) \ DOMAIN ecsTags) \cup {d}) \ up)
        /\ UNCHANGED <<up, dockerLog, collected>>
    BY <1>10 DEF GetTags, dockerVars
  <2>2. DOMAIN ecsCache' = DOMAIN ecsCache \cup {d}
    BY <2>1 DEF WithTags
  <2> QED
    BY <1>1, <1>2, <2>1, <2>2
<1>11. ASSUME NEW d \in Containers, EcsFails(d) PROVE c \in renewed' \/ Due(c)'
  <2>1. /\ mesosCache' = mesosCache \cup {d}
        /\ renewed' = renewed \cup ({d} \ up)
        /\ UNCHANGED <<up, dockerLog, collected, ecsCache, ecsTags>>
    BY <1>11 DEF EcsFails, dockerVars
  <2> QED
    BY <1>1, <1>2, <2>1
<1>12. CASE GetEvents
  <2>1. UNCHANGED <<up, dockerLog>>
    BY <1>12 DEF GetEvents, dockerVars
  <2>2. CASE collected' = collected \cup Window /\ Invalidate(Died(Window))
    <3>1. /\ mesosCache' = mesosCache \ Died(Window)
          /\ DOMAIN ecsCache' = DOMAIN ecsCache \ Died(Window)
          /\ DOMAIN ecsTags' = DOMAIN ecsTags \ Died(Window)
          /\ renewed' = renewed \ Died(Window)
      BY <2>2 DEF Invalidate, WithoutTags
    <3>2. c \in Cached /\ c \notin up /\ c \notin Died(Window)
      BY <1>2, <2>1, <3>1
    <3>3. CASE c \in renewed
      BY <3>1, <3>2, <3>3
    <3>4. ASSUME NEW i \in DOMAIN dockerLog \ collected, Ends(c, i) PROVE Due(c)'
      <4>1. i \notin Window
        BY <3>2, <3>4 DEF Died
      <4> QED
        BY <2>1, <2>2, <3>4, <4>1
    <3> QED
      BY <1>1, <3>2, <3>3, <3>4
  <2>3. CASE UNCHANGED <<collected, cacheVars>>
    BY <1>2, <1>4, <2>1, <2>3 DEF cacheVars
  <2> QED
    BY <1>12, <2>2, <2>3 DEF GetEvents
<1> QED
  BY <1>5, <1>6, <1>8, <1>9, <1>10, <1>11, <1>12 DEF TagsNext

\* No event falls between two windows, a task that was listed is known as one, and a
\* dead container leaves the caches with the event of its end: DockerUtil.get_events(),
\* ECSUtil and BaseUtil, for any containers, tasks, faults and number of events.
THEOREM TagsFollowCorrect == TagsSpec => []TagsFollow
<1>1. TagsInvariant /\ [TagsNext]_tagVars => TagsInvariant'
  BY LoggedStep, DeliveredStep, EntriesStep, TasksStep, ForgottenStep DEF TagsInvariant, TagsFollow
<1>2. TagsInvariant => TagsFollow
  BY DEF TagsInvariant
<1> QED
  BY InitTags, <1>1, <1>2, PTL DEF TagsSpec

-----------------------------------------------------------------------------
(* KubeServices *)

Watched == {"CreatedLoadBalancer", "UpdatedLoadBalancer", "DeletedLoadBalancer"}
KubeEvent == [reason : Watched \cup {"Killing"}, uid : KubePods \cup KubeServiceIds]

\* Versions of the events that no batch had, and of those that are not processed.
NewEvents == (lastVersion + 1)..Len(events)
EventsLeft == batch \cup NewEvents

Deletes(n, u) == events[n].reason = "DeletedLoadBalancer" /\ events[n].uid = u
Changes(n, u) == events[n].reason \in Watched \ {"DeletedLoadBalancer"} /\ events[n].uid = u

SelectorMaps == UNION {[S -> Selectors \cup {{}}] : S \in SUBSET KubeServiceIds}
PodServices == UNION {[S -> SUBSET KubeServiceIds] : S \in SUBSET KubePods}
ServicesCache ==
    [selectors : SelectorMaps, invalid : BOOLEAN, forbidden : 0..Max403, failed : BOOLEAN]

KubeType ==
    /\ services \in [KubeServiceIds -> Selectors \cup {{}}]
    /\ events \in Seq(KubeEvent) /\ lastVersion \in 0..Len(events)
    /\ kubePc \in {"idle", "events"} /\ batch \subseteq 1..lastVersion
    /\ kubePc = "idle" => batch = {}
    /\ checked \in BOOLEAN
    /\ cache \in ServicesCache
    /\ mapping \in PodServices

\* The log of the cluster: a service that was deleted is gone, and a pod that is
\* mapped and does not run any more was killed.
ClusterLogged ==
    /\ \A n \in 1..Len(events) : \A u \in KubeServiceIds : Deletes(n, u) => services[u] = {}
    /\ \A p \in DOMAIN mapping \ runningPods : \E n \in 1..Len(events) : events[n].uid = p

\* The cached services are those of the cluster but for what the events of N say.
ListedBut(N) ==
    \A u \in KubeServiceIds :
        /\ u \in DOMAIN cache.selectors /\ services[u] = {} => \E n \in N : Deletes(n, u)
        /\ services[u] # {} /\ ~cache.failed =>
              \/ u \in DOMAIN cache.selectors /\ cache.selectors[u] = services[u]
              \/ \E n \in N : Changes(n, u)

\* In a batch whose first event about a service was processed, none of the batch.
CacheKnown ==
    /\ cache.failed => DOMAIN cache.selectors = {}
    /\ ~cache.invalid => ListedBut(EventsLeft)
    /\ ~cache.invalid /\ kubePc = "events" /\ checked => ListedBut(NewEvents)

ServicesMapped ==
    \A p \in DOMAIN mapping :
        /\ \A u \in KubeServiceIds :
              Fulfills(p, services[u]) /\ {p, u} \cap blind = {}
                  => u \in mapping[p] \/ \E n \in EventsLeft : Changes(n, u)
        /\ \A u \in mapping[p] :
              /\ services[u] = {} => \E n \in EventsLeft : Deletes(n, u)
              /\ u \in DOMAIN cache.selectors \/ cache.failed \/ services[u] = {}

\* Pods whose tags are known not to be up to date.
Outdated == refresh \cup unreported \cup blind \cup (IF kubePc = "events" THEN impacted ELSE {})

TagsRendered ==
    \A p \in (DOMAIN mapping \cap runningPods \cap DOMAIN rendered) \ Outdated :
        /\ rendered[p] \subseteq mapping[p]
        /\ \A u \in mapping[p] \ rendered[p] : services[u] = {}

KubeInv ==
    KubeType /\ ClusterLogged /\ (~Disabled => CacheKnown /\ ServicesMapped /\ TagsRendered)

LEMMA KubeInitially == KubeInit => KubeInv
<1> SUFFICES ASSUME KubeInit PROVE KubeInv
  OBVIOUS
<1> USE DEF KubeInit
<1>1. NoSelectors \in SelectorMaps /\ NoSelectors \in PodServices /\ DOMAIN NoSelectors = {}
  <2>1. NoSelectors \in [{} -> Selectors \cup {{}}] /\ NoSelectors \in [{} -> SUBSET KubeServiceIds]
    BY DEF NoSelectors
  <2> QED
    BY <2>1 DEF SelectorMaps, PodServices, NoSelectors
<1>2. KubeType
  <2>1. cache \in ServicesCache /\ mapping \in PodServices
    BY <1>1, KubeAssumption DEF ServicesCache
  <2>2. events \in Seq(KubeEvent) /\ lastVersion \in 0..Len(events)
    OBVIOUS
  <2> QED
    BY <2>1, <2>2 DEF KubeType
<1>3. ClusterLogged /\ CacheKnown /\ ServicesMapped /\ TagsRendered
  BY <1>1 DEF ClusterLogged, CacheKnown, ServicesMapped, TagsRendered
<1> QED
  BY <1>2, <1>3 DEF KubeInv

\* What is not processed yet is in the log, and stays there.
LEMMA LogGrows ==
    ASSUME KubeType, UNCHANGED <<lastVersion, batch>>,
           events' = events \/ \E e \in KubeEvent : events' = Append(events, e)
    PROVE  /\ events' \in Seq(KubeEvent) /\ Len(events') \in Nat /\ Len(events') >= Len(events)
           /\ \A n \in 1..Len(events) : events'[n] = events[n]
           /\ EventsLeft \subseteq EventsLeft' /\ NewEvents \subseteq NewEvents'
           /\ NewEvents \subseteq EventsLeft /\ EventsLeft \subseteq 1..Len(events)
           /\ \A n \in 1..Len(events), u \in KubeServiceIds :
                 (Deletes(n, u) => Deletes(n, u)') /\ (Changes(n, u) => Changes(n, u)')
<1>1. /\ events' \in Seq(KubeEvent) /\ Len(events') \in Nat /\ Len(events') >= Len(events)
      /\ \A n \in 1..Len(events) : events'[n] = events[n]
  BY DEF KubeType
<1>2. /\ EventsLeft \subseteq EventsLeft' /\ NewEvents \subseteq NewEvents'
      /\ NewEvents \subseteq EventsLeft /\ EventsLeft \subseteq 1..Len(events)
  <2>1. Len(events) \in Nat /\ lastVersion \in 0..Len(events) /\ batch \subseteq 1..lastVersion
    BY DEF KubeType
  <2>2. 1..lastVersion \subseteq 1..Len(events)
    BY <2>1
  <2>3. NewEvents \subseteq 1..Len(events) /\ NewEvents \subseteq NewEvents'
    BY <1>1, <2>1 DEF NewEvents
  <2> QED
    BY <2>1, <2>2, <2>3 DEF EventsLeft
<1> QED
  BY <1>1, <1>2 DEF Deletes, Changes

\* The cluster goes on, and nothing looks.
LEMMA ClusterStep ==
    ASSUME KubeInv,
           \/ \E p \in KubePods : PodStarts(p) \/ PodKilled(p)
           \/ \E u \in KubeServiceIds : \E s \in Selectors \cup {{}} : ServiceChanges(u, s)
    PROVE  KubeInv'
<1> DEFINE Posted(e) == Len(events) < MaxKubeEvents /\ events' = Append(events, e)
<1> USE DEF KubeInv
<1>1. UNCHANGED <<lastVersion, kubePc, batch, checked, impacted, cache, mapping, rendered, refresh,
                  blind, unreported>>
  BY DEF PodStarts, PodKilled, ServiceChanges, loopVars
<1>2. events' = events \/ \E e \in KubeEvent : events' = Append(events, e)
  <2>1. ASSUME NEW p \in KubePods, PodStarts(p) PROVE events' = events
    BY <2>1 DEF PodStarts
  <2>2. ASSUME NEW p \in KubePods, PodKilled(p) PROVE \E e \in KubeEvent : events' = Append(events, e)
    BY <2>2 DEF PodKilled, Post1, KubeEvent
  <2>3. ASSUME NEW u \in KubeServiceIds, NEW s \in Selectors \cup {{}}, ServiceChanges(u, s)
        PROVE  \E e \in KubeEvent : events' = Append(events, e)
    BY <2>3 DEF ServiceChanges, Post1, KubeEvent, Watched
  <2> QED
    BY <2>1, <2>2, <2>3
<1>3. /\ events' \in Seq(KubeEvent) /\ Len(events') \in Nat /\ Len(events') >= Len(events)
      /\ \A n \in 1..Len(events) : events'[n] = events[n]
      /\ EventsLeft \subseteq EventsLeft' /\ NewEvents \subseteq NewEvents'
      /\ NewEvents \subseteq EventsLeft /\ EventsLeft \subseteq 1..Len(events)
      /\ \A n \in 1..Len(events), u \in KubeServiceIds :
            (Deletes(n, u) => Deletes(n, u)') /\ (Changes(n, u) => Changes(n, u)')
  BY <1>1, <1>2, LogGrows
\* A service is as it was, or the new event says what it is now.
<1>4. ASSUME NEW u \in KubeServiceIds
      PROVE  \/ services'[u] = services[u]
             \/ /\ services'[u] = {}
                /\ \E n \in NewEvents' : Deletes(n, u)'
             \/ /\ services'[u] # {}
                /\ \E n \in NewEvents' : Changes(n, u)'
                /\ services[u] = {} => New(u)
  <2>1. CASE \E p \in KubePods : PodStarts(p) \/ PodKilled(p)
    BY <2>1 DEF PodStarts, PodKilled
  <2>2. ASSUME NEW v \in KubeServiceIds, NEW s \in Selectors \cup {{}}, ServiceChanges(v, s), services'[u] # services[u]
        PROVE  <1>4!2
    <3>1. u = v /\ services'[u] = s /\ (services[u] = {} => New(u))
      BY <2>2 DEF ServiceChanges, KubeType
    <3>2. Len(events) + 1 \in NewEvents'
      BY <1>1, <2>2 DEF ServiceChanges, Post1, NewEvents, KubeType
    <3>3. events'[Len(events) + 1] = [reason |-> (IF s = {} THEN "DeletedLoadBalancer"
             ELSE IF services[v] = {} THEN "CreatedLoadBalancer" ELSE "UpdatedLoadBalancer"), uid |-> v]
      BY <2>2 DEF ServiceChanges, Post1, KubeType
    <3> QED
      BY <3>1, <3>2, <3>3 DEF Deletes, Changes, Watched
  <2> QED
    BY <2>1, <2>2
<1>5. services' \in [KubeServiceIds -> Selectors \cup {{}}]
  BY DEF PodStarts, PodKilled, ServiceChanges, KubeType
<1>6. KubeType'
  BY <1>1, <1>3, <1>5 DEF KubeType
<1>7. ClusterLogged'
  <2>1. ASSUME NEW n \in 1..Len(events'), NEW u \in KubeServiceIds, Deletes(n, u)' PROVE services'[u] = {}
    <3>1. CASE n \in 1..Len(events)
      <4>1. Deletes(n, u) /\ services[u] = {}
        <5>1. events'[n] = events[n]
          BY <1>3, <3>1
        <5>2. Deletes(n, u)
          BY <2>1, <5>1 DEF Deletes
        <5> QED
          BY <3>1, <5>2 DEF ClusterLogged
      <4>2. ~New(u)
        BY <3>1, <4>1 DEF New, Deletes, KubeType
      <4> QED
        BY <1>4, <4>1, <4>2
    <3>2. CASE n \notin 1..Len(events)
      <4>1. events'[n].reason = "DeletedLoadBalancer" /\ events'[n].uid = u
        BY <2>1 DEF Deletes
      <4>2. n = Len(events) + 1 /\ events' # events
        BY <1>2, <2>1, <3>2 DEF KubeType
      <4>3. ASSUME NEW p \in KubePods, PodKilled(p) PROVE FALSE
        BY <4>1, <4>2, <4>3 DEF PodKilled, Post1, KubeType
      <4>4. ASSUME NEW v \in KubeServiceIds, NEW s \in Selectors \cup {{}}, ServiceChanges(v, s)
            PROVE  services'[u] = {}
        <5>1. events'[n] = [reason |-> (IF s = {} THEN "DeletedLoadBalancer"
             ELSE IF services[v] = {} THEN "CreatedLoadBalancer" ELSE "UpdatedLoadBalancer"), uid |-> v]
          BY <4>2, <4>4 DEF ServiceChanges, Post1, KubeType
        <5>2. s = {} /\ u = v
          BY <4>1, <5>1
        <5> QED
          BY <4>4, <5>2 DEF ServiceChanges, KubeType
      <4> QED
        BY <4>2, <4>3, <4>4 DEF PodStarts
    <3> QED
      BY <3>1, <3>2
  <2>2. ASSUME NEW p \in DOMAIN mapping', p \notin runningPods'
        PROVE  \E n \in 1..Len(events') : events'[n].uid = p
    <3>1. CASE p \notin runningPods
      BY <1>1, <1>3, <2>2, <3>1 DEF ClusterLogged, KubeType
    <3>2. CASE p \in runningPods
      <4>1. PodKilled(p)
        BY <2>2, <3>2 DEF PodStarts, PodKilled, ServiceChanges
      <4>2. events'[Len(events) + 1].uid = p /\ Len(events) + 1 \in 1..Len(events')
        BY <4>1 DEF PodKilled, Post1, KubeType
      <4> QED
        BY <4>2
    <3> QED
      BY <3>1, <3>2
  <2> QED
    BY <2>1, <2>2 DEF ClusterLogged
<1>8. ASSUME NEW N \in SUBSET (1..Len(events)), NEW M, N \subseteq M, NewEvents' \subseteq M, ListedBut(N)
      PROVE  ListedBut(M)'
  BY <1>1, <1>3, <1>4, <1>8 DEF ListedBut
<1>9. ASSUME ~Disabled' PROVE CacheKnown'
  <2>1. CacheKnown
    BY <1>1, <1>9 DEF Disabled
  <2>2. PICK L, M : L = EventsLeft' /\ M = NewEvents'
    OBVIOUS
  <2>3. NewEvents' \subseteq EventsLeft'
    BY DEF NewEvents, EventsLeft
  <2>4. ListedBut(EventsLeft) => ListedBut(L)'
    BY <1>3, <1>8, <2>2, <2>3
  <2>5. ListedBut(NewEvents) => ListedBut(M)'
    BY <1>3, <1>8, <2>2
  <2> QED
    BY <1>1, <2>1, <2>2, <2>4, <2>5 DEF CacheKnown
<1>10. ASSUME ~Disabled' PROVE ServicesMapped'
  <2>1. ServicesMapped
    BY <1>1, <1>10 DEF Disabled
  <2>2. NewEvents' \subseteq EventsLeft'
    BY DEF NewEvents, EventsLeft
  <2>3. ASSUME NEW p \in DOMAIN mapping, NEW u \in KubeServiceIds, Fulfills(p, services'[u]), {p, u} \cap blind = {}
        PROVE  u \in mapping[p] \/ \E n \in EventsLeft' : Changes(n, u)'
    BY <1>3, <1>4, <2>1, <2>2, <2>3 DEF ServicesMapped, Fulfills
  <2>4. ASSUME NEW p \in DOMAIN mapping, NEW u \in mapping[p]
        PROVE  /\ services'[u] = {} => \E n \in EventsLeft' : Deletes(n, u)'
               /\ u \in DOMAIN cache.selectors \/ cache.failed \/ services'[u] = {}
    <3>1. u \in KubeServiceIds
      BY DEF KubeType, PodServices
    <3>2. services[u] = {} => ~New(u)
      BY <1>3, <2>1, <3>1 DEF ServicesMapped, Deletes, New, KubeType
    <3> QED
      BY <1>3, <1>4, <2>1, <2>2, <3>1, <3>2 DEF ServicesMapped
  <2> QED
    BY <1>1, <2>3, <2>4 DEF ServicesMapped, Fulfills
<1>11. ASSUME ~Disabled' PROVE TagsRendered'
  <2>1. TagsRendered /\ ServicesMapped
    BY <1>1, <1>11 DEF Disabled
  <2>2. ASSUME NEW p \in DOMAIN mapping, p \in runningPods', p \in DOMAIN rendered, p \notin Outdated
        PROVE  /\ rendered[p] \subseteq mapping[p]
               /\ \A u \in mapping[p] \ rendered[p] : services'[u] = {}
    <3>1. p \in runningPods
      <4>1. SUFFICES ASSUME p \notin runningPods PROVE FALSE
        OBVIOUS
      <4>2. PodStarts(p)
        BY <2>2, <4>1 DEF PodStarts, PodKilled, ServiceChanges
      <4> QED
        BY <2>2, <4>1, <4>2 DEF ClusterLogged, PodStarts, New, KubeType
    <3>2. ASSUME NEW u \in mapping[p] \ rendered[p] PROVE services'[u] = {}
      <4>1. u \in KubeServiceIds
        BY <3>2 DEF KubeType, PodServices
      <4>2. services[u] = {}
        BY <2>1, <2>2, <3>1, <3>2 DEF TagsRendered
      <4>3. ~New(u)
        BY <1>3, <2>1, <3>2, <4>1, <4>2 DEF ServicesMapped, Deletes, New, KubeType
      <4> QED
        BY <1>4, <4>1, <4>2, <4>3
    <3> QED
      BY <2>1, <2>2, <3>1, <3>2 DEF TagsRendered
  <2> QED
    BY <1>1, <2>2 DEF TagsRendered, Outdated
<1> QED
  BY <1>6, <1>7, <1>9, <1>10, <1>11

LEMMA KubeletStep ==
    ASSUME KubeInv, FindKubelet \/ NoKubelet \/ RetryIntervalPasses
    PROVE  KubeInv'
<1>1. UNCHANGED <<services, runningPods, events, lastVersion, kubePc, batch, checked, impacted, cache,
                  mapping, rendered, refresh, blind, unreported>>
  BY DEF FindKubelet, NoKubelet, TryKubelet, RetryIntervalPasses, clusterVars, loopVars
<1>2. KubeType' /\ ClusterLogged'
  BY <1>1 DEF KubeInv, KubeType, ClusterLogged, Deletes
<1>3. ~Disabled' => CacheKnown' /\ ServicesMapped' /\ TagsRendered'
  BY <1>1 DEF KubeInv, Disabled, CacheKnown, ListedBut, EventsLeft, NewEvents, Deletes, Changes,
              ServicesMapped, TagsRendered, Outdated
<1> QED
  BY <1>2, <1>3 DEF KubeInv

\* _fill_services_cache(): afterwards the cache is valid, and new if it was not.
LEMMA CacheFilled ==
    ASSUME services \in [KubeServiceIds -> Selectors \cup {{}}],
           NEW c \in ServicesCache, c.forbidden = cache.forbidden, Fill(c)
    PROVE  /\ cache' \in ServicesCache
           /\ ~Disabled' => /\ ~Disabled
                            /\ ~cache'.invalid
                            /\ ~c.invalid => cache' = c
                            /\ c.invalid => \/ cache'.failed /\ DOMAIN cache'.selectors = {}
                                            \/ ~cache'.failed /\ cache'.selectors = Listed
<1>1. Listed \in SelectorMaps
  <2>1. Listed \in [{v \in KubeServiceIds : services[v] # {}} -> Selectors \cup {{}}]
    BY DEF Listed
  <2>2. {v \in KubeServiceIds : services[v] # {}} \in SUBSET KubeServiceIds
    OBVIOUS
  <2> QED
    BY <2>1, <2>2 DEF SelectorMaps
<1>2. NoSelectors \in SelectorMaps /\ DOMAIN NoSelectors = {}
  <2>1. NoSelectors \in [{} -> Selectors \cup {{}}]
    BY DEF NoSelectors
  <2> QED
    BY <2>1 DEF SelectorMaps, NoSelectors
<1>3. CASE ~c.invalid \/ Disabled
  BY <1>3 DEF Fill, Disabled
<1>4. CASE c.invalid /\ ~Disabled /\ cache' = FilledCache(c)
  BY <1>1, <1>4 DEF FilledCache, ServicesCache
<1>5. CASE c.invalid /\ ~Disabled /\ cache' = Emptied(c)
  BY <1>2, <1>5 DEF Emptied, ServicesCache
<1>6. CASE c.invalid /\ ~Disabled /\ cache' = Forbidden(c)
  <2>1. c.forbidden \in 0..Max403 /\ c.forbidden # Max403 /\ Max403 \in Nat
    BY <1>6, KubeAssumption DEF ServicesCache, Disabled
  <2>2. c.forbidden + 1 \in 0..Max403
    BY <2>1
  <2> QED
    BY <1>2, <1>6, <2>2 DEF Forbidden, Emptied, ServicesCache
<1> QED
  BY <1>3, <1>4, <1>5, <1>6 DEF Fill

\* What is in a cache that was just filled.
LEMMA CacheIsListed ==
    ASSUME services \in [KubeServiceIds -> Selectors \cup {{}}], UNCHANGED services,
           \/ cache'.failed /\ DOMAIN cache'.selectors = {}
           \/ ~cache'.failed /\ cache'.selectors = Listed,
           NEW N
    PROVE  ListedBut(N)'
<1>1. \A u \in KubeServiceIds : /\ u \in DOMAIN Listed <=> services[u] # {}
                                /\ u \in DOMAIN Listed => Listed[u] = services[u]
  BY DEF Listed
<1> QED
  BY <1>1 DEF ListedBut

LEMMA PodMapped ==
    ASSUME mapping \in PodServices, NEW p \in KubePods, NEW S \in SUBSET KubeServiceIds
    PROVE  /\ With(mapping, p, S) \in PodServices
           /\ DOMAIN With(mapping, p, S) = DOMAIN mapping \cup {p} /\ With(mapping, p, S)[p] = S
           /\ \A q \in DOMAIN mapping : q # p => With(mapping, p, S)[q] = mapping[q]
<1>1. PICK D \in SUBSET KubePods : mapping \in [D -> SUBSET KubeServiceIds]
  BY DEF PodServices
<1>2. With(mapping, p, S) \in [D \cup {p} -> SUBSET KubeServiceIds]
  BY <1>1 DEF With
<1>3. D \cup {p} \in SUBSET KubePods
  OBVIOUS
<1> QED
  BY <1>1, <1>2, <1>3 DEF PodServices, With

LEMMA RenderStep ==
    ASSUME KubeInv, NEW p \in KubePods, RenderPod(p)
    PROVE  KubeInv'
<1> DEFINE M == MatchingServices(p, cache'.selectors)
<1> USE DEF KubeInv
<1>1. /\ UNCHANGED <<services, runningPods, events, lastVersion, kubePc, batch, checked, impacted>>
      /\ kubePc = "idle" /\ ~Disabled /\ p \in runningPods /\ Match(p)
      /\ rendered' = With(rendered, p, mapping'[p] \cap DOMAIN cache'.selectors)
      /\ refresh' = refresh \ {p} /\ unreported' = unreported \ {p}
      /\ blind' = IF cache'.failed THEN blind \cup {p} ELSE blind
  BY DEF RenderPod, clusterVars, loopVars
<1>2. CacheKnown /\ ServicesMapped /\ TagsRendered
  BY <1>1
<1>3. /\ cache' \in ServicesCache
      /\ ~Disabled' => CacheKnown'
      /\ ~Disabled' /\ p \notin DOMAIN mapping => ~cache'.invalid
  <2>1. CASE p \in DOMAIN mapping
    <3>1. cache' = cache
      BY <1>1, <2>1 DEF Match
    <3> QED
      BY <1>1, <1>2, <2>1, <3>1 DEF CacheKnown, ListedBut, EventsLeft, NewEvents, Deletes, Changes, KubeType
  <2>2. CASE p \notin DOMAIN mapping
    <3>1. cache \in ServicesCache /\ Fill(cache)
      BY <1>1, <2>2 DEF Match, KubeType
    <3>2. /\ cache' \in ServicesCache
          /\ ~Disabled' => /\ ~Disabled
                           /\ ~cache'.invalid
                           /\ ~cache.invalid => cache' = cache
                           /\ cache.invalid => \/ cache'.failed /\ DOMAIN cache'.selectors = {}
                                               \/ ~cache'.failed /\ cache'.selectors = Listed
      BY <3>1, CacheFilled DEF KubeType
    <3>3. ASSUME ~Disabled', ~cache.invalid PROVE CacheKnown'
      BY <1>1, <1>2, <3>2, <3>3 DEF CacheKnown, ListedBut, EventsLeft, NewEvents, Deletes, Changes
    <3>4. ASSUME ~Disabled', cache.invalid PROVE CacheKnown'
      <4>1. PICK L, N : L = EventsLeft' /\ N = NewEvents'
        OBVIOUS
      <4>2. ListedBut(L)' /\ ListedBut(N)'
        BY <1>1, <3>2, <3>4, CacheIsListed DEF KubeType
      <4>3. cache'.failed => DOMAIN cache'.selectors = {}
        BY <3>2, <3>4, <1>2 DEF CacheKnown
      <4> QED
        BY <4>1, <4>2, <4>3 DEF CacheKnown
    <3> QED
      BY <3>2, <3>3, <3>4
  <2> QED
    BY <2>1, <2>2
<1>4. /\ mapping' \in PodServices /\ DOMAIN mapping' = DOMAIN mapping \cup {p}
      /\ p \notin DOMAIN mapping => mapping'[p] = M
      /\ p \in DOMAIN mapping => cache' = cache
      /\ \A q \in DOMAIN mapping : mapping'[q] = mapping[q]
  <2>1. CASE p \in DOMAIN mapping
    BY <1>1, <2>1 DEF Match, KubeType
  <2>2. CASE p \notin DOMAIN mapping
    <3>1. M \in SUBSET KubeServiceIds /\ mapping' = With(mapping, p, M)
      BY <1>1, <1>3, <2>2 DEF Match, MatchingServices, ServicesCache, SelectorMaps
    <3>2. PICK S \in SUBSET KubeServiceIds : S = M
      BY <3>1
    <3>3. mapping' = With(mapping, p, S) /\ mapping \in PodServices
      BY <3>1, <3>2 DEF KubeType
    <3>4. /\ With(mapping, p, S) \in PodServices
          /\ DOMAIN With(mapping, p, S) = DOMAIN mapping \cup {p} /\ With(mapping, p, S)[p] = S
          /\ \A q \in DOMAIN mapping : q # p => With(mapping, p, S)[q] = mapping[q]
      BY <3>3, PodMapped
    <3> HIDE DEF M
    <3> QED
      BY <2>2, <3>2, <3>3, <3>4
  <2> QED
    BY <2>1, <2>2
<1>5. KubeType' /\ ClusterLogged'
  BY <1>1, <1>3, <1>4 DEF KubeType, ClusterLogged, Deletes
<1>6. ASSUME ~Disabled', p \notin DOMAIN mapping, NEW u \in KubeServiceIds
      PROVE  /\ u \in DOMAIN cache'.selectors /\ services[u] = {} => \E n \in EventsLeft' : Deletes(n, u)'
             /\ services[u] # {} /\ ~cache'.failed =>
                   \/ u \in DOMAIN cache'.selectors /\ cache'.selectors[u] = services[u]
                   \/ \E n \in EventsLeft' : Changes(n, u)'
  BY <1>1, <1>3, <1>6 DEF CacheKnown, ListedBut
<1>7. ASSUME ~Disabled' PROVE ServicesMapped'
  <2>1. ASSUME NEW q \in DOMAIN mapping', NEW u \in KubeServiceIds, Fulfills(q, services[u]), {q, u} \cap blind' = {}
        PROVE  u \in mapping'[q] \/ \E n \in EventsLeft' : Changes(n, u)'
    <3>1. CASE q \in DOMAIN mapping
      <4>1. u \in mapping[q] \/ \E n \in EventsLeft : Changes(n, u)
        BY <1>1, <1>2, <2>1, <3>1 DEF ServicesMapped
      <4> QED
        BY <1>1, <1>4, <3>1, <4>1 DEF EventsLeft, NewEvents, Changes
    <3>2. CASE q \notin DOMAIN mapping
      BY <1>1, <1>4, <1>6, <1>7, <2>1, <3>2 DEF Fulfills, MatchingServices
    <3> QED
      BY <3>1, <3>2
  <2>2. ASSUME NEW q \in DOMAIN mapping', NEW u \in mapping'[q]
        PROVE  /\ services[u] = {} => \E n \in EventsLeft' : Deletes(n, u)'
               /\ u \in DOMAIN cache'.selectors \/ cache'.failed \/ services[u] = {}
    <3>1. u \in KubeServiceIds
      BY <1>4, <2>2 DEF PodServices
    <3>2. CASE q \in DOMAIN mapping
      <4>1. /\ services[u] = {} => \E n \in EventsLeft : Deletes(n, u)
            /\ u \in DOMAIN cache.selectors \/ cache.failed \/ services[u] = {}
        BY <1>2, <1>4, <2>2, <3>2 DEF ServicesMapped
      <4>2. services[u] = {} => \E n \in EventsLeft' : Deletes(n, u)'
        BY <1>1, <4>1 DEF EventsLeft, NewEvents, Deletes
      <4>3. u \in DOMAIN cache'.selectors \/ cache'.failed \/ services[u] = {}
        <5>1. CASE p \in DOMAIN mapping
          BY <1>4, <4>1, <5>1
        <5>2. CASE p \notin DOMAIN mapping
          <6>1. Fill(cache)
            BY <1>1, <5>2 DEF Match
          <6>2. cache' = cache \/ cache'.failed \/ cache'.selectors = Listed
            BY <1>7, <6>1, CacheFilled DEF KubeType
          <6> QED
            BY <3>1, <4>1, <6>2 DEF Listed
        <5> QED
          BY <5>1, <5>2
      <4> QED
        BY <4>2, <4>3
    <3>3. CASE q \notin DOMAIN mapping
      <4>1. u \in DOMAIN cache'.selectors
        BY <1>4, <2>2, <3>3 DEF MatchingServices
      <4> QED
        BY <1>4, <1>6, <1>7, <3>1, <3>3, <4>1
    <3> QED
      BY <3>2, <3>3
  <2> QED
    BY <1>1, <2>1, <2>2 DEF ServicesMapped, Fulfills
<1>8. ASSUME ~Disabled' PROVE TagsRendered'
  <2>1. ASSUME NEW q \in DOMAIN mapping', q \in runningPods, q \in DOMAIN rendered', q \notin Outdated'
        PROVE  rendered'[q] \subseteq mapping'[q] /\ \A u \in mapping'[q] \ rendered'[q] : services[u] = {}
    <3>1. CASE q = p
      <4>1. rendered'[q] = mapping'[q] \cap DOMAIN cache'.selectors
        BY <1>1, <3>1 DEF With
      <4>2. ~cache'.failed
        BY <1>1, <2>1, <3>1 DEF Outdated
      <4> QED
        BY <1>7, <1>8, <2>1, <4>1, <4>2, <1>1 DEF ServicesMapped
    <3>2. CASE q # p
      <4>1. q \in DOMAIN mapping /\ mapping'[q] = mapping[q]
        BY <1>4, <3>2
      <4>2. q \in DOMAIN rendered /\ rendered'[q] = rendered[q]
        BY <1>1, <2>1, <3>2 DEF With
      <4>3. q \notin Outdated
        BY <1>1, <2>1, <3>2 DEF Outdated
      <4> QED
        BY <1>2, <2>1, <4>1, <4>2, <4>3 DEF TagsRendered
    <3> QED
      BY <3>1, <3>2
  <2> QED
    BY <1>1, <2>1 DEF TagsRendered
<1> QED
  BY <1>3, <1>5, <1>7, <1>8

LEMMA DisabledStep ==
    ASSUME KubeInv, NEW p \in KubePods, RenderPodDisabled(p)
    PROVE  KubeInv'
<1>1. Disabled' /\ UNCHANGED <<services, runningPods, events, lastVersion, kubePc, batch, checked,
                              cache, mapping>>
  BY DEF RenderPodDisabled, clusterVars, loopVars, Disabled
<1> QED
  BY <1>1 DEF KubeInv, KubeType, ClusterLogged, Deletes

LEMMA GetEventsStep ==
    ASSUME KubeInv, GetEventArray
    PROVE  KubeInv'
<1>1. /\ UNCHANGED <<services, runningPods, events, cache, mapping, rendered, refresh, blind, unreported>>
      /\ kubePc = "idle" /\ batch = {} /\ lastVersion < Len(events) /\ lastVersion' = Len(events)
  BY DEF GetEventArray, clusterVars, KubeInv, KubeType
<1>2. KubeType'
  <2>1. CASE Disabled
    BY <1>1, <2>1 DEF GetEventArray, KubeInv, KubeType
  <2>2. CASE ~Disabled
    <3>1. kubePc' = "events" /\ batch' = (lastVersion + 1)..Len(events) /\ checked' = FALSE
      BY <2>2 DEF GetEventArray, StartChecks, FirstCheck
    <3>2. (lastVersion + 1)..Len(events) \subseteq 1..Len(events) /\ Len(events) \in 0..Len(events)
      BY DEF KubeInv, KubeType
    <3> QED
      BY <1>1, <3>1, <3>2 DEF KubeInv, KubeType
  <2> QED
    BY <2>1, <2>2
<1>3. ClusterLogged'
  BY <1>1 DEF KubeInv, ClusterLogged, Deletes
<1>4. ASSUME ~Disabled' PROVE CacheKnown' /\ ServicesMapped' /\ TagsRendered'
  <2>1. /\ CacheKnown /\ ServicesMapped /\ TagsRendered /\ ~Disabled
        /\ kubePc' = "events" /\ batch' = (lastVersion + 1)..Len(events) /\ impacted' = {} /\ checked' = FALSE
    BY <1>1, <1>4 DEF KubeInv, Disabled, GetEventArray, StartChecks, FirstCheck
  <2>2. EventsLeft' = EventsLeft
    BY <1>1, <2>1 DEF EventsLeft, NewEvents, KubeInv, KubeType
  <2>3. CacheKnown'
    BY <1>1, <2>1, <2>2 DEF CacheKnown, ListedBut, Deletes, Changes
  <2>4. ServicesMapped'
    BY <1>1, <2>1, <2>2 DEF ServicesMapped, Fulfills, Deletes, Changes
  <2>5. TagsRendered'
    BY <1>1, <2>1 DEF TagsRendered, Outdated
  <2> QED
    BY <2>3, <2>4, <2>5
<1> QED
  BY <1>2, <1>3, <1>4 DEF KubeInv

\* One event is processed.
LEMMA EventTaken ==
    ASSUME KubeType, NEW n \in batch, Take1(n), UNCHANGED <<events, lastVersion, kubePc>>
    PROVE  /\ EventsLeft' = EventsLeft \ {n} /\ NewEvents' = NewEvents /\ n \notin NewEvents
           /\ NewEvents \subseteq EventsLeft' /\ n \in 1..Len(events)
           /\ kubePc = "events" /\ batch' \subseteq 1..lastVersion
<1>1. n \in 1..lastVersion /\ lastVersion \in 0..Len(events) /\ Len(events) \in Nat
  BY DEF KubeType
<1>2. n \notin NewEvents /\ n \in 1..Len(events)
  BY <1>1 DEF NewEvents
<1> QED
  BY <1>2 DEF Take1, EventsLeft, NewEvents, KubeType

LEMMA KillingStep ==
    ASSUME KubeInv, NEW n \in batch, ProcessKilling(n)
    PROVE  KubeInv'
<1>1. /\ UNCHANGED <<services, runningPods, events, lastVersion, kubePc, checked, impacted, cache,
                     rendered, refresh, blind, unreported>>
      /\ Take1(n) /\ events[n].reason = "Killing" /\ mapping' = Without(mapping, events[n].uid)
  BY DEF ProcessKilling, clusterVars
<1>2. /\ EventsLeft' = EventsLeft \ {n} /\ NewEvents' = NewEvents /\ n \notin NewEvents
      /\ kubePc = "events" /\ batch' \subseteq 1..lastVersion
  BY <1>1, EventTaken DEF KubeInv
<1>3. /\ mapping' \in PodServices /\ DOMAIN mapping' \subseteq DOMAIN mapping
      /\ \A p \in DOMAIN mapping' : mapping'[p] = mapping[p]
  <2>1. PICK D \in SUBSET KubePods : mapping \in [D -> SUBSET KubeServiceIds]
    BY DEF KubeInv, KubeType, PodServices
  <2>2. mapping' \in [D \ {events[n].uid} -> SUBSET KubeServiceIds]
    BY <1>1, <2>1 DEF Without
  <2>3. D \ {events[n].uid} \in SUBSET KubePods
    OBVIOUS
  <2> QED
    BY <1>1, <2>1, <2>2, <2>3 DEF PodServices, Without
<1>4. KubeType' /\ ClusterLogged'
  BY <1>1, <1>2, <1>3 DEF KubeInv, KubeType, ClusterLogged, Deletes
<1>5. \A u \in KubeServiceIds : ~Deletes(n, u) /\ ~Changes(n, u)
  BY <1>1 DEF Deletes, Changes, Watched
<1>6. ASSUME ~Disabled' PROVE CacheKnown' /\ ServicesMapped' /\ TagsRendered'
  <2>1. CacheKnown /\ ServicesMapped /\ TagsRendered
    BY <1>1, <1>6 DEF KubeInv, Disabled
  <2>2. CacheKnown'
    BY <1>1, <1>2, <1>5, <2>1 DEF CacheKnown, ListedBut, Deletes, Changes
  <2>3. \A p \in DOMAIN mapping : mapping[p] \subseteq KubeServiceIds
    BY DEF KubeInv, KubeType, PodServices
  <2>4. ServicesMapped'
    BY <1>1, <1>2, <1>3, <1>5, <2>1, <2>3 DEF ServicesMapped, Fulfills, Deletes, Changes
  <2>5. TagsRendered'
    BY <1>1, <1>3, <2>1 DEF TagsRendered, Outdated
  <2> QED
    BY <2>2, <2>4, <2>5
<1> QED
  BY <1>4, <1>6 DEF KubeInv

\* match_containers_for_pods() after the last event of a batch.
LEMMA ReportStep ==
    ASSUME KubeInv, ReportPods \/ ReportFails
    PROVE  KubeInv'
<1>1. /\ UNCHANGED <<services, runningPods, events, lastVersion, batch, checked, impacted, cache, mapping,
                     rendered, blind>>
      /\ kubePc = "events" /\ kubePc' = "idle" /\ batch = {}
  BY DEF ReportPods, ReportFails, EventsDone, clusterVars
<1>2. KubeType' /\ ClusterLogged'
  BY <1>1 DEF KubeInv, KubeType, ClusterLogged, Deletes
<1>3. ASSUME NEW p \in runningPods, p \notin Outdated' PROVE p \notin Outdated
  BY <1>1, <1>3 DEF Outdated, ReportPods, ReportFails
<1>4. ~Disabled' => CacheKnown' /\ ServicesMapped' /\ TagsRendered'
  BY <1>1, <1>3 DEF KubeInv, Disabled, CacheKnown, ListedBut, EventsLeft, NewEvents, Deletes, Changes,
                    ServicesMapped, TagsRendered
<1> QED
  BY <1>2, <1>4 DEF KubeInv

LEMMA DeletedStep ==
    ASSUME KubeInv, NEW n \in batch, ProcessDeleted(n)
    PROVE  KubeInv'
<1> DEFINE u == events[n].uid
           pods == {p \in DOMAIN mapping : u \in mapping[p]}
<1>1. /\ UNCHANGED <<services, runningPods, events, lastVersion, kubePc, rendered, refresh, blind,
                     unreported>>
      /\ Take1(n) /\ events[n].reason = "DeletedLoadBalancer"
      /\ checked' = TRUE /\ cache' = Invalidated /\ impacted' = impacted \cup pods
      /\ mapping' = [p \in DOMAIN mapping |-> IF p \in pods THEN (mapping[p] \ {u}) \cup {} ELSE mapping[p]]
  BY DEF ProcessDeleted, Impact, clusterVars
<1>2. /\ EventsLeft' = EventsLeft \ {n} /\ NewEvents' = NewEvents /\ n \notin NewEvents
      /\ NewEvents \subseteq EventsLeft' /\ n \in 1..Len(events)
      /\ kubePc = "events" /\ batch' \subseteq 1..lastVersion
  BY <1>1, EventTaken DEF KubeInv
<1>3. /\ mapping' \in PodServices /\ DOMAIN mapping' = DOMAIN mapping
      /\ \A p \in DOMAIN mapping : mapping'[p] = mapping[p] \ {u}
  <2>1. PICK D \in SUBSET KubePods : mapping \in [D -> SUBSET KubeServiceIds]
    BY DEF KubeInv, KubeType, PodServices
  <2>2. mapping' \in [D -> SUBSET KubeServiceIds]
    BY <1>1, <2>1
  <2> QED
    BY <1>1, <2>1, <2>2 DEF PodServices
<1>4. /\ cache' \in ServicesCache /\ cache'.selectors = cache.selectors
      /\ cache'.failed = cache.failed /\ cache'.forbidden = cache.forbidden
      /\ ~cache'.invalid => checked /\ ~cache.invalid
  <2>1. cache \in ServicesCache
    BY DEF KubeInv, KubeType
  <2> QED
    BY <1>1, <2>1 DEF Invalidated, ServicesCache
<1>5. KubeType' /\ ClusterLogged'
  BY <1>1, <1>2, <1>3, <1>4 DEF KubeInv, KubeType, ClusterLogged, Deletes
<1>6. /\ \A v \in KubeServiceIds : ~Changes(n, v) /\ (Deletes(n, v) <=> v = u)
      /\ u \in KubeServiceIds => services[u] = {}
  BY <1>1, <1>2 DEF Deletes, Changes, KubeInv, ClusterLogged
<1>7. ASSUME ~Disabled' PROVE CacheKnown' /\ ServicesMapped' /\ TagsRendered'
  <2>1. CacheKnown /\ ServicesMapped /\ TagsRendered
    BY <1>4, <1>7 DEF KubeInv, Disabled
  <2>2. CacheKnown'
    <3>1. cache'.failed => DOMAIN cache'.selectors = {}
      BY <1>4, <2>1 DEF CacheKnown
    <3>2. ASSUME ~cache'.invalid PROVE ListedBut(EventsLeft)' /\ ListedBut(NewEvents)'
      <4>1. ListedBut(NewEvents)
        BY <1>2, <1>4, <2>1, <3>2 DEF CacheKnown
      <4> QED
        BY <1>1, <1>2, <1>4, <4>1 DEF ListedBut, Deletes, Changes
    <3> QED
      BY <3>1, <3>2 DEF CacheKnown
  <2>3. ASSUME NEW p \in DOMAIN mapping, NEW v \in KubeServiceIds, Fulfills(p, services[v]), {p, v} \cap blind = {}
        PROVE  v \in mapping'[p] \/ \E m \in EventsLeft' : Changes(m, v)
    <3>1. v # u
      BY <1>6, <2>3 DEF Fulfills
    <3>2. v \in mapping[p] \/ \E m \in EventsLeft : Changes(m, v)
      BY <2>1, <2>3 DEF ServicesMapped
    <3> QED
      BY <1>2, <1>3, <1>6, <3>1, <3>2
  <2>4. ASSUME NEW p \in DOMAIN mapping, NEW v \in mapping'[p]
        PROVE  /\ services[v] = {} => \E m \in EventsLeft' : Deletes(m, v)
               /\ v \in DOMAIN cache.selectors \/ cache.failed \/ services[v] = {}
    <3>1. v \in mapping[p] /\ v # u
      BY <1>3, <2>4
    <3>2. v \in KubeServiceIds
      BY <3>1 DEF KubeInv, KubeType, PodServices
    <3>3. /\ services[v] = {} => \E m \in EventsLeft : Deletes(m, v)
          /\ v \in DOMAIN cache.selectors \/ cache.failed \/ services[v] = {}
      BY <2>1, <3>1 DEF ServicesMapped
    <3> QED
      BY <1>2, <1>6, <3>1, <3>2, <3>3
  <2>5. ServicesMapped'
    BY <1>1, <1>3, <1>4, <2>3, <2>4 DEF ServicesMapped, Fulfills, Changes, Deletes
  <2>6. TagsRendered'
    <3>1. ASSUME NEW p \in DOMAIN mapping, p \notin Outdated' PROVE p \notin Outdated /\ mapping'[p] = mapping[p]
      BY <1>1, <1>2, <3>1 DEF Outdated
    <3> QED
      BY <1>1, <1>3, <2>1, <3>1 DEF TagsRendered
  <2> QED
    BY <2>2, <2>5, <2>6
<1> QED
  BY <1>5, <1>7 DEF KubeInv

LEMMA ChangedStep ==
    ASSUME KubeInv, NEW n \in batch, ProcessChanged(n)
    PROVE  KubeInv'
<1> DEFINE u == events[n].uid
<1>1. /\ UNCHANGED <<services, runningPods, events, lastVersion, kubePc, rendered, refresh, unreported>>
      /\ Take1(n) /\ events[n].reason \in {"CreatedLoadBalancer", "UpdatedLoadBalancer"}
      /\ checked' = TRUE /\ Fill(Invalidated) /\ impacted' = impacted \cup FoundFor(u)
      /\ mapping' = [p \in DOMAIN mapping |-> IF p \in FoundFor(u) THEN (mapping[p] \ {}) \cup {u} ELSE mapping[p]]
      /\ blind' = IF cache'.failed THEN blind \cup {u} ELSE blind
  BY DEF ProcessChanged, Impact, clusterVars
<1>2. /\ EventsLeft' = EventsLeft \ {n} /\ NewEvents' = NewEvents /\ n \notin NewEvents
      /\ NewEvents \subseteq EventsLeft' /\ n \in 1..Len(events)
      /\ kubePc = "events" /\ batch' \subseteq 1..lastVersion
  BY <1>1, EventTaken DEF KubeInv
<1>3. /\ Invalidated \in ServicesCache /\ Invalidated.forbidden = cache.forbidden
      /\ ~Invalidated.invalid => Invalidated = cache /\ checked
  <2>1. cache \in ServicesCache
    BY DEF KubeInv, KubeType
  <2> QED
    BY <2>1 DEF Invalidated, ServicesCache
<1>4. /\ cache' \in ServicesCache
      /\ ~Disabled' => /\ ~Disabled
                       /\ ~cache'.invalid
                       /\ \/ cache' = cache /\ checked /\ ~cache.invalid
                          \/ cache'.failed /\ DOMAIN cache'.selectors = {}
                          \/ ~cache'.failed /\ cache'.selectors = Listed
  <2>1. PICK c : c = Invalidated
    OBVIOUS
  <2>2. c \in ServicesCache /\ c.forbidden = cache.forbidden /\ Fill(c)
    BY <1>1, <1>3, <2>1
  <2>3. services \in [KubeServiceIds -> Selectors \cup {{}}]
    BY DEF KubeInv, KubeType
  <2>4. /\ cache' \in ServicesCache
        /\ ~Disabled' => /\ ~Disabled
                         /\ ~cache'.invalid
                         /\ ~c.invalid => cache' = c
                         /\ c.invalid => \/ cache'.failed /\ DOMAIN cache'.selectors = {}
                                         \/ ~cache'.failed /\ cache'.selectors = Listed
    BY <2>2, <2>3, CacheFilled
  <2> QED
    BY <1>3, <2>1, <2>4
<1>5. FoundFor(u) \subseteq DOMAIN mapping /\ (FoundFor(u) # {} => u \in KubeServiceIds /\ u \in DOMAIN cache'.selectors)
  BY <1>4 DEF FoundFor, ServicesCache, SelectorMaps
<1>6. /\ mapping' \in PodServices /\ DOMAIN mapping' = DOMAIN mapping
      /\ \A p \in DOMAIN mapping : mapping'[p] = IF p \in FoundFor(u) THEN mapping[p] \cup {u} ELSE mapping[p]
  <2>1. PICK D \in SUBSET KubePods : mapping \in [D -> SUBSET KubeServiceIds]
    BY DEF KubeInv, KubeType, PodServices
  <2>2. mapping' \in [D -> SUBSET KubeServiceIds]
    BY <1>1, <1>5, <2>1
  <2> QED
    BY <1>1, <2>1, <2>2 DEF PodServices
<1>7. KubeType' /\ ClusterLogged'
  BY <1>1, <1>2, <1>4, <1>6 DEF KubeInv, KubeType, ClusterLogged, Deletes
<1>8. \A v \in KubeServiceIds : ~Deletes(n, v) /\ (Changes(n, v) => v = u)
  BY <1>1 DEF Deletes, Changes
<1>9. ASSUME ~Disabled' PROVE CacheKnown' /\ ServicesMapped' /\ TagsRendered'
  <2>1. CacheKnown /\ ServicesMapped /\ TagsRendered /\ ~cache'.invalid
    BY <1>4, <1>9 DEF KubeInv
  <2>2. ListedBut(NewEvents)'
    <3>1. PICK N : N = NewEvents'
      OBVIOUS
    <3>2. CASE cache' = cache /\ checked /\ ~cache.invalid
      <4>1. ListedBut(NewEvents)
        BY <1>2, <2>1, <3>2 DEF CacheKnown
      <4> QED
        BY <1>1, <1>2, <3>2, <4>1 DEF ListedBut, Deletes, Changes
    <3>3. CASE \/ cache'.failed /\ DOMAIN cache'.selectors = {}
               \/ ~cache'.failed /\ cache'.selectors = Listed
      <4>1. ListedBut(N)'
        BY <1>1, <3>3, CacheIsListed DEF KubeInv, KubeType
      <4> QED
        BY <3>1, <4>1
    <3> QED
      BY <1>4, <1>9, <3>2, <3>3
  <2>3. CacheKnown'
    <3>1. cache'.failed => DOMAIN cache'.selectors = {}
      BY <1>4, <1>9, <2>1 DEF CacheKnown
    <3>2. ListedBut(EventsLeft)'
      BY <1>2, <2>2 DEF ListedBut
    <3> QED
      BY <2>2, <3>1, <3>2 DEF CacheKnown
  <2>4. ASSUME NEW v \in KubeServiceIds
        PROVE  /\ v \in DOMAIN cache'.selectors /\ services[v] = {} => \E m \in EventsLeft' : Deletes(m, v)
               /\ services[v] # {} /\ ~cache'.failed =>
                     \/ v \in DOMAIN cache'.selectors /\ cache'.selectors[v] = services[v]
                     \/ \E m \in EventsLeft' : Changes(m, v)
    BY <1>1, <1>2, <2>2 DEF ListedBut, Deletes, Changes
  <2>5. ASSUME NEW p \in DOMAIN mapping, NEW v \in KubeServiceIds, Fulfills(p, services[v]), {p, v} \cap blind' = {}
        PROVE  v \in mapping'[p] \/ \E m \in EventsLeft' : Changes(m, v)
    <3>1. CASE v # u
      <4>1. v \in mapping[p] \/ \E m \in EventsLeft : Changes(m, v)
        BY <1>1, <2>1, <2>5 DEF ServicesMapped
      <4> QED
        BY <1>2, <1>6, <1>8, <3>1, <4>1
    <3>2. CASE v = u
      <4>1. services[v] # {} /\ ~cache'.failed
        BY <1>1, <2>5, <3>2 DEF Fulfills
      <4>2. CASE v \in DOMAIN cache'.selectors /\ cache'.selectors[v] = services[v]
        BY <1>6, <2>5, <3>2, <4>2 DEF FoundFor
      <4> QED
        BY <2>4, <4>1, <4>2
    <3> QED
      BY <3>1, <3>2
  <2>6. ASSUME NEW p \in DOMAIN mapping, NEW v \in mapping'[p]
        PROVE  /\ services[v] = {} => \E m \in EventsLeft' : Deletes(m, v)
               /\ v \in DOMAIN cache'.selectors \/ cache'.failed \/ services[v] = {}
    <3>1. v \in KubeServiceIds
      BY <1>6 DEF PodServices
    <3>2. CASE v \in mapping[p]
      <4>1. /\ services[v] = {} => \E m \in EventsLeft : Deletes(m, v)
            /\ v \in DOMAIN cache.selectors \/ cache.failed \/ services[v] = {}
        BY <2>1, <3>2 DEF ServicesMapped
      <4>2. cache' = cache \/ cache'.failed \/ cache'.selectors = Listed
        BY <1>4, <1>9
      <4> QED
        BY <1>2, <1>8, <3>1, <4>1, <4>2 DEF Listed
    <3>3. CASE v \notin mapping[p]
      <4>1. v = u /\ v \in DOMAIN cache'.selectors
        BY <1>5, <1>6, <3>3
      <4> QED
        BY <2>4, <3>1, <4>1
    <3> QED
      BY <3>2, <3>3
  <2>7. ServicesMapped'
    BY <1>1, <1>6, <2>5, <2>6 DEF ServicesMapped, Fulfills, Changes, Deletes
  <2>8. TagsRendered'
    <3>1. ASSUME NEW p \in DOMAIN mapping, p \notin Outdated' PROVE p \notin Outdated /\ mapping'[p] = mapping[p]
      BY <1>1, <1>2, <1>6, <3>1 DEF Outdated
    <3> QED
      BY <1>1, <1>6, <2>1, <3>1 DEF TagsRendered
  <2> QED
    BY <2>3, <2>7, <2>8
<1> QED
  BY <1>7, <1>9 DEF KubeInv

LEMMA KubeStep == KubeInv /\ [KubeNext]_kubeVars => KubeInv'
<1> SUFFICES ASSUME KubeInv, [KubeNext]_kubeVars PROVE KubeInv'
  OBVIOUS
<1>1. CASE \E p \in KubePods : PodStarts(p) \/ PodKilled(p)
  BY <1>1, ClusterStep
<1>2. CASE \E u \in KubeServiceIds : \E s \in Selectors \cup {{}} : ServiceChanges(u, s)
  BY <1>2, ClusterStep
<1>3. CASE \E p \in KubePods : RenderPod(p) \/ RenderPodDisabled(p)
  BY <1>3, RenderStep, DisabledStep
<1>4. CASE FindKubelet \/ NoKubelet \/ RetryIntervalPasses
  BY <1>4, KubeletStep
<1>5. CASE GetEventArray
  BY <1>5, GetEventsStep
<1>6. CASE ProcessEvent
  BY <1>6, KillingStep, DeletedStep, ChangedStep DEF ProcessEvent
<1>7. CASE ReportPods \/ ReportFails
  BY <1>7, ReportStep
<1>8. CASE UNCHANGED kubeVars
  <2>1. UNCHANGED <<services, runningPods, events, lastVersion, kubePc, batch, checked, impacted, cache,
                    mapping, rendered, refresh, blind, unreported>>
    BY <1>8 DEF kubeVars, clusterVars, loopVars
  <2>2. KubeType' /\ ClusterLogged'
    BY <2>1 DEF KubeInv, KubeType, ClusterLogged, Deletes
  <2>3. ~Disabled' => CacheKnown' /\ ServicesMapped' /\ TagsRendered'
    BY <2>1 DEF KubeInv, Disabled, CacheKnown, ListedBut, EventsLeft, NewEvents, Deletes, Changes,
                ServicesMapped, TagsRendered, Outdated
  <2> QED
    BY <2>2, <2>3 DEF KubeInv
<1> QED
  BY <1>1, <1>2, <1>3, <1>4, <1>5, <1>6, <1>7, <1>8 DEF KubeNext

\* Once pod_service_mapper and the event retriever have processed every event of the
\* apiserver, in whatever order it gives them, a pod has the services whose selectors
\* it fulfills and no other, and its checks are told to refresh if its tags are old.
THEOREM ServicesFollowCorrect == KubeSpec => []ServicesFollow
<1>1. KubeInv => ServicesFollow
  <2> SUFFICES ASSUME KubeInv, AllProcessed, NEW p \in DOMAIN mapping \cap runningPods
               PROVE  /\ \A u \in KubeServiceIds :
                            Fulfills(p, services[u]) /\ {p, u} \cap blind = {} => u \in mapping[p]
                      /\ \A u \in mapping[p] : services[u] # {}
                      /\ p \in DOMAIN rendered /\ p \notin refresh \cup unreported \cup blind
                            => rendered[p] = mapping[p]
    BY DEF ServicesFollow
  <2>1. EventsLeft = {} /\ ServicesMapped /\ TagsRendered /\ kubePc = "idle"
    <3>1. kubePc = "idle" /\ batch = {} /\ lastVersion = Len(events) /\ Len(events) \in Nat
      BY DEF AllProcessed, KubeInv, KubeType
    <3>2. EventsLeft = {}
      BY <3>1 DEF EventsLeft, NewEvents
    <3> QED
      BY <3>1, <3>2 DEF AllProcessed, KubeInv
  <2>2. \A u \in mapping[p] : services[u] # {}
    BY <2>1 DEF ServicesMapped
  <2>3. \A u \in KubeServiceIds : Fulfills(p, services[u]) /\ {p, u} \cap blind = {} => u \in mapping[p]
    BY <2>1 DEF ServicesMapped
  <2>4. p \in DOMAIN rendered /\ p \notin refresh \cup unreported \cup blind => rendered[p] = mapping[p]
    BY <2>1, <2>2 DEF TagsRendered, Outdated
  <2> QED
    BY <2>2, <2>3, <2>4
<1> QED
  BY <1>1, KubeInitially, KubeStep, PTL DEF KubeSpec

-----------------------------------------------------------------------------
(* JmxFetch *)

Configs == UNION {[S -> Nat] : S \in SUBSET JmxChecks}
Reloads == (SUBSET JmxChecks) \cup {{AllChecks}}

JmxType ==
    /\ template \in [JmxChecks -> Nat] /\ changes \in Nat
    /\ reload \in Reloads /\ asked \in Reloads
    /\ jmxPc \in {"boot", "top", "relaunch", "write", "collect", "gone"}
    /\ writing.configs \in Configs /\ writing.then \in {"top", "relaunch", "collect"}
    /\ sdPipe \in Seq(Configs) /\ held \in Configs
    /\ unsent \subseteq JmxChecks /\ shadowed \subseteq JmxChecks

\* The java process runs v of n once it has read the pipe: the last configurations in
\* the pipe that have n say so, or none do and it runs v already.
WillRun(n, v) ==
    \E i \in 0..Len(sdPipe) :
        /\ \A j \in (i + 1)..Len(sdPipe) : n \notin DOMAIN sdPipe[j]
        /\ IF i = 0 THEN n \in DOMAIN held /\ held[n] = v
                    ELSE n \in DOMAIN sdPipe[i] /\ sdPipe[i][n] = v

\* The collector is about to reload n, or to write it.
ToReload(n) == jmxPc = "top" /\ reload \cap {n, AllChecks} # {}
ToWrite(n) == jmxPc = "write" /\ n \in DOMAIN writing.configs

\* What is written is the newest, or it will be asked for again.
WritesNewest ==
    jmxPc = "write" =>
        \A n \in DOMAIN writing.configs : writing.configs[n] = template[n] \/ Changed(n)

JavaWillHave ==
    process = "running" /\ UpToDate /\ jmxPc \notin {"boot", "gone"} =>
        \A n \in JmxChecks \ (unsent \cup shadowed) :
            template[n] # 0 => Changed(n) \/ ToReload(n) \/ ToWrite(n) \/ WillRun(n, template[n])

\* Before the collector has written anything since it started.
NothingPiped ==
    ~lastPiped /\ jmxPc \notin {"boot", "gone"} =>
        \A n \in JmxChecks \ unsent : template[n] # 0 => Changed(n) \/ ToReload(n) \/ ToWrite(n)

JmxInv == JmxType /\ WritesNewest /\ JavaWillHave /\ NothingPiped

LEMMA ConfigsGenerated ==
    ASSUME JmxType, NEW names \in Reloads
    PROVE  /\ Generated(names) \in Configs
           /\ \A n \in JmxChecks : template[n] # 0 /\ (names \cap {n, AllChecks} # {} \/ names = {})
                                     => n \in DOMAIN Generated(names)
           /\ \A n \in DOMAIN Generated(names) : n \in JmxChecks /\ Generated(names)[n] = template[n]
<1> DEFINE chosen == IF names = {} \/ names = {AllChecks} THEN JmxChecks ELSE names
           S == {n \in chosen : template[n] # 0}
<1>1. chosen \subseteq JmxChecks
  BY DEF Reloads
<1>2. S \in SUBSET JmxChecks /\ Generated(names) = [c \in S |-> template[c]]
  BY <1>1 DEF Generated
<1>3. Generated(names) \in [S -> Nat]
  BY <1>2 DEF JmxType
<1>4. ASSUME NEW n \in JmxChecks, template[n] # 0, names \cap {n, AllChecks} # {} \/ names = {}
      PROVE  n \in S
  BY <1>4, JmxAssumption DEF Reloads
<1> QED
  BY <1>2, <1>3, <1>4 DEF Configs

LEMMA NoneGenerated == NoConfigs \in Configs /\ DOMAIN NoConfigs = {}
<1>1. NoConfigs \in [{} -> Nat]
  BY DEF NoConfigs
<1> QED
  BY <1>1 DEF Configs, NoConfigs

LEMMA JmxInitially == JmxInit => JmxInv
<1> SUFFICES ASSUME JmxInit PROVE JmxInv
  OBVIOUS
<1>1. {} \in Reloads
  BY DEF Reloads
<1>2. JmxType
  BY <1>1, NoneGenerated DEF JmxInit, JmxType, NotWriting
<1>3. WritesNewest /\ JavaWillHave /\ NothingPiped
  BY DEF JmxInit, WritesNewest, JavaWillHave, NothingPiped
<1> QED
  BY <1>2, <1>3 DEF JmxInv

\* A write to the pipe: what it has is what will run.
LEMMA PipeWritten ==
    ASSUME sdPipe \in Seq(Configs), NEW c \in Configs, sdPipe' = Append(sdPipe, c), held' = held, NEW n, NEW v
    PROVE  /\ n \in DOMAIN c /\ c[n] = v => WillRun(n, v)'
           /\ n \notin DOMAIN c /\ WillRun(n, v) => WillRun(n, v)'
<1>1. /\ Len(sdPipe) \in Nat /\ Len(sdPipe') = Len(sdPipe) + 1
      /\ \A i \in 1..Len(sdPipe) : sdPipe'[i] = sdPipe[i]
      /\ sdPipe'[Len(sdPipe) + 1] = c
  OBVIOUS
<1>2. ASSUME n \in DOMAIN c, c[n] = v PROVE WillRun(n, v)'
  <2>1. Len(sdPipe) + 1 \in 0..Len(sdPipe') /\ (Len(sdPipe) + 1) + 1 > Len(sdPipe') /\ Len(sdPipe) + 1 # 0
    BY <1>1
  <2> QED
    BY <1>1, <1>2, <2>1 DEF WillRun
<1>3. ASSUME n \notin DOMAIN c, WillRun(n, v) PROVE WillRun(n, v)'
  <2>1. PICK i \in 0..Len(sdPipe) :
            /\ \A j \in (i + 1)..Len(sdPipe) : n \notin DOMAIN sdPipe[j]
            /\ IF i = 0 THEN n \in DOMAIN held /\ held[n] = v
                        ELSE n \in DOMAIN sdPipe[i] /\ sdPipe[i][n] = v
    BY <1>3 DEF WillRun
  <2>2. ASSUME NEW j \in (i + 1)..Len(sdPipe') PROVE n \notin DOMAIN sdPipe'[j]
    BY <1>1, <1>3, <2>1
  <2>3. i \in 0..Len(sdPipe') /\ (i # 0 => sdPipe'[i] = sdPipe[i])
    BY <1>1
  <2> QED
    BY <2>1, <2>2, <2>3 DEF WillRun
<1> QED
  BY <1>2, <1>3

\* A read leaves what will run as it was.
LEMMA PipeRead ==
    ASSUME sdPipe \in Seq(Configs), JavaReads, NEW n, NEW v, WillRun(n, v)
    PROVE  WillRun(n, v)'
<1>1. /\ Len(sdPipe) \in Nat \ {0} /\ Len(sdPipe') = Len(sdPipe) - 1
      /\ \A i \in 1..Len(sdPipe') : sdPipe'[i] = sdPipe[i + 1]
  BY DEF JavaReads
<1>2. held' = [m \in DOMAIN held \cup DOMAIN sdPipe[1] |->
                  IF m \in DOMAIN sdPipe[1] THEN sdPipe[1][m] ELSE held[m]]
  BY DEF JavaReads
<1>3. PICK i \in 0..Len(sdPipe) :
          /\ \A j \in (i + 1)..Len(sdPipe) : n \notin DOMAIN sdPipe[j]
          /\ IF i = 0 THEN n \in DOMAIN held /\ held[n] = v
                      ELSE n \in DOMAIN sdPipe[i] /\ sdPipe[i][n] = v
  BY DEF WillRun
<1>4. CASE i \in {0, 1}
  <2>1. n \in DOMAIN held' /\ held'[n] = v
    <3>1. CASE i = 0
      BY <1>1, <1>2, <1>3, <3>1
    <3>2. CASE i = 1
      BY <1>2, <1>3, <3>2
    <3> QED
      BY <1>4, <3>1, <3>2
  <2>2. ASSUME NEW j \in (0 + 1)..Len(sdPipe') PROVE n \notin DOMAIN sdPipe'[j]
    <3>1. j + 1 \in (i + 1)..Len(sdPipe) /\ sdPipe'[j] = sdPipe[j + 1]
      BY <1>1, <1>4
    <3> QED
      BY <1>3, <3>1
  <2>3. 0 \in 0..Len(sdPipe')
    BY <1>1
  <2> QED
    BY <2>1, <2>2, <2>3 DEF WillRun
<1>5. CASE i \notin {0, 1}
  <2>1. i - 1 \in 0..Len(sdPipe') /\ i - 1 # 0 /\ sdPipe'[i - 1] = sdPipe[i]
    BY <1>1, <1>5
  <2>2. ASSUME NEW j \in ((i - 1) + 1)..Len(sdPipe') PROVE n \notin DOMAIN sdPipe'[j]
    <3>1. j + 1 \in (i + 1)..Len(sdPipe) /\ sdPipe'[j] = sdPipe[j + 1]
      BY <1>1, <1>5
    <3> QED
      BY <1>3, <3>1
  <2> QED
    BY <1>3, <1>5, <2>1, <2>2 DEF WillRun
<1> QED
  BY <1>4, <1>5

\* The steps of _submit_jmx_service_discovery(), the names being those to reload.
LEMMA SubmitStep ==
    ASSUME JmxInv, NEW names \in Reloads, NEW then \in {"top", "relaunch", "collect"},
           jmxPc \in {"boot", "top", "relaunch"},
           jmxPc = "boot" => names = {},
           jmxPc = "top" => names = reload,
           \/ Generated(names) = NoConfigs /\ Skip(then)
           \/ SubmitOr(Generated(names), then)
    PROVE  JmxInv'
<1> DEFINE c == Generated(names)
<1>1. /\ c \in Configs
      /\ \A n \in JmxChecks : template[n] # 0 /\ (names \cap {n, AllChecks} # {} \/ names = {}) => n \in DOMAIN c
      /\ \A n \in DOMAIN c : n \in JmxChecks /\ c[n] = template[n]
  BY ConfigsGenerated DEF JmxInv
<1> HIDE DEF c
<1>2. /\ UNCHANGED <<template, reload, asked, lastPiped, launchNewer, sdPipe, held, changes, shadowed>>
      /\ \/ jmxPc' = then /\ c = NoConfigs /\ UNCHANGED <<writing, process, unsent>>
         \/ /\ jmxPc' = "write" /\ writing' = [configs |-> c, then |-> then]
            /\ process' \in {process, "starting"} /\ unsent' = unsent
         \/ jmxPc' = then /\ unsent' = unsent \cup DOMAIN c /\ UNCHANGED <<writing, process>>
         \/ jmxPc' = "gone" /\ UNCHANGED <<writing, process, unsent>>
  BY DEF c, Skip, SubmitOr, Submit, CannotSubmit, NotSent, CannotStart, boundVars, javaVars
<1>3. JmxType'
  BY <1>1, <1>2 DEF JmxInv, JmxType
<1>4. WritesNewest'
  BY <1>1, <1>2 DEF JmxInv, WritesNewest, Changed
<1>5. JavaWillHave'
  <2>1. SUFFICES ASSUME (process = "running" /\ UpToDate /\ jmxPc \notin {"boot", "gone"})',
                        NEW n \in JmxChecks, n \notin unsent' \cup shadowed', template[n] # 0
                 PROVE  (Changed(n) \/ ToReload(n) \/ ToWrite(n) \/ WillRun(n, template[n]))'
    BY <1>2 DEF JavaWillHave
  <2>2. process = "running" /\ UpToDate /\ n \notin unsent \cup shadowed
    BY <1>2, <2>1 DEF UpToDate
  <2>3. CASE n \in DOMAIN c
    BY <1>2, <2>1, <2>3, NoneGenerated DEF ToWrite
  <2>4. CASE n \notin DOMAIN c
    <3>1. jmxPc # "boot" /\ ~ToReload(n) /\ ~ToWrite(n)
      BY <1>1, <2>1, <2>4 DEF ToReload, ToWrite
    <3>2. Changed(n) \/ WillRun(n, template[n])
      BY <2>1, <2>2, <3>1 DEF JmxInv, JavaWillHave
    <3> QED
      BY <1>2, <3>2 DEF Changed, WillRun
  <2> QED
    BY <2>3, <2>4
<1>6. NothingPiped'
  <2>1. SUFFICES ASSUME (~lastPiped /\ jmxPc \notin {"boot", "gone"})', NEW n \in JmxChecks, n \notin unsent', template[n] # 0
                 PROVE  (Changed(n) \/ ToReload(n) \/ ToWrite(n))'
    BY <1>2 DEF NothingPiped
  <2>2. CASE n \in DOMAIN c
    BY <1>2, <2>1, <2>2, NoneGenerated DEF ToWrite
  <2>3. CASE n \notin DOMAIN c
    <3>1. jmxPc # "boot" /\ ~ToReload(n) /\ ~ToWrite(n)
      BY <1>1, <2>1, <2>3 DEF ToReload, ToWrite
    <3>2. Changed(n)
      BY <1>2, <2>1, <3>1 DEF JmxInv, NothingPiped
    <3> QED
      BY <1>2, <3>2 DEF Changed
  <2> QED
    BY <2>2, <2>3
<1> QED
  BY <1>3, <1>4, <1>5, <1>6 DEF JmxInv

LEMMA WriteStep == JmxInv /\ Write => JmxInv'
<1> SUFFICES ASSUME JmxInv, Write PROVE JmxInv'
  OBVIOUS
<1> DEFINE c == writing.configs
<1>1. /\ UNCHANGED <<template, reload, asked, process, held, changes>>
      /\ jmxPc = "write" /\ jmxPc' = writing.then /\ writing' = NotWriting
      /\ c \in Configs /\ sdPipe' = Append(sdPipe, c) /\ sdPipe \in Seq(Configs)
      /\ unsent' = unsent \ DOMAIN c
      /\ shadowed' = (shadowed \ DOMAIN c) \cup Shadowed
  BY DEF Write, javaVars, boundVars, JmxInv, JmxType
<1>2. JmxType'
  BY <1>1, NoneGenerated DEF JmxInv, JmxType, NotWriting, Shadowed
<1>3. WritesNewest'
  BY <1>1 DEF JmxInv, JmxType, WritesNewest
<1>4. JavaWillHave'
  <2>1. SUFFICES ASSUME (process = "running" /\ UpToDate)',
                        NEW n \in JmxChecks, n \notin unsent' \cup shadowed', template[n] # 0
                 PROVE  Changed(n)' \/ WillRun(n, template[n])'
    BY <1>1 DEF JavaWillHave
  <2>2. CASE n \in DOMAIN c
    <3>1. c[n] = template[n] \/ Changed(n)
      BY <1>1, <2>2 DEF JmxInv, WritesNewest
    <3>2. PICK v : v = template[n]
      OBVIOUS
    <3>3. c[n] = v => WillRun(n, v)'
      BY <1>1, <2>2, PipeWritten
    <3> QED
      BY <1>1, <3>1, <3>2, <3>3 DEF Changed
  <2>3. CASE n \notin DOMAIN c
    <3>1. ~launchNewer /\ n \notin unsent \cup shadowed
      BY <1>1, <2>1, <2>3 DEF Shadowed
    <3>2. CASE lastPiped
      <4>1. Changed(n) \/ WillRun(n, template[n])
        BY <1>1, <2>1, <2>3, <3>1, <3>2 DEF JmxInv, JavaWillHave, UpToDate, ToReload, ToWrite
      <4>2. PICK v : v = template[n]
        OBVIOUS
      <4>3. WillRun(n, v) => WillRun(n, v)'
        BY <1>1, <2>3, PipeWritten
      <4> QED
        BY <1>1, <4>1, <4>2, <4>3 DEF Changed
    <3>3. CASE ~lastPiped
      BY <1>1, <2>1, <2>3, <3>1, <3>3 DEF JmxInv, NothingPiped, Changed, ToReload, ToWrite
    <3> QED
      BY <3>2, <3>3
  <2> QED
    BY <2>2, <2>3
<1> QED
  BY <1>1, <1>2, <1>3, <1>4 DEF JmxInv, NothingPiped, Piped, Write

LEMMA CollectStep == JmxInv /\ Collect => JmxInv'
<1> SUFFICES ASSUME JmxInv, Collect PROVE JmxInv'
  OBVIOUS
<1>1. /\ UNCHANGED <<template, writing, lastPiped, launchNewer, sdPipe, process, held, changes, unsent, shadowed>>
      /\ jmxPc = "collect" /\ jmxPc' = "top" /\ reload' = asked /\ asked' = {}
  BY DEF Collect, javaVars, boundVars
<1>2. JmxType' /\ WritesNewest'
  BY <1>1 DEF JmxInv, JmxType, WritesNewest, Reloads
<1>3. JavaWillHave'
  BY <1>1 DEF JmxInv, JavaWillHave, UpToDate, Changed, ToReload, ToWrite, WillRun
<1>4. NothingPiped'
  BY <1>1 DEF JmxInv, NothingPiped, Changed, ToReload, ToWrite
<1> QED
  BY <1>2, <1>3, <1>4 DEF JmxInv

LEMMA TemplateStep == ASSUME JmxInv, NEW m \in JmxChecks, TemplateChanges(m) PROVE JmxInv'
<1>1. /\ UNCHANGED <<reload, jmxPc, writing, lastPiped, launchNewer, sdPipe, process, held, unsent, shadowed>>
      /\ changes' = changes + 1
      /\ \E v \in {0, changes + 2} : template' = [template EXCEPT ![m] = v]
      /\ asked' \in {AlsoAsked(m), {AllChecks}}
  BY DEF TemplateChanges, collectorVars, javaVars
<1>2. /\ template' \in [JmxChecks -> Nat] /\ \A n \in JmxChecks : n # m => template'[n] = template[n]
  BY <1>1 DEF JmxInv, JmxType
<1>3. asked' \in Reloads /\ Changed(m)' /\ (\A n \in JmxChecks : Changed(n) => Changed(n)')
  BY <1>1 DEF JmxInv, JmxType, AlsoAsked, Reloads, Changed
<1>4. JmxType'
  BY <1>1, <1>2, <1>3 DEF JmxInv, JmxType
<1>5. WritesNewest'
  <2>1. \A n \in DOMAIN writing.configs : n \in JmxChecks
    BY DEF JmxInv, JmxType, Configs
  <2> QED
    BY <1>1, <1>2, <1>3, <2>1 DEF JmxInv, WritesNewest
<1>6. JavaWillHave' /\ NothingPiped'
  BY <1>1, <1>2, <1>3 DEF JmxInv, JavaWillHave, NothingPiped, UpToDate, ToReload, ToWrite, WillRun
<1> QED
  BY <1>4, <1>5, <1>6 DEF JmxInv

LEMMA RestartStep == JmxInv /\ CollectorRestarts => JmxInv'
<1> SUFFICES ASSUME JmxInv, CollectorRestarts PROVE JmxInv'
  OBVIOUS
<1>1. /\ jmxPc' = "boot" /\ writing' = NotWriting /\ reload' = {} /\ asked' = {}
      /\ sdPipe' \in {sdPipe, <<>>} /\ unsent' \subseteq JmxChecks /\ shadowed' = {}
      /\ UNCHANGED <<template, held, changes>>
  BY DEF CollectorRestarts, javaVars
<1>2. JmxType'
  <2>1. <<>> \in Seq(Configs) /\ {} \in Reloads
    BY DEF Reloads
  <2>2. sdPipe' \in Seq(Configs)
    BY <1>1, <2>1 DEF JmxInv, JmxType
  <2>3. writing'.configs \in Configs /\ writing'.then = "top"
    BY <1>1, NoneGenerated DEF NotWriting
  <2> QED
    BY <1>1, <2>1, <2>2, <2>3 DEF JmxInv, JmxType
<1> QED
  BY <1>1, <1>2 DEF JmxInv, WritesNewest, JavaWillHave, NothingPiped

LEMMA JavaReadsStep == JmxInv /\ JavaReads => JmxInv'
<1> SUFFICES ASSUME JmxInv, JavaReads PROVE JmxInv'
  OBVIOUS
<1>1. /\ UNCHANGED <<template, reload, asked, jmxPc, writing, lastPiped, launchNewer, process, changes, unsent,
                     shadowed>>
      /\ sdPipe \in Seq(Configs) /\ sdPipe # <<>> /\ sdPipe' = Tail(sdPipe)
      /\ held' = [n \in DOMAIN held \cup DOMAIN Head(sdPipe) |->
                     IF n \in DOMAIN Head(sdPipe) THEN Head(sdPipe)[n] ELSE held[n]]
  BY DEF JavaReads, collectorVars, boundVars, JmxInv, JmxType
<1>2. held' \in Configs
  <2>1. PICK S \in SUBSET JmxChecks : held \in [S -> Nat]
    BY DEF JmxInv, JmxType, Configs
  <2>2. Head(sdPipe) \in Configs
    BY <1>1
  <2>3. PICK R \in SUBSET JmxChecks : Head(sdPipe) \in [R -> Nat]
    BY <2>2 DEF Configs
  <2>4. held' \in [S \cup R -> Nat]
    BY <1>1, <2>1, <2>3
  <2>5. S \cup R \in SUBSET JmxChecks
    OBVIOUS
  <2> QED
    BY <2>4, <2>5 DEF Configs
<1>3. JmxType'
  BY <1>1, <1>2 DEF JmxInv, JmxType
<1>4. WritesNewest' /\ NothingPiped'
  BY <1>1 DEF JmxInv, WritesNewest, NothingPiped, Changed, ToReload, ToWrite
<1>5. ASSUME NEW n \in JmxChecks, WillRun(n, template[n]) PROVE WillRun(n, template[n])'
  <2>1. PICK v : v = template[n]
    OBVIOUS
  <2>2. WillRun(n, v)'
    BY <1>1, <1>5, <2>1, PipeRead
  <2> QED
    BY <1>1, <2>1, <2>2
<1>6. JavaWillHave'
  BY <1>1, <1>5 DEF JmxInv, JavaWillHave, UpToDate, Changed, ToReload, ToWrite
<1> QED
  BY <1>3, <1>4, <1>6 DEF JmxInv

\* A java process that starts has the youngest launch file, and one that ends runs nothing.
LEMMA JavaEndsStep == JmxInv /\ (JavaStarts \/ JavaMissing \/ JavaDies) => JmxInv'
<1> SUFFICES ASSUME JmxInv, JavaStarts \/ JavaMissing \/ JavaDies PROVE JmxInv'
  OBVIOUS
<1>1. /\ UNCHANGED <<template, reload, asked, jmxPc, writing, lastPiped, sdPipe, changes, unsent, shadowed>>
      /\ held' \in {held, NoConfigs}
      /\ ~(process' = "running" /\ UpToDate')
  BY DEF JavaStarts, JavaMissing, JavaDies, collectorVars, boundVars, UpToDate
<1>2. JmxType'
  BY <1>1, NoneGenerated DEF JmxInv, JmxType
<1>3. WritesNewest' /\ NothingPiped' /\ JavaWillHave'
  BY <1>1 DEF JmxInv, WritesNewest, NothingPiped, JavaWillHave, Changed, ToReload, ToWrite
<1> QED
  BY <1>2, <1>3 DEF JmxInv

LEMMA JmxStep == JmxInv /\ [JmxNext]_jmxVars => JmxInv'
<1> SUFFICES ASSUME JmxInv, [JmxNext]_jmxVars PROVE JmxInv'
  OBVIOUS
<1>1. {} \in Reloads /\ reload \in Reloads
  BY DEF Reloads, JmxInv, JmxType
<1>2. CASE Boot
  <2>1. jmxPc = "boot" /\ ((Generated({}) = NoConfigs /\ Skip("top")) \/ SubmitOr(Generated({}), "top"))
    BY <1>2 DEF Boot
  <2> QED
    BY <1>1, <2>1, SubmitStep
<1>3. CASE Reload
  <2>1. PICK then \in {"top", "relaunch", "collect"} : then = AfterReload
    BY DEF AfterReload
  <2>2. jmxPc = "top" /\ ((Generated(reload) = NoConfigs /\ Skip(then)) \/ SubmitOr(Generated(reload), then))
    BY <1>3, <2>1 DEF Reload
  <2> QED
    BY <1>1, <2>2, SubmitStep
<1>4. CASE NothingToReload \/ (CheckRelaunch /\ Skip("collect"))
  <2>1. /\ UNCHANGED <<template, reload, asked, writing, lastPiped, launchNewer, sdPipe, process, held, changes,
                       unsent, shadowed>>
        /\ jmxPc' \in {"relaunch", "collect"}
        /\ (jmxPc = "top" /\ reload = {}) \/ jmxPc = "relaunch"
    BY <1>4 DEF NothingToReload, CheckRelaunch, Skip, javaVars, boundVars, Submit
  <2>2. JmxType' /\ WritesNewest'
    BY <2>1 DEF JmxInv, JmxType, WritesNewest
  <2>3. JavaWillHave' /\ NothingPiped'
    BY <2>1 DEF JmxInv, JavaWillHave, NothingPiped, UpToDate, Changed, ToReload, ToWrite, WillRun
  <2> QED
    BY <2>2, <2>3 DEF JmxInv
<1>5. CASE CheckRelaunch /\ ~Skip("collect")
  <2>1. jmxPc = "relaunch" /\ SubmitOr(Generated({}), "collect")
    BY <1>5 DEF CheckRelaunch, SubmitOr
  <2> QED
    BY <1>1, <2>1, SubmitStep
<1>6. CASE Write
  BY <1>6, WriteStep
<1>7. CASE Collect
  BY <1>7, CollectStep
<1>8. CASE JavaStep
  BY <1>8, JavaReadsStep, JavaEndsStep DEF JavaStep
<1>9. CASE CollectorRestarts
  BY <1>9, RestartStep
<1>10. CASE \E n \in JmxChecks : TemplateChanges(n)
  BY <1>10, TemplateStep
<1>11. CASE UNCHANGED jmxVars
  <2>1. UNCHANGED <<template, reload, asked, jmxPc, writing, lastPiped, launchNewer, sdPipe, process, held,
                    changes, unsent, shadowed>>
    BY <1>11 DEF jmxVars, collectorVars, javaVars, boundVars
  <2>2. JmxType' /\ WritesNewest'
    BY <2>1 DEF JmxInv, JmxType, WritesNewest, Changed
  <2>3. JavaWillHave' /\ NothingPiped'
    BY <2>1 DEF JmxInv, JavaWillHave, NothingPiped, UpToDate, Changed, ToReload, ToWrite, WillRun
  <2> QED
    BY <2>2, <2>3 DEF JmxInv
<1> QED
  BY <1>2, <1>3, <1>4, <1>5, <1>6, <1>7, <1>8, <1>9, <1>10, <1>11 DEF JmxNext, CollectorStep

\* A java process that has read its pipe runs the newest configuration of each check,
\* whatever was written before it started, whenever it or the collector ended and was
\* started again, but for what could not be sent and what the first write left out.
THEOREM JmxHasConfigsCorrect == JmxSpec => []JmxHasConfigs
<1>1. JmxInv => JmxHasConfigs
  <2> SUFFICES ASSUME JmxInv, Drained, UpToDate, NEW n \in JmxChecks,
                      template[n] # 0, ~Changed(n), n \notin unsent \cup shadowed
               PROVE  Known(n)
    BY DEF JmxHasConfigs
  <2>1. WillRun(n, template[n])
    BY DEF JmxInv, JavaWillHave, Drained, ToReload, ToWrite
  <2> QED
    BY <2>1 DEF WillRun, Drained, Known
<1> QED
  BY <1>1, JmxInitially, JmxStep, PTL DEF JmxSpec

-----------------------------------------------------------------------------
(* StoreClients *)

\* Induction over the subsets of a finite set: if some are bad, one of them has no
\* bad subset but itself.
LEMMA MinimalSet ==
    ASSUME NEW S, IsFiniteSet(S), NEW Bad \in SUBSET (SUBSET S), Bad # {}
    PROVE  \E s \in Bad : \A u \in SUBSET s : u # s => u \notin Bad
<1>1. IsWellFoundedOn(StrictSubsetOrdering(S), FiniteSubsetsOf(S))
  BY FS_StrictSubsetOrderingWellFounded
<1>2. FiniteSubsetsOf(S) = SUBSET S
  BY FS_FiniteSubsetsOfFinite
<1>3. PICK s \in Bad : \A u \in Bad : ~(<<u, s>> \in StrictSubsetOrdering(S))
  BY <1>1, <1>2, WFMin
<1>4. ASSUME NEW u \in SUBSET s, u # s PROVE u \notin Bad
  BY <1>3, <1>4 DEF StrictSubsetOrdering
<1> QED
  BY <1>4

LEMMA MaxOfFinite ==
    ASSUME NEW S \in SUBSET Int, IsFiniteSet(S), S # {}
    PROVE  Max(S) \in S /\ \A y \in S : Max(S) >= y
<1> DEFINE Bad == {T \in SUBSET S : T # {} /\ ~(\E x \in T : \A y \in T : x >= y)}
<1>1. SUFFICES ASSUME Bad # {} PROVE FALSE
  BY DEF Max
<1>2. PICK T \in Bad : \A u \in SUBSET T : u # T => u \notin Bad
  <2>1. Bad \in SUBSET (SUBSET S)
    OBVIOUS
  <2> HIDE DEF Bad
  <2> QED
    BY <1>1, <2>1, MinimalSet
<1>3. PICK x \in T : TRUE
  BY <1>2
<1>4. T \ {x} # {}
  BY <1>2, <1>3
<1>5. PICK m \in T \ {x} : \A y \in T \ {x} : m >= y
  BY <1>2, <1>3, <1>4
<1>6. x \in Int /\ m \in Int /\ T \subseteq Int
  BY <1>2, <1>3, <1>5
<1>7. CASE m >= x
  BY <1>2, <1>3, <1>5, <1>6, <1>7
<1>8. CASE x >= m
  <2>1. \A y \in T : x >= y
    BY <1>5, <1>6, <1>8
  <2> QED
    BY <1>2, <1>3, <2>1
<1> QED
  BY <1>6, <1>7, <1>8

Images == Range(StoreImages)
Params == Range(StoreParams)

ClientsType ==
    /\ backend \in {"consul", "etcd", "zk"}
    /\ stored \in [StoreKeys -> Nat] /\ reference \in [StoreKeys -> Nat]
    /\ directories \subseteq {Directory(i) : i \in Images} /\ rootExists \in BOOLEAN
    /\ stamp \in [StoreNodes -> Nat]
    /\ writes \in Nat /\ writes >= 1 /\ millis \in Nat
    /\ previousConfigIndex \in Nat
    /\ crawl \in {"none", "first", "changed", "same", "not found"}

\* Nothing has a later stamp than this.
Present == IF backend = "zk" THEN millis ELSE writes

\* A key is in a directory, and none was stored later than its stamp says, nor later
\* than now.
TreeKnown ==
    /\ \A k \in StoreKeys : stored[k] # 0 => Directory(k[1]) \in directories
    /\ \A k \in StoreKeys : stored[k] <= writes /\ (backend = "etcd" => stored[k] <= stamp[k])
    /\ \A n \in StoreNodes : stamp[n] <= Present

\* What was written since the reference was taken is later than its index, or in
\* ZooKeeper not before it.
WrittenLater ==
    /\ previousConfigIndex <= Present
    /\ backend = "consul" => \/ stored = reference
                             \/ previousConfigIndex < writes
    /\ \A k \in StoreKeys :
          /\ backend = "etcd" => stored[k] \in {0, reference[k]} \/ stored[k] > previousConfigIndex
          /\ backend = "zk" => stored[k] \in {0, reference[k]} \/ stamp[k] >= previousConfigIndex

ClientsInv == ClientsType /\ TreeKnown /\ WrittenLater /\ ChangesNoticed

LEMMA PresentType == ClientsType => Present \in Nat
  BY DEF ClientsType, Present

LEMMA BoundedMax ==
    ASSUME NEW b \in Nat, NEW S \in SUBSET (0..b), S # {}
    PROVE  Max(S) \in S /\ Max(S) \in 0..b /\ \A y \in S : Max(S) >= y
<1>1. 0 \in Int /\ b \in Int
  OBVIOUS
<1>2. IsFiniteSet(0..b)
  BY <1>1, FS_Interval, Zenon
<1>3. IsFiniteSet(S)
  BY <1>2, FS_Subset
<1>4. S \in SUBSET Int
  OBVIOUS
<1>5. Max(S) \in S /\ \A y \in S : Max(S) >= y
  BY <1>3, <1>4, MaxOfFinite
<1> QED
  BY <1>5

\* The newest of some stamps.
LEMMA NewestStamp ==
    ASSUME ClientsType, TreeKnown, NEW S \in SUBSET StoreNodes, S # {}
    PROVE  /\ Max({stamp[n] : n \in S}) \in Nat
           /\ Max({stamp[n] : n \in S}) <= Present
           /\ \A n \in S : stamp[n] <= Max({stamp[m] : m \in S})
<1> DEFINE T == {stamp[n] : n \in S}
           b == Present
<1>1. b \in Nat /\ T \in SUBSET (0..b) /\ T # {}
  <2>1. b \in Nat
    BY PresentType
  <2>2. \A n \in S : stamp[n] \in Nat /\ stamp[n] <= b
    BY DEF ClientsType, TreeKnown
  <2>3. \A n \in S : stamp[n] \in 0..b
    <3> HIDE DEF b
    <3> QED
      BY <2>1, <2>2
  <2>4. T # {}
    OBVIOUS
  <2> QED
    BY <2>1, <2>3, <2>4
<1>2. \A n \in S : stamp[n] \in T
  OBVIOUS
<1> HIDE DEF T, b
<1>3. Max(T) \in T /\ Max(T) \in 0..b /\ \A y \in T : Max(T) >= y
  BY <1>1, BoundedMax
<1>4. Max(T) \in Nat /\ Max(T) <= b
  BY <1>1, <1>3
<1>5. ASSUME NEW n \in S PROVE stamp[n] <= Max(T)
  <2>1. stamp[n] \in T /\ stamp[n] \in Nat
    BY <1>2 DEF ClientsType
  <2> QED
    BY <1>3, <1>4, <2>1
<1> QED
  BY <1>4, <1>5 DEF T, b

LEMMA LastIsThere ==
    ASSUME NEW names, names \in Seq(Range(names)), NEW exist, exist \cap Range(names) # {}
    PROVE  LastOf(names, exist) \in exist
<1> DEFINE S == {j \in DOMAIN names : names[j] \in exist}
<1>1. DOMAIN names = 1..Len(names) /\ Len(names) \in Nat
  OBVIOUS
<1>2. S \in SUBSET (0..Len(names)) /\ S # {}
  BY <1>1 DEF Range
<1>3. Max(S) \in S
  BY <1>1, <1>2, BoundedMax
<1> QED
  BY <1>3 DEF LastOf

LEMMA LeavesAreNodes ==
    ASSUME ClientsType, TreeKnown
    PROVE  /\ {RootDir} \cup StoreLeaves \in SUBSET StoreNodes
           /\ \A k \in StoreKeys : stored[k] # 0 => k \in StoreLeaves
<1>1. StoreLeaves \subseteq StoreNodes
  BY DEF StoreLeaves, StoreKeysOf, StoreNodes, ClientsType, Images
<1>2. ASSUME NEW k \in StoreKeys, stored[k] # 0 PROVE k \in StoreLeaves
  <2>1. Directory(k[1]) \in directories /\ k \in StoreKeysOf(Directory(k[1]))
    BY <1>2 DEF TreeKnown, StoreKeysOf
  <2> QED
    BY <2>1 DEF StoreLeaves
<1> QED
  BY <1>1, <1>2 DEF StoreNodes

LEMMA LastKeysAreStored ==
    ASSUME ClientsType
    PROVE  /\ \A k \in LastKeys : k \in StoreKeys /\ stored[k] # 0
           /\ {RootDir} \cup LastDirectories \cup LastKeys \in SUBSET StoreNodes
<1>1. ASSUME NEW d \in LastDirectories PROVE d \in directories /\ \E i \in Images : d = Directory(i)
  <2> DEFINE there == {i \in Range(StoreImages) : Directory(i) \in directories}
             last == LastOf(StoreImages, there)
  <2>1. directories # {} /\ d = Directory(last)
    BY <1>1 DEF LastDirectories
  <2>2. there \cap Range(StoreImages) # {}
    BY ZenonT(30), <2>1 DEF ClientsType, Images
  <2>3. StoreImages \in Seq(Range(StoreImages))
    BY ClientsAssumption
  <2>4. last \in there
    <3> HIDE DEF there
    <3> QED
      BY <2>2, <2>3, LastIsThere
  <2> QED
    BY <2>1, <2>4 DEF Images
<1>2. ASSUME NEW d \in LastDirectories, StoreKeysOf(d) # {}
      PROVE  <<d[1], LastOf(StoreParams, {k[2] : k \in StoreKeysOf(d)})>> \in StoreKeysOf(d)
  <2> DEFINE there == {k[2] : k \in StoreKeysOf(d)}
  <2>1. PICK j \in StoreKeysOf(d) : TRUE
    BY <1>2
  <2>2. j[2] \in there /\ j[2] \in Range(StoreParams)
    BY <2>1 DEF StoreKeysOf, StoreKeys
  <2>3. StoreParams \in Seq(Range(StoreParams)) /\ there \cap Range(StoreParams) # {}
    BY <2>2, ClientsAssumption
  <2>4. LastOf(StoreParams, there) \in there
    <3> HIDE DEF there
    <3> QED
      BY <2>3, LastIsThere
  <2>5. PICK k \in StoreKeysOf(d) : LastOf(StoreParams, there) = k[2]
    BY <2>4
  <2>6. k \in StoreKeys /\ Directory(k[1]) = d
    BY <2>5 DEF StoreKeysOf
  <2>7. d[1] = k[1] /\ k = <<k[1], k[2]>>
    BY <2>6 DEF Directory, StoreKeys
  <2> QED
    BY <2>5, <2>7
<1>3. ASSUME NEW k \in LastKeys PROVE k \in StoreKeys /\ stored[k] # 0
  BY <1>2, <1>3 DEF LastKeys, StoreKeysOf
<1> QED
  BY <1>1, <1>3 DEF StoreNodes, Images

LEMMA IndexIsPast ==
    ASSUME ClientsType, TreeKnown
    PROVE  /\ ConfigIndex \in Nat
           /\ ConfigIndex <= Present
           /\ backend = "etcd" => \A k \in StoreKeys : stored[k] # 0 => stored[k] <= ConfigIndex
           /\ backend = "zk" => \A k \in LastKeys : stored[k] # 0 /\ k \in StoreKeys /\ stamp[k] <= ConfigIndex
<1>1. CASE backend = "consul"
  <2>1. ConfigIndex = writes /\ Present = writes /\ writes \in Nat /\ backend # "etcd" /\ backend # "zk"
    BY <1>1 DEF ConfigIndex, ClientsType, Present
  <2> QED
    BY <2>1
<1>2. CASE backend = "etcd"
  <2>1. PICK S \in SUBSET StoreNodes : S = {RootDir} \cup StoreLeaves /\ S # {}
    BY LeavesAreNodes
  <2>2. ConfigIndex = Max({stamp[n] : n \in S})
    BY <1>2, <2>1 DEF ConfigIndex, EtcdIndex
  <2>3. /\ ConfigIndex \in Nat /\ ConfigIndex <= Present
        /\ \A n \in S : stamp[n] <= ConfigIndex
    BY <2>1, <2>2, NewestStamp
  <2>4. ASSUME NEW k \in StoreKeys, stored[k] # 0 PROVE stored[k] <= ConfigIndex
    <3>1. k \in S /\ stored[k] <= stamp[k] /\ stamp[k] <= ConfigIndex
      BY <1>2, <2>1, <2>3, <2>4, LeavesAreNodes DEF TreeKnown
    <3>2. stored[k] \in Nat /\ stamp[k] \in Nat
      BY <2>1, <3>1 DEF ClientsType
    <3> QED
      BY <2>3, <3>1, <3>2
  <2> QED
    BY <1>2, <2>3, <2>4
<1>3. CASE backend = "zk"
  <2>1. PICK S \in SUBSET StoreNodes : S = {RootDir} \cup LastDirectories \cup LastKeys /\ S # {}
    BY LastKeysAreStored
  <2>2. ConfigIndex = Max({stamp[n] : n \in S})
    BY <1>3, <2>1 DEF ConfigIndex, Mtime
  <2>3. /\ ConfigIndex \in Nat /\ ConfigIndex <= Present
        /\ \A n \in S : stamp[n] <= ConfigIndex
    BY <2>1, <2>2, NewestStamp
  <2> QED
    BY <1>3, <2>1, <2>3, LastKeysAreStored
<1> QED
  BY <1>1, <1>2, <1>3 DEF ClientsType

LEMMA ClientsInitially == ClientsInit => ClientsInv
<1> SUFFICES ASSUME ClientsInit PROVE ClientsInv
  OBVIOUS
<1>1. ClientsType
  BY DEF ClientsInit, ClientsType, NoConfigIndex
<1>2. TreeKnown /\ WrittenLater /\ ChangesNoticed
  <2>1. Present = 1
    BY DEF ClientsInit, Present
  <2>2. TreeKnown
    <3>1. \A k \in StoreKeys : k \in StoreNodes /\ stored[k] = 0 /\ stamp[k] = 1
      BY DEF ClientsInit, StoreNodes
    <3>2. \A n \in StoreNodes : stamp[n] = 1
      BY DEF ClientsInit
    <3>3. writes = 1
      BY DEF ClientsInit
    <3> QED
      BY <2>1, <3>1, <3>2, <3>3 DEF TreeKnown
  <2>3. WrittenLater
    <3>1. /\ stored = reference /\ previousConfigIndex = 0 /\ previousConfigIndex <= Present
          /\ \A k \in StoreKeys : stored[k] = 0
      BY <2>1 DEF ClientsInit, NoConfigIndex
    <3> QED
      BY <3>1 DEF WrittenLater
  <2>4. ChangesNoticed
    BY DEF ClientsInit, ChangesNoticed
  <2> QED
    BY <2>2, <2>3, <2>4
<1> QED
  BY <1>1, <1>2 DEF ClientsInv

\* Time goes on with every write.
LEMMA LaterWrites ==
    ASSUME ClientsType, StoreWrite
    PROVE  /\ writes \in Nat /\ writes' \in Nat /\ writes' = writes + 1 /\ writes' >= 1 /\ millis' \in Nat
           /\ Present \in Nat /\ Present' \in Nat /\ Present <= Present'
           /\ Stamp = Present'
           /\ backend # "zk" => Present = writes /\ Present' = writes + 1
<1>1. /\ writes \in Nat /\ millis \in Nat /\ writes' = writes + 1 /\ backend' = backend
      /\ millis' = millis \/ millis' = millis + 1
  BY DEF ClientsType, StoreWrite
<1>2. writes' \in Nat /\ writes' >= 1 /\ millis' \in Nat /\ millis <= millis' /\ writes <= writes'
  BY <1>1
<1>3. CASE backend = "zk"
  <2>1. Present = millis /\ Present' = millis' /\ Stamp = millis'
    BY <1>1, <1>3 DEF Present, Stamp
  <2> QED
    BY <1>1, <1>2, <1>3, <2>1
<1>4. CASE backend # "zk"
  <2>1. Present = writes /\ Present' = writes' /\ Stamp = writes'
    BY <1>1, <1>4 DEF Present, Stamp
  <2> QED
    BY <1>1, <1>2, <2>1
<1> QED
  BY <1>3, <1>4

LEMMA PutStep ==
    ASSUME ClientsInv, NEW k \in StoreKeys, PutKey(k)
    PROVE  ClientsInv'
<1> USE DEF ClientsInv
<1>1. /\ writes' = writes + 1 /\ millis' \in {millis, millis + 1} /\ crawl' = "none"
      /\ UNCHANGED <<backend, previousConfigIndex, reference>>
      /\ stored' = [stored EXCEPT ![k] = writes']
      /\ directories' = directories \cup {Directory(k[1])} /\ rootExists' = TRUE
      /\ DOMAIN stamp' = StoreNodes /\ stamp'[k] = Stamp
      /\ \A n \in StoreNodes : stamp'[n] = Stamp \/ stamp'[n] = stamp[n]
  <2>1. k \in StoreNodes
    BY DEF StoreNodes
  <2> QED
    BY <2>1 DEF PutKey, StoreWrite, ClientsType
<1>2. /\ writes \in Nat /\ writes' \in Nat /\ writes' = writes + 1 /\ writes' >= 1 /\ millis' \in Nat
      /\ Present \in Nat /\ Present' \in Nat /\ Present <= Present'
      /\ Stamp = Present'
      /\ backend # "zk" => Present = writes /\ Present' = writes + 1
  BY LaterWrites DEF PutKey
<1>3. k[1] \in Images /\ StoreKeys \subseteq StoreNodes
  BY DEF StoreKeys, StoreNodes, Images
<1>4. \A n \in StoreNodes : stamp[n] \in Nat /\ stamp[n] <= Present
  BY DEF ClientsType, TreeKnown
<1>5. \A n \in StoreNodes : stamp'[n] \in Nat /\ stamp'[n] <= Present' /\ stamp[n] <= stamp'[n]
  <2> SUFFICES ASSUME NEW n \in StoreNodes
               PROVE  stamp'[n] \in Nat /\ stamp'[n] <= Present' /\ stamp[n] <= stamp'[n]
    OBVIOUS
  <2> QED
    BY <1>1, <1>2, <1>4
<1>6. \A j \in StoreKeys : stored'[j] = IF j = k THEN writes + 1 ELSE stored[j]
  BY <1>1 DEF ClientsType
<1>7. ClientsType'
  <2>1. stored' \in [StoreKeys -> Nat]
    BY <1>1, <1>2 DEF ClientsType
  <2>2. stamp' \in [StoreNodes -> Nat]
    <3>1. stamp' = [n \in StoreNodes |-> stamp'[n]]
      BY DEF PutKey
    <3> QED
      BY <3>1, <1>5
  <2>3. directories' \subseteq {Directory(i) : i \in Images}
    BY <1>1, <1>3 DEF ClientsType
  <2> QED
    BY <1>1, <1>2, <2>1, <2>2, <2>3 DEF ClientsType
<1>8. TreeKnown'
  <2>1. \A j \in StoreKeys : stored'[j] # 0 => Directory(j[1]) \in directories'
    BY <1>1, <1>6 DEF TreeKnown
  <2>2. ASSUME NEW j \in StoreKeys
        PROVE  stored'[j] <= writes' /\ (backend' = "etcd" => stored'[j] <= stamp'[j])
    <3>1. CASE j = k
      <4>1. stored'[j] = writes + 1 /\ stamp'[j] = Present' /\ writes \in Nat
        BY <1>1, <1>2, <1>6, <3>1 DEF ClientsType
      <4> QED
        BY <1>1, <1>2, <4>1
    <3>2. CASE j # k
      <4>1. /\ stored'[j] = stored[j] /\ stored[j] \in Nat /\ stored[j] <= writes
            /\ backend = "etcd" => stored[j] <= stamp[j]
            /\ writes \in Nat
        BY <1>6, <3>2 DEF ClientsType, TreeKnown
      <4>2. stamp[j] \in Nat /\ stamp'[j] \in Nat /\ stamp[j] <= stamp'[j]
        BY <1>3, <1>4, <1>5
      <4> QED
        BY <1>1, <4>1, <4>2
    <3> QED
      BY <3>1, <3>2
  <2> QED
    BY <1>5, <2>1, <2>2 DEF TreeKnown
<1>9. WrittenLater'
  <2>1. previousConfigIndex \in Nat /\ previousConfigIndex <= Present
    BY DEF WrittenLater, ClientsType
  <2>2. previousConfigIndex' <= Present'
    BY <1>1, <1>2, <2>1
  <2>3. backend = "consul" => previousConfigIndex < writes'
    BY <1>2, <2>1
  <2>4. ASSUME NEW j \in StoreKeys
        PROVE  /\ backend' = "etcd" => stored'[j] \in {0, reference'[j]} \/ stored'[j] > previousConfigIndex'
               /\ backend' = "zk" => stored'[j] \in {0, reference'[j]} \/ stamp'[j] >= previousConfigIndex'
    <3>1. CASE j = k
      <4>1. stored'[j] = writes + 1 /\ stamp'[j] = Present'
        BY <1>1, <1>2, <1>6, <3>1
      <4>2. backend = "etcd" => stored'[j] > previousConfigIndex
        BY <1>2, <2>1, <4>1
      <4>3. stamp'[j] >= previousConfigIndex
        BY <1>2, <2>1, <4>1
      <4> QED
        BY <1>1, <4>2, <4>3
    <3>2. CASE j # k
      <4>1. stored'[j] = stored[j] /\ stored[j] \in Nat
        BY <1>6, <3>2 DEF ClientsType
      <4>2. stamp[j] \in Nat /\ stamp'[j] \in Nat /\ stamp[j] <= stamp'[j]
        BY <1>3, <1>4, <1>5
      <4>3. /\ backend = "etcd" => stored[j] \in {0, reference[j]} \/ stored[j] > previousConfigIndex
            /\ backend = "zk" => stored[j] \in {0, reference[j]} \/ stamp[j] >= previousConfigIndex
        BY DEF WrittenLater
      <4> QED
        BY <1>1, <2>1, <4>1, <4>2, <4>3
    <3> QED
      BY <3>1, <3>2
  <2>5. backend' = "consul" => stored' = reference' \/ previousConfigIndex' < writes'
    BY <1>1, <2>3
  <2> QED
    BY <2>2, <2>4, <2>5 DEF WrittenLater
<1>10. ChangesNoticed'
  BY <1>1 DEF ChangesNoticed
<1> QED
  BY <1>7, <1>8, <1>9, <1>10

LEMMA DeleteStep ==
    ASSUME ClientsInv, DeleteAll \/ \E k \in StoreKeys : DeleteKey(k)
    PROVE  ClientsInv'
<1> USE DEF ClientsInv
<1>1. /\ writes' = writes + 1 /\ millis' \in {millis, millis + 1} /\ crawl' = "none"
      /\ UNCHANGED <<backend, previousConfigIndex, reference, stamp>>
      /\ stored' \in [StoreKeys -> Nat] /\ \A j \in StoreKeys : stored'[j] \in {0, stored[j]}
      /\ directories' \subseteq directories /\ rootExists' \in BOOLEAN
      /\ directories' # directories => \A j \in StoreKeys : stored'[j] = 0
  <2>1. CASE DeleteAll
    BY <2>1 DEF DeleteAll, StoreWrite, ClientsType
  <2>2. CASE \E k \in StoreKeys : DeleteKey(k)
    <3>1. PICK k \in StoreKeys : DeleteKey(k)
      BY <2>2
    <3>2. stored' = [stored EXCEPT ![k] = 0]
      BY <3>1 DEF DeleteKey
    <3>3. stored' \in [StoreKeys -> Nat] /\ \A j \in StoreKeys : stored'[j] \in {0, stored[j]}
      BY <3>2 DEF ClientsType
    <3> QED
      BY <3>1, <3>3 DEF DeleteKey, StoreWrite, ClientsType
  <2> QED
    BY <2>1, <2>2
<1>2. /\ writes \in Nat /\ writes' \in Nat /\ writes' = writes + 1 /\ writes' >= 1 /\ millis' \in Nat
      /\ Present \in Nat /\ Present' \in Nat /\ Present <= Present'
      /\ backend # "zk" => Present = writes /\ Present' = writes + 1
  BY LaterWrites DEF DeleteAll, DeleteKey
<1>3. ClientsType'
  BY <1>1, <1>2 DEF ClientsType
<1>4. \A j \in StoreKeys : stored'[j] = 0 \/ stored'[j] = stored[j]
  BY <1>1
<1>5. TreeKnown'
  <2>1. \A j \in StoreKeys : stored'[j] # 0 => Directory(j[1]) \in directories'
    BY <1>1, <1>4 DEF TreeKnown
  <2>2. ASSUME NEW j \in StoreKeys
        PROVE  stored'[j] <= writes' /\ (backend' = "etcd" => stored'[j] <= stamp'[j])
    <3>1. /\ stored[j] \in Nat /\ stored[j] <= writes /\ (backend = "etcd" => stored[j] <= stamp[j])
          /\ writes \in Nat /\ stamp[j] \in Nat
      BY DEF ClientsType, TreeKnown, StoreNodes
    <3> QED
      BY <1>1, <1>4, <3>1
  <2>3. ASSUME NEW n \in StoreNodes PROVE stamp'[n] <= Present'
    <3>1. stamp[n] \in Nat /\ stamp[n] <= Present
      BY DEF ClientsType, TreeKnown
    <3> QED
      BY <1>1, <1>2, <3>1
  <2> QED
    BY <2>1, <2>2, <2>3 DEF TreeKnown
<1>6. WrittenLater'
  <2>1. previousConfigIndex \in Nat /\ previousConfigIndex <= Present /\ writes \in Nat
    BY DEF WrittenLater, ClientsType
  <2>2. previousConfigIndex' <= Present'
    BY <1>1, <1>2, <2>1
  <2>3. backend = "consul" => previousConfigIndex < writes'
    BY <1>1, <1>2, <2>1
  <2>4. ASSUME NEW j \in StoreKeys
        PROVE  /\ backend' = "etcd" => stored'[j] \in {0, reference'[j]} \/ stored'[j] > previousConfigIndex'
               /\ backend' = "zk" => stored'[j] \in {0, reference'[j]} \/ stamp'[j] >= previousConfigIndex'
    BY <1>1, <1>4 DEF WrittenLater
  <2>5. backend' = "consul" => stored' = reference' \/ previousConfigIndex' < writes'
    BY <1>1, <2>3
  <2> QED
    BY <2>2, <2>4, <2>5 DEF WrittenLater
<1>7. ChangesNoticed'
  BY <1>1 DEF ChangesNoticed
<1> QED
  BY <1>3, <1>5, <1>6, <1>7

\* A crawl that finds no change keeps the reference, for which it has to be right.
LEMMA CrawlStep ==
    ASSUME ClientsInv, FirstCrawl \/ ChangeFound \/ NoChangeFound
    PROVE  ClientsInv'
<1> USE DEF ClientsInv
<1>1. /\ UNCHANGED <<backend, stored, directories, rootExists, stamp, writes, millis>>
      /\ previousConfigIndex' = ConfigIndex
      /\ \/ crawl' \in {"first", "changed"} /\ reference' = stored
         \/ crawl' = "same" /\ reference' = reference /\ previousConfigIndex = ConfigIndex
  BY DEF FirstCrawl, ChangeFound, NoChangeFound, Crawled, treeVars
<1>2. /\ ConfigIndex \in Nat /\ ConfigIndex <= Present
      /\ backend = "etcd" => \A k \in StoreKeys : stored[k] # 0 => stored[k] <= ConfigIndex
      /\ backend = "zk" => \A k \in LastKeys : stored[k] # 0 /\ k \in StoreKeys /\ stamp[k] <= ConfigIndex
  BY IndexIsPast
<1>3. Present' = Present
  BY <1>1 DEF Present
<1>4. ClientsType'
  BY <1>1, <1>2 DEF ClientsType
<1>5. TreeKnown'
  BY <1>1, <1>3 DEF TreeKnown
<1>6. WrittenLater'
  <2>1. previousConfigIndex' <= Present'
    BY <1>1, <1>2, <1>3
  <2>2. CASE reference' = stored
    <3>1. \A k \in StoreKeys : stored'[k] = reference'[k]
      BY <1>1, <2>2
    <3>2. stored' = reference'
      BY <1>1, <2>2
    <3> QED
      BY <2>1, <3>1, <3>2 DEF WrittenLater
  <2>3. CASE reference' = reference /\ previousConfigIndex' = previousConfigIndex
    BY <1>1, <1>3, <2>3 DEF WrittenLater
  <2> QED
    BY <1>1, <2>2, <2>3
<1>7. ASSUME crawl' = "same"
      PROVE  /\ backend = "consul" => stored = reference
             /\ backend = "etcd" => \A k \in StoreKeys : stored[k] \in {0, reference[k]}
             /\ backend = "zk" => \A k \in LastKeys : stored[k] = reference[k] \/ stamp[k] = previousConfigIndex
  <2>1. previousConfigIndex = ConfigIndex
    BY <1>1, <1>7
  <2>2. ASSUME backend = "consul" PROVE stored = reference
    <3>1. previousConfigIndex = writes /\ writes \in Nat
      BY <2>1, <2>2 DEF ConfigIndex, ClientsType
    <3>2. ~(previousConfigIndex < writes)
      BY <3>1
    <3> QED
      BY <2>2, <3>2 DEF WrittenLater
  <2>3. ASSUME backend = "etcd", NEW k \in StoreKeys PROVE stored[k] \in {0, reference[k]}
    <3>1. stored[k] \in Nat /\ previousConfigIndex \in Nat
      BY DEF ClientsType
    <3>2. stored[k] # 0 => stored[k] <= previousConfigIndex
      BY <1>2, <2>1, <2>3
    <3>3. stored[k] \in {0, reference[k]} \/ stored[k] > previousConfigIndex
      BY <2>3 DEF WrittenLater
    <3> QED
      BY <3>1, <3>2, <3>3
  <2>4. ASSUME backend = "zk", NEW k \in LastKeys PROVE stored[k] = reference[k] \/ stamp[k] = previousConfigIndex
    <3>1. stored[k] # 0 /\ k \in StoreKeys /\ stamp[k] <= previousConfigIndex
      BY <1>2, <2>1, <2>4
    <3>2. stamp[k] \in Nat /\ previousConfigIndex \in Nat
      BY <3>1 DEF ClientsType, StoreNodes
    <3>3. stored[k] = reference[k] \/ stamp[k] >= previousConfigIndex
      BY <2>4, <3>1 DEF WrittenLater
    <3> QED
      BY <3>1, <3>2, <3>3
  <2> QED
    BY <2>2, <2>3, <2>4
<1>8. ChangesNoticed'
  <2>1. LastKeys' = LastKeys
    BY <1>1 DEF LastKeys, LastDirectories, StoreKeysOf
  <2>2. CASE crawl' # "same"
    BY <2>2 DEF ChangesNoticed
  <2>3. CASE crawl' = "same"
    <3>1. reference' = reference /\ previousConfigIndex' = previousConfigIndex
      BY <1>1, <2>3
    <3> QED
      BY <1>1, <1>7, <2>1, <2>3, <3>1 DEF ChangesNoticed
  <2> QED
    BY <2>2, <2>3
<1> QED
  BY <1>4, <1>5, <1>6, <1>8

LEMMA ClientsStep == ClientsInv /\ [ClientsNext]_storeClientVars => ClientsInv'
<1> SUFFICES ASSUME ClientsInv, [ClientsNext]_storeClientVars PROVE ClientsInv'
  OBVIOUS
<1>1. CASE \E k \in StoreKeys : PutKey(k)
  BY <1>1, PutStep
<1>2. CASE DeleteAll \/ \E k \in StoreKeys : DeleteKey(k)
  BY <1>2, DeleteStep
<1>3. CASE FirstCrawl \/ ChangeFound \/ NoChangeFound
  BY <1>3, CrawlStep
<1>4. CASE NothingFound \/ UNCHANGED storeClientVars
  <2>1. /\ UNCHANGED <<backend, stored, directories, rootExists, stamp, writes, millis, previousConfigIndex,
                       reference>>
        /\ crawl' \in {"not found", crawl}
    BY <1>4 DEF NothingFound, treeVars, storeClientVars
  <2>2. ClientsType' /\ TreeKnown' /\ WrittenLater'
    BY <2>1 DEF ClientsInv, ClientsType, TreeKnown, WrittenLater, Present
  <2>3. ChangesNoticed'
    BY <2>1 DEF ClientsInv, ChangesNoticed, LastKeys, LastDirectories, StoreKeysOf
  <2> QED
    BY <2>2, <2>3 DEF ClientsInv
<1> QED
  BY <1>1, <1>2, <1>3, <1>4 DEF ClientsNext

\* Whatever is written and deleted and whenever it is crawled, a crawl that finds the
\* index unchanged has missed nothing with consul, only deletions with etcd, and none
\* of the last keys with ZooKeeper but in the same millisecond.
THEOREM ChangesNoticedCorrect == ClientsSpec => []ChangesNoticed
  BY ClientsInitially, ClientsStep, PTL DEF ClientsSpec, ClientsInv

-----------------------------------------------------------------------------
(* CheckLoading *)

Oldest == [name |-> Nagios, kind |-> "deprecated"]
Kinds == {"yaml", "default", "deprecated", "discovery"}

\* The file of conf.d for a name, and what it says.
ConfPath(n) == [name |-> n, kind |-> IF disk[n].yaml # "none" THEN "yaml" ELSE "default"]
Configured == {n \in LoadNames : InConfd(n)}
PathSet == {ConfPath(n) : n \in Configured} \cup (IF disk[Nagios].oldKeys THEN {Oldest} ELSE {})
Said(n) == FromFile(ConfPath(n))
IsRead(n, todo) == \A i \in DOMAIN todo : todo[i] # ConfPath(n)
Read(n) == IsRead(n, paths)

LoadType ==
    /\ disk \in Disks /\ loadPc \in {"files", "discovery", "loaded"}
    /\ paths \in Seq(PathSet) /\ (loadPc # "files" => paths = <<>>)
    /\ discovered \subseteq {n \in LoadNames : disk[n].discovered}
    /\ initialized = [n \in LoadNames |-> initialized[n]] /\ initFailed = [n \in LoadNames |-> initFailed[n]]

\* A file of conf.d is not forgotten for service discovery: if it says nothing, no more
\* does service discovery.
FilesFirst ==
    \A n \in Configured :
        /\ initialized[n].source # "discovery"
        /\ Read(n) /\ Found(n) = Nothing => Said(n) = Nothing

\* Without old keys a name has what its file says, or service discovery.
FoundKnown ==
    \A n \in LoadNames :
        ~disk[n].oldKeys =>
            IF n \in Configured
            THEN Found(n) \in {Nothing, Said(n)} /\ (Read(n) => Found(n) = Said(n))
            ELSE Found(n) = Nothing \/ (disk[n].discovered /\ Found(n) = FromPlaces(n, "discovery"))

LoadInv == LoadType /\ FilesFirst /\ FoundKnown

\* What a load gives: a check, a failure or nothing, the same for any source.
LEMMA FromPlacesGives ==
    ASSUME NEW n, NEW source \in Kinds
    PROVE  LET r == FromPlaces(n, source)
           IN  /\ r = [check |-> r.check, failure |-> r.failure]
               /\ r.check = NoCheck \/ (r.check.source = source /\ r.failure = "none" /\ Candidates(n) # {})
               /\ r = Nothing => Candidates(n) = {}
               /\ \A other \in Kinds : FromPlaces(n, other) = Nothing => r = Nothing
<1> DEFINE p == Min(Candidates(n))
           last == disk[n].places[Max(Files(n))]
           made(k) == [check |-> [source |-> k, place |-> p], failure |-> "none"]
           broken == [check |-> NoCheck, failure |-> "init error"]
           failed == [check |-> NoCheck, failure |-> "import error"]
<1>1. \A k : Candidates(n) # {} /\ disk[n].places[p] = "class" => FromPlaces(n, k) = made(k)
  BY DEF FromPlaces
<1>2. \A k : Candidates(n) # {} /\ disk[n].places[p] # "class" => FromPlaces(n, k) = broken
  BY DEF FromPlaces
<1>3. \A k : Candidates(n) = {} /\ Files(n) # {} /\ last = "import error" => FromPlaces(n, k) = failed
  BY DEF FromPlaces
<1>4. \A k : Candidates(n) = {} /\ ~(Files(n) # {} /\ last = "import error") => FromPlaces(n, k) = Nothing
  BY DEF FromPlaces, Nothing
<1>5. \A k \in Kinds : /\ made(k) # Nothing /\ made(k).check.source = k /\ made(k).failure = "none"
                       /\ made(k) = [check |-> made(k).check, failure |-> made(k).failure]
  BY DEF Nothing, NoCheck, Kinds
<1>6. /\ broken # Nothing /\ broken.check = NoCheck /\ broken = [check |-> broken.check, failure |-> broken.failure]
      /\ failed # Nothing /\ failed.check = NoCheck /\ failed = [check |-> failed.check, failure |-> failed.failure]
      /\ Nothing.check = NoCheck /\ Nothing = [check |-> Nothing.check, failure |-> Nothing.failure]
  BY DEF Nothing
<1> HIDE DEF made, broken, failed, last, p
<1> QED
  BY <1>1, <1>2, <1>3, <1>4, <1>5, <1>6

LEMMA FromFileGives ==
    ASSUME NEW conf, conf.kind \in {"yaml", "default", "deprecated"}
    PROVE  LET r == FromFile(conf)
           IN  /\ r = [check |-> r.check, failure |-> r.failure]
               /\ r.check = NoCheck \/ (r.check.source = conf.kind /\ r.failure = "none")
               /\ r = Nothing => Candidates(conf.name) = {}
               /\ r = Nothing => FromPlaces(conf.name, "discovery") = Nothing
<1> DEFINE bad == [check |-> NoCheck, failure |-> "invalid yaml"]
<1>1. FromFile(conf) = FromPlaces(conf.name, conf.kind) \/ FromFile(conf) = bad
  BY DEF FromFile
<1>2. bad = [check |-> bad.check, failure |-> bad.failure] /\ bad.check = NoCheck /\ bad # Nothing
  BY DEF Nothing
<1>3. conf.kind \in Kinds /\ "discovery" \in Kinds
  BY DEF Kinds
<1> HIDE DEF bad
<1>4. CASE FromFile(conf) = bad
  BY <1>2, <1>4
<1>5. CASE FromFile(conf) = FromPlaces(conf.name, conf.kind)
  <2>1. PICK k \in Kinds : k = conf.kind
    BY <1>3
  <2>2. PICK n : n = conf.name
    OBVIOUS
  <2>3. PICK r : r = FromPlaces(n, k)
    OBVIOUS
  <2>4. /\ r = [check |-> r.check, failure |-> r.failure]
        /\ r.check = NoCheck \/ (r.check.source = k /\ r.failure = "none" /\ Candidates(n) # {})
        /\ r = Nothing => Candidates(n) = {}
    BY <2>3, FromPlacesGives
  <2>5. r = Nothing => FromPlaces(n, "discovery") = Nothing
    BY <1>3, <2>3, FromPlacesGives
  <2> QED
    BY <1>5, <2>1, <2>2, <2>3, <2>4, <2>5
<1> QED
  BY <1>1, <1>4, <1>5

\* The disk is as it was when the load began.
LEMMA LoadInvFrom ==
    ASSUME disk' = disk, LoadType',
           \A n \in Configured :
              /\ initialized'[n].source # "discovery"
              /\ IsRead(n, paths') /\ Found(n)' = Nothing => Said(n) = Nothing,
           \A n \in LoadNames : ~disk[n].oldKeys =>
              /\ n \in Configured => Found(n)' \in {Nothing, Said(n)} /\ (IsRead(n, paths') => Found(n)' = Said(n))
              /\ n \notin Configured =>
                    Found(n)' = Nothing \/ (disk[n].discovered /\ Found(n)' = FromPlaces(n, "discovery"))
    PROVE  LoadInv'
<1>1. Configured' = Configured
  BY DEF Configured, InConfd
<1>2. \A n : Said(n)' = Said(n) /\ FromPlaces(n, "discovery")' = FromPlaces(n, "discovery")
  <2>1. \A n : Candidates(n)' = Candidates(n) /\ Files(n)' = Files(n) /\ ConfPath(n)' = ConfPath(n)
    BY DEF Candidates, Files, ConfPath
  <2>2. \A n, k : FromPlaces(n, k)' = FromPlaces(n, k)
    BY <2>1, Zenon DEF FromPlaces
  <2>3. \A n : FromFile(ConfPath(n))' = FromFile(ConfPath(n))
    BY <2>1, <2>2 DEF FromFile
  <2> QED
    BY <2>2, <2>3 DEF Said
<1>3. \A n : Read(n)' <=> IsRead(n, paths')
  BY DEF Read, IsRead, ConfPath
<1>4. FilesFirst'
  BY <1>1, <1>2, <1>3 DEF FilesFirst, Nothing, NoCheck
<1>5. FoundKnown'
  BY <1>1, <1>2, <1>3 DEF FoundKnown, Nothing, NoCheck
<1> QED
  BY <1>4, <1>5 DEF LoadInv

LEMMA PathsAre ==
    ASSUME NEW conf \in PathSet
    PROVE  /\ conf.name \in LoadNames /\ conf.kind \in {"yaml", "default", "deprecated"}
           /\ \/ conf.name \in Configured /\ conf = ConfPath(conf.name)
              \/ conf.name = Nagios /\ disk[Nagios].oldKeys
<1>1. (\E n \in Configured : conf = ConfPath(n)) \/ (disk[Nagios].oldKeys /\ conf = Oldest)
  BY DEF PathSet
<1>2. Nagios \in LoadNames
  BY LoadAssumption
<1> QED
  BY <1>1, <1>2 DEF ConfPath, Oldest, Configured

\* What a result changes.
LEMMA UpdateGives ==
    ASSUME LoadType, NEW n \in LoadNames, NEW r, r = [check |-> r.check, failure |-> r.failure], Update(n, r)
    PROVE  /\ \A k \in LoadNames : k # n => Found(k)' = Found(k) /\ initialized'[k] = initialized[k]
           /\ Found(n)' = Nothing => Found(n) = Nothing /\ r = Nothing
           /\ Found(n) \in {Nothing, r} => Found(n)' = r
           /\ r.check = NoCheck => initialized'[n] = initialized[n]
           /\ r.check # NoCheck => initialized'[n] = r.check
           /\ r = Nothing => Found(n)' = Found(n)
           /\ initialized' = [k \in LoadNames |-> initialized'[k]]
           /\ initFailed' = [k \in LoadNames |-> initFailed'[k]]
<1>1. /\ DOMAIN initialized = LoadNames /\ DOMAIN initFailed = LoadNames
      /\ initialized = [k \in LoadNames |-> initialized[k]] /\ initFailed = [k \in LoadNames |-> initFailed[k]]
  BY DEF LoadType
<1>2. /\ r.check = NoCheck => initialized' = initialized
      /\ r.check # NoCheck => initialized' = [initialized EXCEPT ![n] = r.check]
  BY DEF Update
<1>3. /\ r.failure = "none" => initFailed' = initFailed
      /\ r.failure # "none" => initFailed' = [initFailed EXCEPT ![n] = r.failure]
  BY DEF Update
<1>4. /\ initialized' = [k \in LoadNames |-> initialized'[k]]
      /\ \A k \in LoadNames : k # n => initialized'[k] = initialized[k]
      /\ r.check = NoCheck => initialized'[n] = initialized[n]
      /\ r.check # NoCheck => initialized'[n] = r.check
  BY <1>1, <1>2
<1>5. /\ initFailed' = [k \in LoadNames |-> initFailed'[k]]
      /\ \A k \in LoadNames : k # n => initFailed'[k] = initFailed[k]
      /\ r.failure = "none" => initFailed'[n] = initFailed[n]
      /\ r.failure # "none" => initFailed'[n] = r.failure
  BY <1>1, <1>3
<1>6. \A c, f : [check |-> c, failure |-> f] = Nothing <=> c = NoCheck /\ f = "none"
  BY DEF Nothing
<1>7. \A c, f : [check |-> c, failure |-> f] = r <=> c = r.check /\ f = r.failure
  OBVIOUS
<1>8. \A k \in LoadNames : k # n => Found(k)' = Found(k) /\ initialized'[k] = initialized[k]
  BY <1>4, <1>5 DEF Found
<1>9. Found(n)' = Nothing => Found(n) = Nothing /\ r = Nothing
  BY <1>4, <1>5, <1>6, <1>7 DEF Found
<1>10. Found(n) \in {Nothing, r} => Found(n)' = r
  BY <1>4, <1>5, <1>6, <1>7 DEF Found
<1>11. r = Nothing => Found(n)' = Found(n)
  BY <1>4, <1>5, <1>6, <1>7 DEF Found
<1> QED
  BY <1>4, <1>5, <1>8, <1>9, <1>10, <1>11

LEMMA LoadFileStep == LoadInv /\ LoadFile => LoadInv'
<1> SUFFICES ASSUME LoadInv, LoadFile PROVE LoadInv'
  OBVIOUS
<1> USE DEF LoadInv
<1>1. PICK conf : conf = Head(paths)
  OBVIOUS
<1>2. /\ paths # <<>> /\ paths' = Tail(paths) /\ Update(conf.name, FromFile(conf))
      /\ disk' = disk /\ loadPc' = loadPc /\ loadPc = "files" /\ discovered' = discovered
  BY <1>1 DEF LoadFile
<1>3. paths \in Seq(PathSet)
  BY DEF LoadType
<1>4. conf \in PathSet /\ paths' \in Seq(PathSet)
  BY <1>1, <1>2, <1>3
<1>5. \A k : IsRead(k, paths') /\ conf # ConfPath(k) => Read(k)
  <2> SUFFICES ASSUME NEW k, IsRead(k, paths'), conf # ConfPath(k), NEW i \in DOMAIN paths
               PROVE  paths[i] # ConfPath(k)
    BY DEF Read, IsRead
  <2>1. Len(paths) \in Nat /\ i \in 1..Len(paths) /\ DOMAIN paths' = 1..(Len(paths) - 1)
        /\ \A j \in 1..(Len(paths) - 1) : paths'[j] = paths[j + 1]
    BY <1>2, <1>3
  <2>2. CASE i = 1
    BY <1>1, <1>3, <2>1, <2>2
  <2>3. CASE i # 1
    <3>1. i - 1 \in 1..(Len(paths) - 1) /\ (i - 1) + 1 = i
      BY <2>1, <2>3
    <3> QED
      BY <2>1, <3>1 DEF IsRead
  <2> QED
    BY <2>2, <2>3
<1>6. PICK n, r : n = conf.name /\ r = FromFile(conf)
  OBVIOUS
<1>7. /\ n \in LoadNames /\ conf.kind \in {"yaml", "default", "deprecated"}
      /\ \/ n \in Configured /\ conf = ConfPath(n)
         \/ n = Nagios /\ disk[Nagios].oldKeys
  BY <1>4, <1>6, PathsAre
<1>8. /\ r = [check |-> r.check, failure |-> r.failure]
      /\ r.check = NoCheck \/ (r.check.source = conf.kind /\ r.failure = "none")
  BY <1>6, <1>7, FromFileGives
<1>9. Update(n, r) /\ LoadType
  BY <1>2, <1>6
<1>10. /\ \A k \in LoadNames : k # n => Found(k)' = Found(k) /\ initialized'[k] = initialized[k]
       /\ Found(n)' = Nothing => Found(n) = Nothing /\ r = Nothing
       /\ Found(n) \in {Nothing, r} => Found(n)' = r
       /\ r.check = NoCheck => initialized'[n] = initialized[n]
       /\ r.check # NoCheck => initialized'[n] = r.check
       /\ initialized' = [k \in LoadNames |-> initialized'[k]]
       /\ initFailed' = [k \in LoadNames |-> initFailed'[k]]
  BY <1>7, <1>8, <1>9, UpdateGives
<1>11. \A k : ConfPath(k).name = k
  BY DEF ConfPath
<1>12. ASSUME NEW k \in Configured
       PROVE  /\ initialized'[k].source # "discovery"
              /\ IsRead(k, paths') /\ Found(k)' = Nothing => Said(k) = Nothing
  <2>1. k \in LoadNames
    BY DEF Configured
  <2>2. initialized[k].source # "discovery" /\ (Read(k) /\ Found(k) = Nothing => Said(k) = Nothing)
    BY DEF FilesFirst
  <2>3. initialized'[k].source # "discovery"
    BY <1>7, <1>8, <1>10, <2>1, <2>2
  <2>4. Found(k)' = Nothing => Found(k) = Nothing
    BY <1>10, <2>1
  <2>5. CASE conf = ConfPath(k)
    <3>1. n = k /\ r = Said(k)
      BY <1>6, <1>11, <2>5 DEF Said
    <3> QED
      BY <1>10, <2>3, <3>1
  <2>6. CASE conf # ConfPath(k)
    BY <1>5, <2>2, <2>3, <2>4, <2>6
  <2> QED
    BY <2>5, <2>6
<1>13. ASSUME NEW k \in LoadNames, ~disk[k].oldKeys
       PROVE  /\ k \in Configured =>
                    Found(k)' \in {Nothing, Said(k)} /\ (IsRead(k, paths') => Found(k)' = Said(k))
              /\ k \notin Configured =>
                    Found(k)' = Nothing \/ (disk[k].discovered /\ Found(k)' = FromPlaces(k, "discovery"))
  <2>1. /\ k \in Configured => Found(k) \in {Nothing, Said(k)} /\ (Read(k) => Found(k) = Said(k))
        /\ k \notin Configured =>
              Found(k) = Nothing \/ (disk[k].discovered /\ Found(k) = FromPlaces(k, "discovery"))
    BY <1>13 DEF FoundKnown
  <2>2. CASE n = k
    <3>1. k \in Configured /\ conf = ConfPath(k)
      BY <1>7, <1>13, <2>2
    <3>2. r = Said(k)
      BY <1>6, <3>1 DEF Said
    <3>3. Found(k)' = Said(k)
      BY <1>10, <2>1, <2>2, <3>1, <3>2
    <3> QED
      BY <3>1, <3>3
  <2>3. CASE n # k
    <3>1. Found(k)' = Found(k) /\ conf # ConfPath(k)
      BY <1>6, <1>10, <1>11, <2>3
    <3> QED
      BY <1>5, <2>1, <3>1
  <2> QED
    BY <2>2, <2>3
<1>14. LoadType'
  <2>1. PathSet' = PathSet
    BY <1>2 DEF PathSet, ConfPath, Configured, InConfd
  <2> QED
    BY <1>2, <1>4, <1>10, <2>1 DEF LoadType
<1> QED
  BY <1>2, <1>12, <1>13, <1>14, LoadInvFrom

LEMMA LoadDiscoveredStep == ASSUME LoadInv, NEW n \in LoadNames, LoadDiscovered(n) PROVE LoadInv'
<1> USE DEF LoadInv
<1> DEFINE r == FromPlaces(n, "discovery")
<1>1. /\ loadPc = "discovery" /\ loadPc' = loadPc /\ n \in discovered /\ discovered' = discovered \ {n}
      /\ disk' = disk /\ paths' = paths
  BY DEF LoadDiscovered
<1>2. LoadType /\ paths = <<>> /\ disk[n].discovered /\ LoadNames = {k \in LoadNames : TRUE}
  BY <1>1 DEF LoadType
<1>3. \A k : Read(k) /\ IsRead(k, paths')
  BY <1>1, <1>2 DEF Read, IsRead
<1>4. \A k \in Configured : k \in LoadNames /\ initialized[k].source # "discovery" /\ (Found(k) = Nothing => Said(k) = Nothing)
  BY <1>3 DEF FilesFirst, Configured
<1>5. \A k \in LoadNames : ~disk[k].oldKeys =>
         /\ k \in Configured => Found(k) = Said(k)
         /\ k \notin Configured =>
               Found(k) = Nothing \/ (disk[k].discovered /\ Found(k) = FromPlaces(k, "discovery"))
  BY <1>3 DEF FoundKnown
<1>6. PathSet' = PathSet
  BY <1>1 DEF PathSet, ConfPath, Configured, InConfd
<1>7. CASE UNCHANGED <<initialized, initFailed>>
  <2>1. \A k : Found(k)' = Found(k) /\ initialized'[k] = initialized[k]
    BY <1>7 DEF Found
  <2>2. LoadType'
    BY <1>1, <1>2, <1>6, <1>7 DEF LoadType
  <2> QED
    BY <1>1, <1>3, <1>4, <1>5, <2>1, <2>2, LoadInvFrom
<1>8. CASE ~Ignored(n) /\ Update(n, r)
  <2>1. Found(n) = Nothing
    BY <1>8 DEF Ignored, FromFileConfig, Found, Nothing
  <2>2. r = [check |-> r.check, failure |-> r.failure]
    <3>1. "discovery" \in Kinds
      BY DEF Kinds
    <3> QED
      BY <3>1, FromPlacesGives
  <2>3. PICK q : q = r
    OBVIOUS
  <2>4. /\ \A k \in LoadNames : k # n => Found(k)' = Found(k) /\ initialized'[k] = initialized[k]
        /\ Found(n) \in {Nothing, q} => Found(n)' = q
        /\ q.check = NoCheck => initialized'[n] = initialized[n]
        /\ initialized' = [k \in LoadNames |-> initialized'[k]]
        /\ initFailed' = [k \in LoadNames |-> initFailed'[k]]
    <3> HIDE DEF r
    <3>1. q = [check |-> q.check, failure |-> q.failure] /\ Update(n, q)
      BY <1>8, <2>2, <2>3
    <3> QED
      BY <1>2, <3>1, UpdateGives
  <2>5. n \in Configured => r = Nothing
    <3>1. ASSUME n \in Configured PROVE r = Nothing
      <4>1. PICK conf : conf = ConfPath(n)
        OBVIOUS
      <4>2. conf.name = n /\ conf.kind \in {"yaml", "default", "deprecated"}
        BY <4>1 DEF ConfPath
      <4>3. FromFile(conf) = Nothing
        BY <1>4, <2>1, <3>1, <4>1 DEF Said
      <4> QED
        BY <4>2, <4>3, FromFileGives
    <3> QED
      BY <3>1
  <2>6. Nothing.check = NoCheck
    BY DEF Nothing
  <2> HIDE DEF r
  <2>7. Found(n)' = r
    BY <2>1, <2>3, <2>4
  <2>8. ASSUME NEW k \in Configured
        PROVE  initialized'[k].source # "discovery" /\ (Found(k)' = Nothing => Said(k) = Nothing)
    <3>1. CASE k = n
      BY <1>4, <2>1, <2>3, <2>4, <2>5, <2>6, <3>1
    <3>2. CASE k # n
      BY <1>4, <2>4, <3>2
    <3> QED
      BY <3>1, <3>2
  <2>9. ASSUME NEW k \in LoadNames, ~disk[k].oldKeys
        PROVE  /\ k \in Configured => Found(k)' = Said(k)
               /\ k \notin Configured =>
                     Found(k)' = Nothing \/ (disk[k].discovered /\ Found(k)' = FromPlaces(k, "discovery"))
    <3>1. CASE k = n
      BY <1>2, <1>4, <2>1, <2>5, <2>7, <3>1 DEF r
    <3>2. CASE k # n
      BY <1>5, <2>4, <2>9, <3>2
    <3> QED
      BY <3>1, <3>2
  <2>10. LoadType'
    BY <1>1, <1>2, <1>6, <2>4 DEF LoadType
  <2> QED
    BY <1>1, <1>3, <2>8, <2>9, <2>10, LoadInvFrom
<1> QED
  BY <1>7, <1>8 DEF LoadDiscovered

LEMMA FinishLoadStep == LoadInv /\ FinishLoad => LoadInv'
<1> SUFFICES ASSUME LoadInv, FinishLoad PROVE LoadInv'
  OBVIOUS
<1> USE DEF LoadInv
<1>1. /\ loadPc' = "loaded" /\ loadPc # "files" /\ disk' = disk /\ paths' = paths /\ discovered' = discovered
      /\ initialized' = initialized
      /\ initFailed' = [k \in LoadNames |-> IF disk[k].oldKeys /\ k # Nagios THEN "deprecated" ELSE initFailed[k]]
  BY DEF FinishLoad
<1>2. \A k \in LoadNames : /\ Found(k)' = Nothing => Found(k) = Nothing
                           /\ ~disk[k].oldKeys => Found(k)' = Found(k)
  <2> SUFFICES ASSUME NEW k \in LoadNames
               PROVE  /\ Found(k)' = Nothing => Found(k) = Nothing
                      /\ ~disk[k].oldKeys => Found(k)' = Found(k)
    OBVIOUS
  <2>1. initialized'[k] = initialized[k] /\ (initFailed'[k] = initFailed[k] \/ initFailed'[k] = "deprecated")
        /\ (~disk[k].oldKeys => initFailed'[k] = initFailed[k])
    BY <1>1
  <2> QED
    BY <2>1 DEF Found, Nothing
<1>3. PathSet' = PathSet
  BY <1>1 DEF PathSet, ConfPath, Configured, InConfd
<1>4. LoadType'
  BY <1>1, <1>3 DEF LoadType
<1>5. \A k : IsRead(k, paths') <=> Read(k)
  BY <1>1 DEF Read
<1>6. \A k \in Configured : k \in LoadNames
  BY DEF Configured
<1> QED
  BY <1>1, <1>2, <1>4, <1>5, <1>6, LoadInvFrom DEF FilesFirst, FoundKnown

LEMMA IntervalIsFinite == ASSUME NEW n \in Nat PROVE IsFiniteSet(1..n) /\ Cardinality(1..n) = n
<1>1. 1 \in Int /\ n \in Int
  OBVIOUS
<1>2. IsFiniteSet(1..n) /\ Cardinality(1..n) = IF 1 > n THEN 0 ELSE n - 1 + 1
  BY <1>1, FS_Interval, Zenon
<1> QED
  BY <1>2

\* SetToSeqs() gives every member of a finite set.
LEMMA SeqsOf ==
    ASSUME NEW S, IsFiniteSet(S), NEW s \in SetToSeqs(S)
    PROVE  s \in Seq(S) /\ \A x \in S : \E i \in DOMAIN s : s[i] = x
<1> DEFINE n == Cardinality(S)
<1>1. n \in Nat
  BY FS_CardinalityType
<1>2. s \in [1..n -> S] /\ \A i, j \in 1..n : i # j => s[i] # s[j]
  BY Zenon DEF SetToSeqs
<1> HIDE DEF n
<1>3. IsFiniteSet(1..n) /\ Cardinality(1..n) = n
  BY <1>1, IntervalIsFinite
<1>4. s \in Injection(1..n, S)
  BY <1>2 DEF Injection, IsInjective
<1>5. s \in Surjection(1..n, S)
  BY <1>3, <1>4, FS_Injection DEF n
<1> QED
  BY <1>1, <1>2, <1>5 DEF Surjection

LEMMA LoadInitially == LoadInit => LoadInv
<1> SUFFICES ASSUME LoadInit PROVE LoadInv
  OBVIOUS
<1>1. /\ disk \in Disks /\ loadPc = "files" /\ discovered = {} /\ paths \in FileConfigsPaths
      /\ initialized = [n \in LoadNames |-> NoCheck] /\ initFailed = [n \in LoadNames |-> "none"]
  BY DEF LoadInit
<1>2. \A n \in LoadNames : Found(n) = Nothing
  BY <1>1 DEF Found, Nothing
<1>3. PICK y \in SetToSeqs(YamlPaths), d \in SetToSeqs(DefaultPaths) : paths = y \o d \o DeprecatedPath
  BY <1>1 DEF FileConfigsPaths
<1>4. IsFiniteSet(YamlPaths) /\ IsFiniteSet(DefaultPaths)
  <2>1. ASSUME NEW N \in SUBSET LoadNames, NEW k PROVE IsFiniteSet({[name |-> n, kind |-> k] : n \in N})
    <3>1. IsFiniteSet(N)
      BY LoadAssumption, FS_Subset
    <3> DEFINE S == {[name |-> n, kind |-> k] : n \in N}
               f == [n \in N |-> [name |-> n, kind |-> k]]
    <3>2. f \in Surjection(N, S)
      BY DEF Surjection
    <3> HIDE DEF f, S
    <3>3. IsFiniteSet(S)
      BY <3>1, <3>2, FS_Surjection
    <3> QED
      BY <3>3 DEF S
  <2> QED
    BY <2>1 DEF YamlPaths, DefaultPaths
<1>5. /\ y \in Seq(YamlPaths) /\ \A x \in YamlPaths : \E i \in DOMAIN y : y[i] = x
      /\ d \in Seq(DefaultPaths) /\ \A x \in DefaultPaths : \E i \in DOMAIN d : d[i] = x
  BY <1>4, SeqsOf
<1>6. YamlPaths \cup DefaultPaths = {ConfPath(n) : n \in Configured}
  <2>1. \A n \in LoadNames : disk[n].yaml # "none" => ConfPath(n) = [name |-> n, kind |-> "yaml"]
    BY DEF ConfPath
  <2>2. \A n \in LoadNames : disk[n].yaml = "none" => ConfPath(n) = [name |-> n, kind |-> "default"]
    BY DEF ConfPath
  <2>3. \A n : n \in Configured <=> n \in LoadNames /\ (disk[n].yaml # "none" \/ (disk[n].yaml = "none" /\ disk[n].default # "none"))
    BY DEF Configured, InConfd
  <2>4. \A x : x \in YamlPaths <=> \E n \in LoadNames : disk[n].yaml # "none" /\ x = ConfPath(n)
    BY <2>1 DEF YamlPaths
  <2>5. \A x : x \in DefaultPaths <=> \E n \in LoadNames : disk[n].yaml = "none" /\ disk[n].default # "none" /\ x = ConfPath(n)
    BY <2>2 DEF DefaultPaths
  <2> QED
    BY <2>3, <2>4, <2>5
<1>7. DeprecatedPath \in Seq(PathSet) /\ y \in Seq(PathSet) /\ d \in Seq(PathSet)
  <2>1. YamlPaths \subseteq PathSet /\ DefaultPaths \subseteq PathSet
    BY <1>6 DEF PathSet
  <2>2. DeprecatedPath \in Seq(PathSet)
    <3>1. CASE disk[Nagios].oldKeys
      <4>1. Oldest \in PathSet /\ DeprecatedPath = <<Oldest>>
        BY <3>1 DEF PathSet, DeprecatedPath, Oldest
      <4> QED
        BY <4>1
    <3>2. CASE ~disk[Nagios].oldKeys
      BY <3>2 DEF DeprecatedPath
    <3> QED
      BY <3>1, <3>2
  <2> QED
    BY <1>5, <2>1, <2>2
<1>8. paths \in Seq(PathSet)
  BY <1>3, <1>7
<1>9. ASSUME NEW n \in Configured PROVE ~Read(n)
  <2>1. \/ \E i \in DOMAIN y : y[i] = ConfPath(n)
        \/ \E i \in DOMAIN d : d[i] = ConfPath(n)
    BY <1>5, <1>6
  <2>2. \E i \in DOMAIN paths : paths[i] = ConfPath(n)
    <3>1. CASE \E i \in DOMAIN y : y[i] = ConfPath(n)
      <4>1. PICK i \in 1..Len(y) : y[i] = ConfPath(n)
        BY <1>7, <3>1
      <4>2. i \in DOMAIN paths /\ paths[i] = y[i]
        BY <1>3, <1>7
      <4> QED
        BY <4>1, <4>2
    <3>2. CASE \E i \in DOMAIN d : d[i] = ConfPath(n)
      <4>1. PICK i \in 1..Len(d) : d[i] = ConfPath(n)
        BY <1>7, <3>2
      <4>2. Len(y) + i \in DOMAIN paths /\ paths[Len(y) + i] = d[i]
        BY <1>3, <1>7
      <4> QED
        BY <4>1, <4>2
    <3> QED
      BY <2>1, <3>1, <3>2
  <2> QED
    BY <2>2 DEF Read, IsRead
<1>10. LoadType
  BY <1>1, <1>8 DEF LoadType
<1>11. FilesFirst
  BY <1>1, <1>9 DEF FilesFirst, Configured, NoCheck
<1>12. FoundKnown
  BY <1>2, <1>9 DEF FoundKnown
<1> QED
  BY <1>10, <1>11, <1>12 DEF LoadInv

LEMMA LoadStep == LoadInv /\ [LoadNext]_loadVars => LoadInv'
<1> SUFFICES ASSUME LoadInv, [LoadNext]_loadVars PROVE LoadInv'
  OBVIOUS
<1>1. CASE FetchDiscovered \/ FetchRaises \/ UNCHANGED loadVars
  <2>1. /\ disk' = disk /\ paths' = paths /\ initialized' = initialized /\ initFailed' = initFailed
        /\ (loadPc' = loadPc \/ (loadPc' = "discovery" /\ paths = <<>>))
        /\ (discovered' = discovered \/ discovered' = {n \in LoadNames : disk[n].discovered})
    BY <1>1 DEF FetchDiscovered, FetchRaises, loadVars
  <2>2. \A n : Found(n)' = Found(n) /\ (IsRead(n, paths') <=> Read(n))
    BY <2>1 DEF Found, Read
  <2>3. PathSet' = PathSet
    BY <2>1 DEF PathSet, ConfPath, Configured, InConfd
  <2>4. LoadType'
    BY <2>1, <2>3 DEF LoadInv, LoadType
  <2> QED
    BY <2>1, <2>2, <2>4, LoadInvFrom DEF LoadInv, FilesFirst, FoundKnown
<1>2. CASE LoadFile
  BY <1>2, LoadFileStep
<1>3. CASE FinishLoad
  BY <1>3, FinishLoadStep
<1>4. CASE \E n \in LoadNames : LoadDiscovered(n)
  BY <1>4, LoadDiscoveredStep
<1> QED
  BY <1>1, <1>2, <1>3, <1>4 DEF LoadNext

LEMMA LoadInvGives == LoadInv => LoadSound
<1> SUFFICES ASSUME LoadInv PROVE LoadSound
  OBVIOUS
<1> USE DEF LoadInv
<1>1. "discovery" \in Kinds
  BY DEF Kinds
<1>2. \A n : ConfPath(n).name = n /\ ConfPath(n).kind \in {"yaml", "default", "deprecated"}
  BY DEF ConfPath
<1>3. \A n \in LoadNames : n \in Configured <=> InConfd(n)
  BY DEF Configured
<1>4. Nothing.check = NoCheck /\ Nothing.failure = "none" /\ NoCheck.source # "discovery"
  BY DEF Nothing, NoCheck
<1>5. \A n : /\ Said(n).check = NoCheck \/ Said(n).failure = "none"
             /\ Said(n) = Nothing => Candidates(n) = {}
  <2> SUFFICES ASSUME NEW n
               PROVE  /\ Said(n).check = NoCheck \/ Said(n).failure = "none"
                      /\ Said(n) = Nothing => Candidates(n) = {}
    OBVIOUS
  <2>1. PICK conf : conf = ConfPath(n)
    OBVIOUS
  <2>2. conf.name = n /\ conf.kind \in {"yaml", "default", "deprecated"}
    BY <1>2, <2>1
  <2>3. /\ FromFile(conf).check = NoCheck \/ FromFile(conf).failure = "none"
        /\ FromFile(conf) = Nothing => Candidates(conf.name) = {}
    BY <2>2, FromFileGives
  <2> QED
    BY <2>1, <2>2, <2>3 DEF Said
<1>6. \A n : FromPlaces(n, "discovery").check = NoCheck \/ FromPlaces(n, "discovery").failure = "none"
  BY <1>1, FromPlacesGives
<1>7. \A n : Found(n).check = initialized[n] /\ Found(n).failure = initFailed[n]
  BY DEF Found
<1>8. loadPc = "loaded" => \A n : Read(n)
  BY DEF LoadType, Read, IsRead
<1>9. ASSUME NEW n \in LoadNames
      PROVE  /\ initialized[n] # NoCheck /\ initFailed[n] # "none" => disk[n].oldKeys
             /\ initialized[n].source = "discovery" => ~InConfd(n)
             /\ loadPc = "loaded" /\ InConfd(n) /\ Found(n) = Nothing => Candidates(n) = {}
  <2>1. ~disk[n].oldKeys => Found(n) \in {Nothing, Said(n), FromPlaces(n, "discovery")}
    BY DEF FoundKnown
  <2>2. initialized[n] # NoCheck /\ initFailed[n] # "none" => disk[n].oldKeys
    BY <1>4, <1>5, <1>6, <1>7, <2>1
  <2>3. initialized[n].source = "discovery" => ~InConfd(n)
    BY <1>3 DEF FilesFirst
  <2>4. loadPc = "loaded" /\ InConfd(n) /\ Found(n) = Nothing => Candidates(n) = {}
    BY <1>3, <1>5, <1>8 DEF FilesFirst
  <2> QED
    BY <2>2, <2>3, <2>4
<1>10. ASSUME NEW n \in LoadNames, loadPc = "loaded", ~disk[n].oldKeys, n \notin JmxNames
       PROVE  \/ LoadCheck(n) = Found(n)
              \/ LoadCheck(n) = LoadRaises /\ initialized[n] = NoCheck
              \/ disk[n].discovered /\ ~InConfd(n) /\ Found(n) = Nothing
  <2>1. n = Nagios => DeprecatedPath = <<>>
    BY <1>10 DEF DeprecatedPath
  <2>2. CASE n \in Configured
    <3>1. FilesOf(n) = <<ConfPath(n)>>
      <4>1. PICK x : x = ConfPath(n)
        OBVIOUS
      <4>2. FilesOf(n) = <<x>> \o (IF n = Nagios THEN DeprecatedPath ELSE <<>>)
        <5>1. CASE disk[n].yaml # "none"
          BY <1>10, <4>1, <5>1, Zenon DEF FilesOf, ConfPath
        <5>2. CASE disk[n].yaml = "none" /\ disk[n].default # "none"
          BY <1>10, <4>1, <5>2, Zenon DEF FilesOf, ConfPath
        <5> QED
          BY <1>3, <2>2, <5>1, <5>2 DEF InConfd
      <4>3. <<x>> \o <<>> = <<x>>
        OBVIOUS
      <4> QED
        BY <2>1, <4>1, <4>2, <4>3
    <3>2. FilesOf(n) # <<>> /\ Head(FilesOf(n)) = ConfPath(n)
      BY <3>1
    <3>3. LoadCheck(n) = Said(n) \/ (LoadCheck(n) = LoadRaises /\ Said(n).check = NoCheck)
      BY <3>2, Zenon DEF LoadCheck, Said
    <3>4. Found(n) = Said(n)
      BY <1>8, <1>10, <2>2 DEF FoundKnown
    <3> QED
      BY <1>7, <3>3, <3>4
  <2>3. CASE n \notin Configured
    <3>1. FilesOf(n) = <<>>
      <4>1. disk[n].yaml = "none" /\ disk[n].default = "none"
        BY <1>3, <2>3 DEF InConfd
      <4> QED
        BY <1>10, <2>1, <4>1 DEF FilesOf
    <3>2. LoadCheck(n) = IF disk[n].discovered THEN FromPlaces(n, "discovery") ELSE Nothing
      BY <3>1 DEF LoadCheck
    <3>3. Found(n) = Nothing \/ (disk[n].discovered /\ Found(n) = FromPlaces(n, "discovery"))
      BY <1>10, <2>3 DEF FoundKnown
    <3> QED
      BY <1>3, <2>3, <3>2, <3>3
  <2> QED
    BY <2>2, <2>3
<1>11. LoadedOnce
  BY <1>9 DEF LoadedOnce
<1>12. ReloadAgrees
  BY <1>10 DEF ReloadAgrees
<1> QED
  BY <1>11, <1>12 DEF LoadSound

\* A name in conf.d is never left to service discovery, is loaded or failed but not both
\* without old keys, and a partial reload finds for it what the full load found, unless it
\* raises for a check that does not start; for any names, places and contents of the disk
\* (load_check_directory, load_check).
THEOREM LoadCorrect == LoadSpec => []LoadSound
<1> QED
  BY LoadInitially, LoadStep, LoadInvGives, PTL DEF LoadSpec

-----------------------------------------------------------------------------
(* UcmdbDump *)

\* What the loaded files say of a component.
LoadedFiles == dump.files \ todoFiles
Remains(F, c) ==
    \E f \in F : /\ c \in DOMAIN f.says /\ f.says[c] # "delete"
                 /\ \A g \in F : Before(f, g) => c \notin DOMAIN g.says

Grouping == {"unite", "label", "roots", "tree", "done"}

UcmdbType ==
    /\ dump \in Dumps /\ todoFiles \subseteq dump.files
    /\ dumpPc \in {"load", "raised"} \cup Grouping
    /\ components \subseteq ComponentIds /\ relations \subseteq RelationIds
    /\ dumpPc \in Grouping => unionfind \in [components -> components] /\ toUnite \subseteq relations
    /\ dumpPc \in {"roots", "tree", "done"} =>
          /\ DOMAIN treeLabels = components
          /\ roots \subseteq {c \in components : TreeLabels[c] # "none"}
    /\ dumpPc = "tree" =>
          /\ root \in components /\ root \notin roots /\ TreeLabels[root] # "none"
          /\ queue \in Seq(components) /\ visited \subseteq components

\* The files are loaded in their order.
FilesInOrder ==
    dumpPc # "raised" =>
        /\ \A f \in LoadedFiles, g \in todoFiles : ~Before(g, f)
        /\ components = {c \in ComponentIds \ ExcludedIds : Remains(LoadedFiles, c)}
        /\ dumpPc # "load" => todoFiles = {}

\* What the relations of R connect.
LinkedBy(R, c, d) == \E r \in R : Source(r) = c /\ Target(r) = d
BothWaysBy(R, S) == \A c \in S, d \in components : LinkedBy(R, c, d) \/ LinkedBy(R, d, c) => d \in S
ConnectedBy(R, c) ==
    {d \in components : \A S \in SUBSET components : c \in S /\ BothWaysBy(R, S) => d \in S}

\* The blocks are what the relations so far connect.
BlocksConnected ==
    dumpPc \in Grouping =>
        /\ \A R \in SUBSET relations : R = relations \ toUnite =>
              \A c, d \in components : unionfind[c] = unionfind[d] <=> d \in ConnectedBy(R, c)
        /\ dumpPc # "unite" => toUnite = {}

\* The roots whose trees are labelled.
RootsDone == {c \in components : TreeLabels[c] # "none"} \ (roots \cup (IF dumpPc = "tree" THEN {root} ELSE {}))
LabelsFrom(S, c) == {TreeLabels[d] : d \in {e \in S : c \in Reached(e)}}

TreesLabelled ==
    /\ dumpPc \in {"roots", "tree", "done"} =>
          \A c \in components :
             treeLabels[c] = LabelsFrom(RootsDone, c)
                                \cup (IF dumpPc = "tree" /\ c \in visited THEN {TreeLabels[root]} ELSE {})
    /\ dumpPc = "tree" =>
          /\ visited \cup Range(queue) \subseteq Reached(root)
          /\ root \in visited \cup Range(queue)
          /\ \A c \in visited, d \in components : Linked(c, d) => d \in visited \cup Range(queue)
    /\ dumpPc = "done" => roots = {}

UcmdbInv == UcmdbType /\ FilesInOrder /\ BlocksConnected /\ GroupsConnected /\ TreesLabelled

-----------------------------------------------------------------------------
(* Files in their order *)

\* A finite set has a least element in any transitive relation that relates none to itself.
LEMMA LeastIsThere ==
  ASSUME NEW R, NEW F, IsFiniteSet(F), F # {},
         \A x \in F : <<x, x>> \notin R,
         \A x, y, z \in F : <<x, y>> \in R /\ <<y, z>> \in R => <<x, z>> \in R
  PROVE  \E x \in F : \A y \in F : <<y, x>> \notin R
<1> DEFINE Least(T) == \E x \in T : \A y \in T : <<y, x>> \notin R
           Bad == {T \in SUBSET F : T # {} /\ ~Least(T)}
<1>1. SUFFICES ASSUME Bad # {} PROVE FALSE
  OBVIOUS
<1>2. PICK T \in Bad : \A u \in Bad : ~(<<u, T>> \in StrictSubsetOrdering(F))
  <2>1. IsWellFoundedOn(StrictSubsetOrdering(F), FiniteSubsetsOf(F))
    BY FS_StrictSubsetOrderingWellFounded
  <2>2. Bad \subseteq FiniteSubsetsOf(F)
    BY FS_FiniteSubsetsOfFinite
  <2> HIDE DEF Bad
  <2> QED
    BY <1>1, <2>1, <2>2, WFMin
<1>3. T \in SUBSET F /\ T # {} /\ ~Least(T)
  BY <1>2
<1>4. PICK x \in T : TRUE
  BY <1>3
<1>5. \A y \in T : <<y, y>> \notin R
  BY <1>3
<1>6. T \ {x} # {}
  BY <1>3, <1>4, <1>5
<1>7. T \ {x} \notin Bad
  <2>1. <<T \ {x}, T>> \in StrictSubsetOrdering(F)
    BY <1>3, <1>4 DEF StrictSubsetOrdering
  <2> HIDE DEF Bad
  <2> QED BY <1>2, <2>1
<1>8. PICK m \in T \ {x} : \A y \in T \ {x} : <<y, m>> \notin R
  BY <1>3, <1>6, <1>7
<1>9. CASE <<x, m>> \in R
  <2>1. \A y \in T : <<y, x>> \notin R
    BY <1>3, <1>5, <1>8, <1>9
  <2> QED BY <1>3, <1>4, <2>1
<1>10. CASE <<x, m>> \notin R
  BY <1>3, <1>8, <1>10
<1> QED BY <1>9, <1>10

LEMMA FilesAre ==
  ASSUME UcmdbType
  PROVE  /\ IsFiniteSet(dump.files)
         /\ \A f \in dump.files : \A e \in DOMAIN f.says : f.says[e] \in Operations
         /\ \A f \in dump.files : ~Before(f, f)
         /\ \A f, g, h \in dump.files : Before(f, g) /\ Before(g, h) => Before(f, h)
         /\ \A f, g \in dump.files : f = g \/ Before(f, g) \/ Before(g, f)
         /\ \A f, g \in dump.files : ~(Before(f, g) /\ Before(g, f))
<1>1. /\ IsFiniteSet(dump.files)
      /\ \A f \in dump.files : /\ f.kind \in {"full", "increment"} /\ f.date \in Nat
                               /\ \A e \in DOMAIN f.says : f.says[e] \in Operations
      /\ \A f, g \in dump.files : f.kind = g.kind /\ f.date = g.date => f = g
  BY UcmdbAssumption, Zenon DEF UcmdbType
<1>2. \A f \in dump.files : ~Before(f, f)
  BY <1>1 DEF Before
<1>3. \A f, g, h \in dump.files : Before(f, g) /\ Before(g, h) => Before(f, h)
  BY <1>1 DEF Before
<1>4. \A f, g \in dump.files : f = g \/ Before(f, g) \/ Before(g, f)
  BY <1>1 DEF Before
<1>5. \A f, g \in dump.files : ~(Before(f, g) /\ Before(g, f))
  BY <1>2, <1>3
<1> QED BY <1>1, <1>2, <1>3, <1>4, <1>5

LEMMA EarliestFile ==
  ASSUME UcmdbType, NEW F \in SUBSET dump.files, F # {}
  PROVE  \E f \in F : \A g \in F : ~Before(g, f)
<1> DEFINE R == {p \in F \X F : Before(p[1], p[2])}
<1>1. IsFiniteSet(F)
  BY FilesAre, FS_Subset
<1>2. \A x, y \in F : <<x, y>> \in R <=> Before(x, y)
  OBVIOUS
<1>3. /\ \A x \in F : <<x, x>> \notin R
      /\ \A x, y, z \in F : <<x, y>> \in R /\ <<y, z>> \in R => <<x, z>> \in R
  BY <1>2, FilesAre
<1> HIDE DEF R
<1>4. \E x \in F : \A y \in F : <<y, x>> \notin R
  BY <1>1, <1>3, LeastIsThere
<1> QED BY <1>2, <1>4

LEMMA LatestFile ==
  ASSUME UcmdbType, NEW F \in SUBSET dump.files, F # {}
  PROVE  \E f \in F : \A g \in F : ~Before(f, g)
<1> DEFINE R == {p \in F \X F : Before(p[2], p[1])}
<1>1. IsFiniteSet(F)
  BY FilesAre, FS_Subset
<1>2. \A x, y \in F : <<x, y>> \in R <=> Before(y, x)
  OBVIOUS
<1>3. /\ \A x \in F : <<x, x>> \notin R
      /\ \A x, y, z \in F : <<x, y>> \in R /\ <<y, z>> \in R => <<x, z>> \in R
  BY <1>2, FilesAre
<1> HIDE DEF R
<1>4. \E x \in F : \A y \in F : <<y, x>> \notin R
  BY <1>1, <1>3, LeastIsThere
<1> QED BY <1>2, <1>4

LEMMA NextFileIs ==
  ASSUME UcmdbType, todoFiles # {}
  PROVE  NextFile \in todoFiles /\ \A g \in todoFiles : ~Before(g, NextFile)
<1>1. \E f \in todoFiles : \A g \in todoFiles : ~Before(g, f)
  BY EarliestFile DEF UcmdbType
<1> QED BY <1>1, Zenon DEF NextFile

\* What one more file, later than all of F, makes of a component.
LEMMA OneMoreFile ==
  ASSUME UcmdbType, NEW F \in SUBSET dump.files, NEW f \in dump.files \ F,
         \A g \in F : ~Before(f, g)
  PROVE  \A c : Remains(F \cup {f}, c) <=>
                   IF c \in DOMAIN f.says THEN f.says[c] # "delete" ELSE Remains(F, c)
<1>1. \A g \in F : Before(g, f) /\ ~Before(f, g) /\ ~Before(f, f)
  BY FilesAre
<1> SUFFICES ASSUME NEW c
             PROVE  Remains(F \cup {f}, c) <=>
                       IF c \in DOMAIN f.says THEN f.says[c] # "delete" ELSE Remains(F, c)
  OBVIOUS
<1>2. CASE c \in DOMAIN f.says
  <2>1. ASSUME f.says[c] # "delete" PROVE Remains(F \cup {f}, c)
    <3>1. \A g \in F \cup {f} : ~Before(f, g)
      BY <1>1, FilesAre
    <3> QED BY <1>2, <2>1, <3>1, Zenon DEF Remains
  <2>2. ASSUME Remains(F \cup {f}, c) PROVE f.says[c] # "delete"
    <3>1. PICK x \in F \cup {f} : /\ c \in DOMAIN x.says /\ x.says[c] # "delete"
                                  /\ \A g \in F \cup {f} : Before(x, g) => c \notin DOMAIN g.says
      BY <2>2, Zenon DEF Remains
    <3>2. x = f
      BY <1>1, <1>2, <3>1
    <3> QED BY <3>1, <3>2
  <2> QED BY <1>2, <2>1, <2>2
<1>3. CASE c \notin DOMAIN f.says
  BY <1>1, <1>3 DEF Remains
<1> QED BY <1>2, <1>3

\* The last file that mentions a component is the one that decides of it.
LEMMA LastFileDecides ==
  ASSUME UcmdbType
  PROVE  \A c : Remains(dump.files, c) <=> Mentioned(c) /\ LastSays(c) # "delete"
<1> SUFFICES ASSUME NEW c PROVE Remains(dump.files, c) <=> Mentioned(c) /\ LastSays(c) # "delete"
  OBVIOUS
<1> DEFINE Decides(f) == c \in DOMAIN f.says /\ \A h \in dump.files : Before(f, h) => c \notin DOMAIN h.says
           F == {f \in dump.files : c \in DOMAIN f.says}
<1>1. ASSUME Mentioned(c) PROVE \E f \in dump.files : Decides(f)
  <2>1. F \in SUBSET dump.files /\ F # {}
    BY <1>1 DEF Mentioned
  <2>2. PICK f \in F : \A g \in F : ~Before(f, g)
    <3> HIDE DEF F
    <3> QED BY <2>1, LatestFile
  <2> QED BY <2>2
<1>2. \A f, g \in dump.files : Decides(f) /\ Decides(g) => f = g
  BY FilesAre
<1>3. Remains(dump.files, c) => Mentioned(c)
  BY DEF Remains, Mentioned
<1>4. LastSays(c) = (CHOOSE g \in dump.files : Decides(g)).says[c]
  BY DEF LastSays
<1>5. ASSUME Mentioned(c) PROVE Remains(dump.files, c) <=> LastSays(c) # "delete"
  <2>1. PICK f \in dump.files : Decides(f) /\ LastSays(c) = f.says[c]
    <3> HIDE DEF Decides
    <3> QED BY <1>1, <1>4, <1>5
  <2>2. Remains(dump.files, c) <=> \E g \in dump.files : Decides(g) /\ g.says[c] # "delete"
    BY Zenon DEF Remains
  <2> HIDE DEF Decides
  <2> QED BY <1>2, <2>1, <2>2
<1> QED BY <1>3, <1>5

-----------------------------------------------------------------------------
(* Loading, and the types *)

LEMMA LoadDumpFileIs ==
  ASSUME UcmdbType, LoadDumpFile, dumpPc' # "raised"
  PROVE  /\ todoFiles # {} /\ todoFiles' = todoFiles \ {NextFile}
         /\ dumpPc = "load" /\ dumpPc' = "load" /\ dump' = dump
         /\ components' \subseteq ComponentIds /\ relations' \subseteq RelationIds
         /\ \A c \in ComponentIds \ ExcludedIds :
               c \in components' <=> IF c \in DOMAIN NextFile.says THEN NextFile.says[c] # "delete"
                                     ELSE c \in components
         /\ components \subseteq ComponentIds \ ExcludedIds => components' \subseteq ComponentIds \ ExcludedIds
<1> DEFINE f == NextFile
           kept == (ComponentIds \intersect DOMAIN f.says) \ ExcludedIds
           links == {r \in RelationIds \intersect DOMAIN f.says :
                        {Source(r), Target(r)} \intersect excludedSeen' = {}}
<1>1. /\ todoFiles # {} /\ dumpPc = "load" /\ dump' = dump
      /\ IF \E e \in kept \union links : f.says[e] = "unknown"
         THEN dumpPc' = "raised" /\ UNCHANGED <<todoFiles, components, relations>>
         ELSE /\ components' = Handled(components, f, kept)
              /\ relations' = Handled(relations, f, links)
              /\ todoFiles' = todoFiles \ {f}
              /\ UNCHANGED dumpPc
  BY Zenon DEF LoadDumpFile
<1>2. /\ \A e \in kept : f.says[e] # "unknown"
      /\ components' = Handled(components, f, kept)
      /\ relations' = Handled(relations, f, links)
      /\ todoFiles' = todoFiles \ {f} /\ dumpPc' = dumpPc
  BY <1>1, Zenon
<1>3. f \in dump.files
  BY <1>1, NextFileIs DEF UcmdbType
<1>4. \A e \in kept : f.says[e] \in Operations
  BY <1>3, FilesAre
<1>5. components \subseteq ComponentIds /\ relations \subseteq RelationIds
  BY DEF UcmdbType
<1>6. components' \subseteq components \cup kept /\ relations' \subseteq RelationIds
  BY <1>2, <1>5 DEF Handled
<1>7. ASSUME NEW c \in ComponentIds \ ExcludedIds
      PROVE  c \in components' <=> IF c \in DOMAIN f.says THEN f.says[c] # "delete" ELSE c \in components
  <2>1. CASE c \in DOMAIN f.says
    <3>1. c \in kept /\ f.says[c] \in {"add", "update", "delete"}
      BY <1>2, <1>4, <2>1 DEF Operations
    <3> HIDE DEF kept
    <3> QED BY <1>2, <2>1, <3>1 DEF Handled
  <2>2. CASE c \notin DOMAIN f.says
    <3>1. c \notin kept
      BY <2>2
    <3> HIDE DEF kept
    <3> QED BY <1>2, <2>2, <3>1 DEF Handled
  <2> QED BY <2>1, <2>2
<1> QED BY <1>1, <1>2, <1>5, <1>6, <1>7

LEMMA FilesInOrderKept ==
  ASSUME UcmdbType, FilesInOrder, [UcmdbNext]_ucmdbVars
  PROVE  FilesInOrder'
<1>1. dumpPc # "raised" =>
        /\ \A a \in dump.files \ todoFiles, g \in todoFiles : ~Before(g, a)
        /\ components = {c \in ComponentIds \ ExcludedIds : Remains(dump.files \ todoFiles, c)}
        /\ dumpPc # "load" => todoFiles = {}
  BY DEF FilesInOrder, LoadedFiles
<1>2. SUFFICES ASSUME dumpPc' # "raised"
               PROVE  /\ \A a \in dump'.files \ todoFiles', g \in todoFiles' : ~Before(g, a)
                      /\ components' = {c \in ComponentIds \ ExcludedIds : Remains(dump'.files \ todoFiles', c)}
                      /\ dumpPc' # "load" => todoFiles' = {}
  BY DEF FilesInOrder, LoadedFiles
<1>3. CASE LoadDumpFile
  <2> DEFINE f == NextFile
             F == dump.files \ todoFiles
  <2>1. /\ todoFiles # {} /\ todoFiles' = todoFiles \ {f}
        /\ dumpPc = "load" /\ dumpPc' = "load" /\ dump' = dump
        /\ \A c \in ComponentIds \ ExcludedIds :
              c \in components' <=> IF c \in DOMAIN f.says THEN f.says[c] # "delete" ELSE c \in components
        /\ components \subseteq ComponentIds \ ExcludedIds => components' \subseteq ComponentIds \ ExcludedIds
    BY <1>2, <1>3, LoadDumpFileIs
  <2>2. f \in todoFiles /\ (\A g \in todoFiles : ~Before(g, f)) /\ todoFiles \subseteq dump.files
    BY <2>1, NextFileIs DEF UcmdbType
  <2>3. F \in SUBSET dump.files /\ f \in dump.files \ F /\ \A g \in F : ~Before(f, g)
    BY <1>1, <2>1, <2>2
  <2>4. dump'.files \ todoFiles' = F \cup {f}
    BY <2>1, <2>2
  <2> HIDE DEF f, F
  <2>5. \A c : Remains(F \cup {f}, c) <=> IF c \in DOMAIN f.says THEN f.says[c] # "delete" ELSE Remains(F, c)
    BY <2>3, OneMoreFile
  <2>6. components = {c \in ComponentIds \ ExcludedIds : Remains(F, c)}
    BY <1>1, <2>1 DEF F
  <2>7. components' = {c \in ComponentIds \ ExcludedIds : Remains(F \cup {f}, c)}
    BY <2>1, <2>5, <2>6
  <2>8. \A a \in F \cup {f}, g \in todoFiles' : ~Before(g, a)
    BY <1>1, <2>1, <2>2 DEF F
  <2> QED BY <2>1, <2>4, <2>7, <2>8
<1>4. CASE /\ UNCHANGED <<dump, todoFiles, components>>
           /\ dumpPc # "raised" /\ (dumpPc' # "load" => dumpPc # "load" \/ todoFiles = {})
  <2>1. dumpPc' # "load" => todoFiles = {}
    BY <1>1, <1>4
  <2> QED BY <1>1, <1>4, <2>1, Zenon
<1>5. ASSUME ~LoadDumpFile
      PROVE  /\ UNCHANGED <<dump, todoFiles, components>>
             /\ dumpPc # "raised" /\ (dumpPc' # "load" => dumpPc # "load" \/ todoFiles = {})
  BY <1>2, <1>5 DEF UcmdbNext, ucmdbVars, StartGroups, LabelGroups, StartTrees, Dequeue, TreeDone,
                    UniteEnds, LabelFromRoot
<1> QED BY <1>3, <1>4, <1>5

LEMMA LastFileWinsHolds == UcmdbType /\ FilesInOrder => LastFileWins
<1> SUFFICES ASSUME UcmdbType, FilesInOrder, dumpPc \notin {"load", "raised"}
             PROVE  components = {c \in ComponentIds \ ExcludedIds : Mentioned(c) /\ LastSays(c) # "delete"}
  BY DEF LastFileWins
<1>1. components = {c \in ComponentIds \ ExcludedIds : Remains(dump.files, c)}
  BY DEF FilesInOrder, LoadedFiles
<1> QED BY <1>1, LastFileDecides
LEMMA SeqOfAll ==
  ASSUME NEW S, IsFiniteSet(S)
  PROVE  /\ SetToSeq(S) \in Seq(S) /\ Len(SetToSeq(S)) = Cardinality(S)
         /\ \A x \in S : \E i \in 1..Cardinality(S) : SetToSeq(S)[i] = x
<1> DEFINE n == Cardinality(S)
<1>1. n \in Nat /\ ExistsBijection(1..n, S)
  BY FS_CardinalityType
<1>2. PICK f \in [1..n -> S] : IsInjective(f)
  BY <1>1 DEF ExistsBijection, Bijection, Injection
<1>3. SetToSeq(S) \in [1..n -> S] /\ IsInjective(SetToSeq(S))
  <2> HIDE DEF n
  <2> QED BY <1>2 DEF SetToSeq, n
<1>4. SetToSeq(S) \in SetToSeqs(S)
  BY <1>3 DEF IsInjective, SetToSeqs
<1>5. SetToSeq(S) \in Seq(S) /\ \A x \in S : \E i \in DOMAIN SetToSeq(S) : SetToSeq(S)[i] = x
  BY <1>4, SeqsOf
<1> HIDE DEF n
<1>6. DOMAIN SetToSeq(S) = 1..n
  BY <1>3
<1>7. Len(SetToSeq(S)) = n
  BY <1>1, <1>5, <1>6
<1> QED BY <1>5, <1>6, <1>7 DEF n

\* What is put into the queue after a component: where its relations go.
Pushed(next) == [i \in 1..Cardinality(next) |-> Target(SetToSeq(next)[i])]

LEMMA PushedIs ==
  ASSUME UcmdbType, NEW next \in SUBSET relations, \A r \in next : Target(r) \in components
  PROVE  /\ Pushed(next) \in Seq(components)
         /\ Range(Pushed(next)) = {Target(r) : r \in next}
<1> DEFINE n == Cardinality(next)
<1>1. IsFiniteSet(next)
  <2>1. IsFiniteSet(RelationIds) /\ next \subseteq RelationIds
    BY UcmdbAssumption, Zenon DEF UcmdbType
  <2> QED BY <2>1, FS_Subset
<1>2. n \in Nat
  BY <1>1, FS_CardinalityType
<1> DEFINE s == SetToSeq(next)
<1>3. s \in Seq(next) /\ Len(s) = n /\ \A x \in next : \E i \in 1..n : s[i] = x
  BY <1>1, SeqOfAll
<1> HIDE DEF n, s
<1>4. \A i \in 1..n : s[i] \in next
  BY <1>3
<1>5. Pushed(next) = [i \in 1..n |-> Target(s[i])]
  BY DEF Pushed, n, s
<1>6. Pushed(next) \in Seq(components)
  <2>1. Pushed(next) \in [1..n -> components]
    BY <1>4, <1>5
  <2> QED BY <1>2, <2>1
<1>7. Range(Pushed(next)) = {Target(r) : r \in next}
  <2>1. DOMAIN Pushed(next) = 1..n /\ \A i \in 1..n : Pushed(next)[i] = Target(s[i])
    BY <1>5
  <2> HIDE DEF Pushed
  <2> QED BY <1>3, <1>4, <2>1 DEF Range
<1> QED BY <1>6, <1>7

LEMMA QueueTurns ==
  ASSUME NEW C, NEW q \in Seq(C), q # <<>>, NEW p \in Seq(C)
  PROVE  /\ Head(q) \in C /\ Tail(q) \in Seq(C) /\ Tail(q) \o p \in Seq(C)
         /\ Range(q) = {Head(q)} \cup Range(Tail(q))
         /\ Range(Tail(q) \o p) = Range(Tail(q)) \cup Range(p)
<1>1. Head(q) \in C /\ Tail(q) \in Seq(C) /\ Tail(q) \o p \in Seq(C)
  OBVIOUS
<1>2. Len(q) \in Nat \ {0} /\ Len(Tail(q)) = Len(q) - 1 /\ DOMAIN q = 1..Len(q)
      /\ DOMAIN Tail(q) = 1..(Len(q) - 1) /\ Head(q) = q[1]
      /\ \A i \in 1..(Len(q) - 1) : Tail(q)[i] = q[i + 1]
  OBVIOUS
<1>3. Range(q) = {Head(q)} \cup Range(Tail(q))
  <2>1. \A i \in DOMAIN q : q[i] \in {Head(q)} \cup Range(Tail(q))
    <3> SUFFICES ASSUME NEW i \in 1..Len(q) PROVE q[i] \in {Head(q)} \cup Range(Tail(q))
      BY <1>2
    <3>1. CASE i = 1
      BY <1>2, <3>1
    <3>2. CASE i # 1
      <4>1. i - 1 \in 1..(Len(q) - 1) /\ Tail(q)[i - 1] = q[i]
        BY <1>2, <3>2
      <4> QED BY <1>2, <4>1 DEF Range
    <3> QED BY <3>1, <3>2
  <2>2. \A i \in DOMAIN Tail(q) : Tail(q)[i] \in Range(q)
    <3> SUFFICES ASSUME NEW i \in 1..(Len(q) - 1) PROVE Tail(q)[i] \in Range(q)
      BY <1>2
    <3>1. i + 1 \in 1..Len(q) /\ Tail(q)[i] = q[i + 1]
      BY <1>2
    <3> QED BY <1>2, <3>1 DEF Range
  <2>3. Head(q) \in Range(q)
    BY <1>2 DEF Range
  <2> QED BY <2>1, <2>2, <2>3 DEF Range
<1>4. \A s \in Seq(C) : Range(s \o p) = Range(s) \cup Range(p)
  <2> SUFFICES ASSUME NEW s \in Seq(C) PROVE Range(s \o p) = Range(s) \cup Range(p)
    OBVIOUS
  <2>1. /\ Len(s) \in Nat /\ Len(p) \in Nat /\ DOMAIN s = 1..Len(s) /\ DOMAIN p = 1..Len(p)
        /\ DOMAIN (s \o p) = 1..(Len(s) + Len(p))
        /\ \A i \in 1..Len(s) : (s \o p)[i] = s[i]
        /\ \A i \in 1..Len(p) : (s \o p)[Len(s) + i] = p[i]
    OBVIOUS
  <2>2. \A i \in 1..(Len(s) + Len(p)) : (s \o p)[i] \in Range(s) \cup Range(p)
    <3> SUFFICES ASSUME NEW i \in 1..(Len(s) + Len(p)) PROVE (s \o p)[i] \in Range(s) \cup Range(p)
      OBVIOUS
    <3>1. CASE i <= Len(s)
      BY <2>1, <3>1 DEF Range
    <3>2. CASE i > Len(s)
      <4>1. i - Len(s) \in 1..Len(p) /\ Len(s) + (i - Len(s)) = i
        BY <2>1, <3>2
      <4>2. (s \o p)[i] = p[i - Len(s)]
        BY <2>1, <4>1
      <4> QED BY <2>1, <4>1, <4>2 DEF Range
    <3> QED BY <2>1, <3>1, <3>2
  <2>3. \A i \in 1..Len(s) : s[i] \in Range(s \o p)
    <3> SUFFICES ASSUME NEW i \in 1..Len(s) PROVE s[i] \in Range(s \o p)
      OBVIOUS
    <3>1. i \in 1..(Len(s) + Len(p)) /\ (s \o p)[i] = s[i]
      BY <2>1
    <3> QED BY <2>1, <3>1 DEF Range
  <2>4. \A i \in 1..Len(p) : p[i] \in Range(s \o p)
    <3> SUFFICES ASSUME NEW i \in 1..Len(p) PROVE p[i] \in Range(s \o p)
      OBVIOUS
    <3>1. Len(s) + i \in 1..(Len(s) + Len(p)) /\ (s \o p)[Len(s) + i] = p[i]
      BY <2>1
    <3> QED BY <2>1, <3>1 DEF Range
  <2> QED BY ZenonT(30), <2>1, <2>2, <2>3, <2>4 DEF Range
<1> QED BY <1>1, <1>3, <1>4

\* Dequeuing, with what is pushed named.
LEMMA DequeueIs ==
  ASSUME UcmdbType, Dequeue
  PROVE  \E next \in SUBSET relations :
            /\ next = {r \in relations : Source(r) = Head(queue) /\ Target(r) \in components \ visited'}
            /\ dumpPc = "tree" /\ queue # <<>> /\ visited' = visited \union {Head(queue)}
            /\ Head(queue) \in components
            /\ treeLabels' = [treeLabels EXCEPT ![Head(queue)] = @ \union {TreeLabels[root]}]
            /\ IF \E r \in Outgoing(Head(queue)) : Target(r) = NoEnd
               THEN dumpPc' = "raised" /\ queue' = Tail(queue)
               ELSE queue' = Tail(queue) \o Pushed(next) /\ dumpPc' = "tree"
            /\ UNCHANGED <<dump, todoFiles, components, relations, excludedSeen, unionfind, toUnite,
                           groupLabel, roots, root>>
<1> DEFINE next == {r \in Outgoing(Head(queue)) : Target(r) \in components \ visited'}
<1>1. /\ dumpPc = "tree" /\ queue # <<>> /\ visited' = visited \union {Head(queue)}
      /\ treeLabels' = [treeLabels EXCEPT ![Head(queue)] = @ \union {TreeLabels[root]}]
      /\ IF \E r \in Outgoing(Head(queue)) : Target(r) = NoEnd
         THEN dumpPc' = "raised" /\ queue' = Tail(queue)
         ELSE queue' = Tail(queue) \o Pushed(next) /\ dumpPc' = dumpPc
      /\ UNCHANGED <<dump, todoFiles, components, relations, excludedSeen, unionfind, toUnite,
                     groupLabel, roots, root>>
  BY Zenon DEF Dequeue, Pushed
<1>2. next = {r \in relations : Source(r) = Head(queue) /\ Target(r) \in components \ visited'}
  BY DEF Outgoing
<1>3. Head(queue) \in components
  BY <1>1 DEF UcmdbType
<1>4. next \in SUBSET relations
  BY <1>2
<1> HIDE DEF next
<1> QED BY <1>1, <1>2, <1>3, <1>4, Zenon
LEMMA TypeInitially == UcmdbInit => UcmdbType /\ FilesInOrder
<1> SUFFICES ASSUME UcmdbInit PROVE UcmdbType /\ FilesInOrder
  OBVIOUS
<1>1. UcmdbType
  BY DEF UcmdbInit, UcmdbType, Grouping
<1>2. LoadedFiles = {} /\ components = {} /\ dumpPc = "load"
  BY DEF UcmdbInit, LoadedFiles
<1>3. \A c : ~Remains(LoadedFiles, c)
  BY <1>2 DEF Remains
<1> QED BY <1>1, <1>2, <1>3 DEF FilesInOrder

\* What a step of grouping, or of labelling, leaves as it is.
LEMMA OnlyLoadingLoads ==
  ASSUME [UcmdbNext]_ucmdbVars, ~LoadDumpFile
  PROVE  UNCHANGED <<dump, todoFiles, components, relations>>
BY DEF UcmdbNext, ucmdbVars, StartGroups, LabelGroups, StartTrees, Dequeue, TreeDone, UniteEnds, LabelFromRoot

LEMMA UcmdbTypeKept ==
  ASSUME UcmdbType, [UcmdbNext]_ucmdbVars
  PROVE  UcmdbType'
<1>1. CASE LoadDumpFile
  <2>1. dumpPc = "load" /\ dump' = dump
    BY <1>1 DEF LoadDumpFile
  <2>2. CASE dumpPc' = "raised"
    <3>1. UNCHANGED <<todoFiles, components, relations>>
      <4>1. dumpPc # "raised"
        BY <2>1
      <4> QED BY <1>1, <2>2, <4>1, Zenon DEF LoadDumpFile
    <3> QED BY <2>1, <2>2, <3>1 DEF UcmdbType, Grouping
  <2>3. CASE dumpPc' # "raised"
    <3>1. /\ dumpPc' = "load" /\ todoFiles' = todoFiles \ {NextFile}
          /\ components' \subseteq ComponentIds /\ relations' \subseteq RelationIds
      BY <1>1, <2>3, LoadDumpFileIs
    <3> QED BY <2>1, <3>1 DEF UcmdbType, Grouping
  <2> QED BY <2>2, <2>3
<1>2. CASE ~LoadDumpFile
  <2>1. UNCHANGED <<dump, todoFiles, components, relations>>
    BY <1>2, OnlyLoadingLoads
  <2>2. CASE StartGroups
    BY <2>1, <2>2 DEF UcmdbType, Grouping, StartGroups
  <2>3. CASE LabelGroups
    BY <2>1, <2>3 DEF UcmdbType, Grouping, LabelGroups
  <2>4. CASE StartTrees
    BY <2>1, <2>4 DEF UcmdbType, Grouping, StartTrees
  <2>5. CASE Dequeue
    <3>1. PICK next \in SUBSET relations :
            /\ next = {r \in relations : Source(r) = Head(queue) /\ Target(r) \in components \ visited'}
            /\ dumpPc = "tree" /\ queue # <<>> /\ visited' = visited \union {Head(queue)}
            /\ Head(queue) \in components
            /\ treeLabels' = [treeLabels EXCEPT ![Head(queue)] = @ \union {TreeLabels[root]}]
            /\ IF \E r \in Outgoing(Head(queue)) : Target(r) = NoEnd
               THEN dumpPc' = "raised" /\ queue' = Tail(queue)
               ELSE queue' = Tail(queue) \o Pushed(next) /\ dumpPc' = "tree"
            /\ UNCHANGED <<dump, todoFiles, components, relations, excludedSeen, unionfind, toUnite,
                           groupLabel, roots, root>>
      BY <2>5, DequeueIs
    <3>2. \A r \in next : Target(r) \in components
      BY <3>1
    <3>3. Pushed(next) \in Seq(components)
      BY <3>2, PushedIs
    <3>4. queue \in Seq(components) /\ visited \subseteq components
      BY <3>1 DEF UcmdbType
    <3>5. Tail(queue) \o Pushed(next) \in Seq(components)
      BY <3>1, <3>3, <3>4, QueueTurns
    <3>6. dumpPc' = "tree" => queue' \in Seq(components)
      BY <3>1, <3>5
    <3>7. visited' \subseteq components /\ DOMAIN treeLabels' = DOMAIN treeLabels /\ dumpPc' \in {"raised", "tree"}
      BY <3>1, <3>4
    <3>8. queue' \in Seq(components') \/ dumpPc' = "raised"
      BY <2>1, <3>6, <3>7
    <3> HIDE DEF UcmdbType
    <3>9. /\ dump \in Dumps /\ todoFiles \subseteq dump.files
          /\ components \subseteq ComponentIds /\ relations \subseteq RelationIds
          /\ unionfind \in [components -> components] /\ toUnite \subseteq relations
          /\ DOMAIN treeLabels = components
          /\ roots \subseteq {c \in components : TreeLabels[c] # "none"}
          /\ root \in components /\ root \notin roots /\ TreeLabels[root] # "none"
      BY <3>1 DEF UcmdbType, Grouping
    <3> QED BY <2>1, <3>1, <3>7, <3>8, <3>9 DEF UcmdbType, Grouping
  <2>6. CASE TreeDone
    BY <2>1, <2>6 DEF UcmdbType, Grouping, TreeDone
  <2>7. ASSUME NEW r \in RelationIds, UniteEnds(r) PROVE UcmdbType'
    <3>1. /\ dumpPc = "unite" /\ dumpPc' = "unite" /\ toUnite' = toUnite \ {r}
          /\ unionfind' = IF {Source(r), Target(r)} \subseteq components
                          THEN Unite(unionfind, Source(r), Target(r)) ELSE unionfind
      BY <2>7 DEF UniteEnds
    <3>2. unionfind \in [components -> components] /\ toUnite \subseteq relations
      BY <3>1 DEF UcmdbType, Grouping
    <3>3. unionfind' \in [components -> components]
      BY <3>1, <3>2 DEF Unite, Union2
    <3> QED BY <2>1, <3>1, <3>2, <3>3 DEF UcmdbType, Grouping
  <2>8. ASSUME NEW c \in ComponentIds, LabelFromRoot(c) PROVE UcmdbType'
    <3>1. /\ dumpPc = "roots" /\ c \in roots /\ roots' = roots \ {c} /\ root' = c
          /\ queue' = <<c>> /\ visited' = {} /\ dumpPc' = "tree"
          /\ UNCHANGED <<unionfind, toUnite, treeLabels>>
      BY <2>8 DEF LabelFromRoot
    <3>2. c \in components /\ TreeLabels[c] # "none"
      BY <3>1 DEF UcmdbType
    <3>3. queue' \in Seq(components)
      BY <3>1, <3>2
    <3> QED BY <2>1, <3>1, <3>2, <3>3 DEF UcmdbType, Grouping
  <2>9. CASE UNCHANGED ucmdbVars
    BY <2>9 DEF UcmdbType, Grouping, ucmdbVars
  <2> QED BY <1>2, <2>2, <2>3, <2>4, <2>5, <2>6, <2>7, <2>8, <2>9 DEF UcmdbNext
<1> QED BY <1>1, <1>2

-----------------------------------------------------------------------------
(* What is connected, and what is reached *)

LEMMA GraphKept ==
  ASSUME UNCHANGED <<dump, components, relations>>
  PROVE  /\ \A R, c : ConnectedBy(R, c)' = ConnectedBy(R, c)
         /\ \A c : Connected(c)' = Connected(c) /\ Reached(c)' = Reached(c)
<1>1. \A c : Connected(c)' = Connected(c) /\ Reached(c)' = Reached(c)
  BY DEF Connected, Reached, BothWays, Downward, Linked, Source, Target
<1>2. \A R, c : ConnectedBy(R, c)' = ConnectedBy(R, c)
  BY DEF ConnectedBy, BothWaysBy, LinkedBy, Source, Target
<1> QED BY <1>1, <1>2

LEMMA ReachedIs ==
  /\ \A c \in components : c \in Reached(c)
  /\ \A c, d, e \in components : d \in Reached(c) /\ Linked(d, e) => e \in Reached(c)
  /\ \A c \in components, S \in SUBSET components : c \in S /\ Downward(S) => Reached(c) \subseteq S
<1>1. \A c \in components : c \in Reached(c)
  BY DEF Reached
<1>2. \A c, d, e \in components : d \in Reached(c) /\ Linked(d, e) => e \in Reached(c)
  BY DEF Reached, Downward
<1>3. \A c \in components, S \in SUBSET components : c \in S /\ Downward(S) => Reached(c) \subseteq S
  BY DEF Reached
<1> QED BY <1>1, <1>2, <1>3

LEMMA ConnectedIs == \A c : ConnectedBy(relations, c) = Connected(c)
BY DEF ConnectedBy, BothWaysBy, LinkedBy, Connected, BothWays, Linked

\* Nothing is connected by no relation.
LEMMA NoneConnected == \A c, d \in components : d \in ConnectedBy({}, c) <=> c = d
<1> SUFFICES ASSUME NEW c \in components, NEW d \in components PROVE d \in ConnectedBy({}, c) <=> c = d
  OBVIOUS
<1>1. BothWaysBy({}, {c})
  BY DEF BothWaysBy, LinkedBy
<1> QED BY <1>1 DEF ConnectedBy

\* What one more relation connects.
LEMMA OneMoreConnects ==
  ASSUME NEW R, NEW r, NEW uf \in [components -> components],
         \A c, d \in components : uf[c] = uf[d] <=> d \in ConnectedBy(R, c),
         Source(r) \in components, Target(r) \in components
  PROVE  \A c, d \in components :
            Unite(uf, Source(r), Target(r))[c] = Unite(uf, Source(r), Target(r))[d]
               <=> d \in ConnectedBy(R \cup {r}, c)
<1> DEFINE a == Source(r)
           b == Target(r)
           new == Unite(uf, a, b)
<1>1. \A c \in components : new[c] = IF uf[c] = uf[a] THEN uf[b] ELSE uf[c]
  BY DEF Unite, Union2
<1> SUFFICES ASSUME NEW c \in components, NEW d \in components
             PROVE  new[c] = new[d] <=> d \in ConnectedBy(R \cup {r}, c)
  OBVIOUS
<1>2. \A x, y \in components : LinkedBy(R \cup {r}, x, y) <=> LinkedBy(R, x, y) \/ (x = a /\ y = b)
  BY DEF LinkedBy
<1> HIDE DEF a, b, new
<1>3. a \in components /\ b \in components
  BY DEF a, b
<1>4. \A x, y \in components : LinkedBy(R, x, y) \/ LinkedBy(R, y, x) => uf[x] = uf[y]
  BY DEF ConnectedBy, BothWaysBy
<1>5. ASSUME d \in ConnectedBy(R \cup {r}, c) PROVE new[c] = new[d]
  <2> DEFINE S == {e \in components : new[e] = new[c]}
  <2>1. \A x, y \in components : LinkedBy(R \cup {r}, x, y) => new[x] = new[y]
    BY <1>1, <1>2, <1>3, <1>4
  <2>2. BothWaysBy(R \cup {r}, S)
    BY <2>1 DEF BothWaysBy
  <2>3. d \in S
    BY <1>5, <2>2 DEF ConnectedBy
  <2> QED BY <2>3
<1>6. ASSUME new[c] = new[d] PROVE d \in ConnectedBy(R \cup {r}, c)
  <2> SUFFICES ASSUME NEW S \in SUBSET components, c \in S, BothWaysBy(R \cup {r}, S) PROVE d \in S
    BY DEF ConnectedBy
  <2>1. BothWaysBy(R, S) /\ (a \in S <=> b \in S)
    BY <1>2, <1>3 DEF BothWaysBy
  <2>2. \A x \in S, y \in components : uf[x] = uf[y] => y \in S
    BY <2>1 DEF ConnectedBy
  <2>3. \/ uf[c] = uf[d]
        \/ uf[c] = uf[a] /\ uf[d] = uf[b]
        \/ uf[c] = uf[b] /\ uf[d] = uf[a]
    BY <1>1, <1>3, <1>6
  <2> QED BY <1>3, <2>1, <2>2, <2>3
<1> QED BY <1>5, <1>6 DEF new, a, b

\* A relation with an end that is not there connects nothing.
LEMMA LooseConnectsNothing ==
  ASSUME NEW R, NEW r, ~({Source(r), Target(r)} \subseteq components)
  PROVE  \A c \in components : ConnectedBy(R \cup {r}, c) = ConnectedBy(R, c)
<1>1. \A x, y \in components : LinkedBy(R \cup {r}, x, y) <=> LinkedBy(R, x, y)
  BY DEF LinkedBy
<1>2. \A S \in SUBSET components : BothWaysBy(R \cup {r}, S) <=> BothWaysBy(R, S)
  BY <1>1 DEF BothWaysBy
<1> QED BY <1>2 DEF ConnectedBy
LEMMA BlocksConnectedKept ==
  ASSUME UcmdbType, BlocksConnected, [UcmdbNext]_ucmdbVars
  PROVE  BlocksConnected'
<1>1. SUFFICES ASSUME dumpPc' \in Grouping
               PROVE  /\ \A R \in SUBSET relations' : R = relations' \ toUnite' =>
                            \A c, d \in components' : unionfind'[c] = unionfind'[d] <=> d \in ConnectedBy(R, c)'
                      /\ dumpPc' # "unite" => toUnite' = {}
  BY DEF BlocksConnected
<1>2. ~LoadDumpFile
  BY <1>1, LoadDumpFileIs DEF Grouping
<1>3. UNCHANGED <<dump, components, relations>>
  BY <1>2, OnlyLoadingLoads
<1>4. \A R, c : ConnectedBy(R, c)' = ConnectedBy(R, c)
  BY <1>3, GraphKept
<1>5. SUFFICES /\ \A c, d \in components :
                     unionfind'[c] = unionfind'[d] <=> d \in ConnectedBy(relations \ toUnite', c)
               /\ dumpPc' # "unite" => toUnite' = {}
  BY <1>3, <1>4
<1>6. dumpPc \in Grouping =>
        /\ \A c, d \in components : unionfind[c] = unionfind[d] <=> d \in ConnectedBy(relations \ toUnite, c)
        /\ dumpPc # "unite" => toUnite = {}
  <2>1. relations \ toUnite \in SUBSET relations
    OBVIOUS
  <2> QED BY <2>1, Zenon DEF BlocksConnected
<1>7. CASE StartGroups
  <2>1. unionfind' = [c \in components |-> c] /\ toUnite' = relations /\ dumpPc' = "unite"
    BY <1>7 DEF StartGroups
  <2>2. relations \ toUnite' = {}
    BY <2>1
  <2> QED BY <2>1, <2>2, NoneConnected
<1>8. ASSUME NEW r \in RelationIds, UniteEnds(r)
      PROVE  /\ \A c, d \in components :
                   unionfind'[c] = unionfind'[d] <=> d \in ConnectedBy(relations \ toUnite', c)
             /\ dumpPc' # "unite" => toUnite' = {}
  <2>1. /\ dumpPc = "unite" /\ dumpPc' = "unite" /\ r \in toUnite /\ toUnite' = toUnite \ {r}
        /\ unionfind' = IF {Source(r), Target(r)} \subseteq components
                        THEN Unite(unionfind, Source(r), Target(r)) ELSE unionfind
    BY <1>8 DEF UniteEnds
  <2>2. unionfind \in [components -> components] /\ toUnite \subseteq relations
    BY <2>1 DEF UcmdbType, Grouping
  <2> DEFINE R == relations \ toUnite
  <2>3. relations \ toUnite' = R \cup {r}
    BY <2>1, <2>2
  <2>4. \A c, d \in components : unionfind[c] = unionfind[d] <=> d \in ConnectedBy(R, c)
    BY <1>6, <2>1 DEF Grouping
  <2> HIDE DEF R
  <2>5. CASE {Source(r), Target(r)} \subseteq components
    <3>1. Source(r) \in components /\ Target(r) \in components
      BY <2>5
    <3>2. \A c, d \in components :
            Unite(unionfind, Source(r), Target(r))[c] = Unite(unionfind, Source(r), Target(r))[d]
               <=> d \in ConnectedBy(R \cup {r}, c)
      BY <2>2, <2>4, <3>1, OneMoreConnects
    <3>3. unionfind' = Unite(unionfind, Source(r), Target(r))
      BY <2>1, <2>5
    <3> QED BY <2>1, <2>3, <3>2, <3>3
  <2>6. CASE ~({Source(r), Target(r)} \subseteq components)
    <3>1. \A c \in components : ConnectedBy(R \cup {r}, c) = ConnectedBy(R, c)
      BY <2>6, LooseConnectsNothing
    <3>2. unionfind' = unionfind
      BY <2>1, <2>6
    <3> QED BY <2>1, <2>3, <2>4, <3>1, <3>2
  <2> QED BY <2>5, <2>6
<1>9. CASE /\ UNCHANGED <<unionfind, toUnite>> /\ dumpPc \in Grouping
           /\ dumpPc' # "unite" => dumpPc # "unite" \/ toUnite = {}
  BY <1>6, <1>9
<1>10. ASSUME ~StartGroups, ~\E r \in RelationIds : UniteEnds(r)
       PROVE  /\ UNCHANGED <<unionfind, toUnite>> /\ dumpPc \in Grouping
              /\ dumpPc' # "unite" => dumpPc # "unite" \/ toUnite = {}
  BY <1>1, <1>2, <1>10 DEF UcmdbNext, ucmdbVars, LabelGroups, StartTrees, Dequeue, TreeDone, LabelFromRoot, Grouping
<1> QED BY <1>7, <1>8, <1>9, <1>10

LEMMA GroupsConnectedKept ==
  ASSUME UcmdbType, BlocksConnected, GroupsConnected, [UcmdbNext]_ucmdbVars
  PROVE  GroupsConnected'
<1> DEFINE Labelled(group, labels, c) ==
             /\ \A d \in group : labels[d] = labels[c]
             /\ LabelsIn(group) # {} => labels[c] \in LabelsIn(group)
             /\ LabelsIn(group) = {} =>
                  labels[c] = IF Cardinality(group) >= MinGroupSize THEN "size" ELSE "none"
<1>1. dumpPc \in {"label", "roots", "tree", "done"} =>
        \A c \in components : Labelled(Connected(c), groupLabel, c)
  BY DEF GroupsConnected
<1>2. SUFFICES ASSUME dumpPc' \in {"label", "roots", "tree", "done"}
               PROVE  \A c \in components' : Labelled(Connected(c)', groupLabel', c)
  BY DEF GroupsConnected, LabelsIn
<1>3. ~LoadDumpFile
  BY <1>2, LoadDumpFileIs
<1>4. UNCHANGED <<dump, components, relations>>
  BY <1>3, OnlyLoadingLoads
<1>5. \A c : Connected(c)' = Connected(c)
  BY <1>4, GraphKept
<1>6. SUFFICES \A c \in components : Labelled(Connected(c), groupLabel', c)
  <2> HIDE DEF Labelled
  <2> QED BY <1>4, <1>5
<1>7. CASE LabelGroups
  <2>1. dumpPc = "unite" /\ toUnite = {}
    BY <1>7 DEF LabelGroups
  <2>2. \A c, d \in components : unionfind[c] = unionfind[d] <=> d \in ConnectedBy(relations, c)
    <3>1. relations \in SUBSET relations /\ relations = relations \ toUnite
      BY <2>1
    <3> QED BY <2>1, <3>1, Zenon DEF BlocksConnected, Grouping
  <2>3. \A c \in components : Block(c) = Connected(c)
    <3>1. \A c \in components : ConnectedBy(relations, c) \subseteq components
      BY DEF ConnectedBy
    <3> QED BY <2>2, <3>1, ConnectedIs DEF Block
  <2>4. \A c \in components :
          /\ IF LabelsIn(Block(c)) # {} THEN groupLabel'[c] \in LabelsIn(Block(c))
             ELSE groupLabel'[c] = IF Cardinality(Block(c)) >= MinGroupSize THEN "size" ELSE "none"
          /\ \A d \in Block(c) : groupLabel'[c] = groupLabel'[d]
    BY <1>7, Zenon DEF LabelGroups
  <2> SUFFICES ASSUME NEW c \in components PROVE Labelled(Connected(c), groupLabel', c)
    OBVIOUS
  <2>5. PICK group : group = Block(c) /\ group = Connected(c)
    BY <2>3
  <2>6. /\ IF LabelsIn(group) # {} THEN groupLabel'[c] \in LabelsIn(group)
           ELSE groupLabel'[c] = IF Cardinality(group) >= MinGroupSize THEN "size" ELSE "none"
        /\ \A d \in group : groupLabel'[c] = groupLabel'[d]
    BY <2>4, <2>5, Zenon
  <2>7. Labelled(group, groupLabel', c)
    BY <2>6, Zenon
  <2> HIDE DEF Labelled
  <2> QED BY <2>5, <2>7, Zenon
<1>8. CASE groupLabel' = groupLabel /\ dumpPc \in {"label", "roots", "tree", "done"}
  <2> HIDE DEF Labelled
  <2> QED BY <1>1, <1>8
<1>9. ASSUME ~LabelGroups PROVE groupLabel' = groupLabel /\ dumpPc \in {"label", "roots", "tree", "done"}
  BY <1>2, <1>3, <1>9 DEF UcmdbNext, ucmdbVars, StartGroups, StartTrees, Dequeue, TreeDone, UniteEnds, LabelFromRoot
<1> QED BY <1>7, <1>8, <1>9
LEMMA TreesLabelledKept ==
  ASSUME UcmdbType, TreesLabelled, [UcmdbNext]_ucmdbVars
  PROVE  TreesLabelled'
<1> DEFINE All == {c \in components : TreeLabels[c] # "none"}
           OfRoot(at, vis, rt, c) == IF at = "tree" /\ c \in vis THEN {TreeLabels[rt]} ELSE {}
           Finished(at, rs, rt) == All \ (rs \cup (IF at = "tree" THEN {rt} ELSE {}))
           LabelsVia(S, c) == {TreeLabels[d] : d \in {e \in S : c \in Reached(e)}}
<1>1. /\ dumpPc \in {"roots", "tree", "done"} =>
            \A c \in components :
               treeLabels[c] = LabelsVia(Finished(dumpPc, roots, root), c) \cup OfRoot(dumpPc, visited, root, c)
      /\ dumpPc = "tree" =>
            /\ visited \cup Range(queue) \subseteq Reached(root)
            /\ root \in visited \cup Range(queue)
            /\ \A c \in visited, d \in components : Linked(c, d) => d \in visited \cup Range(queue)
      /\ dumpPc = "done" => roots = {}
  BY DEF TreesLabelled, RootsDone, LabelsFrom
<1>2. SUFFICES ASSUME dumpPc' \in {"roots", "tree", "done"} PROVE TreesLabelled'
  BY DEF TreesLabelled
<1>3. ~LoadDumpFile
  BY <1>2, LoadDumpFileIs
<1>4. UNCHANGED <<dump, components, relations>>
  BY <1>3, OnlyLoadingLoads
<1>5. /\ \A c : Reached(c)' = Reached(c)
      /\ \A c, d : Linked(c, d)' <=> Linked(c, d)
  BY <1>4, GraphKept DEF Linked, Source, Target
<1>6. SUFFICES
         /\ \A c \in components :
               treeLabels'[c] = LabelsVia(Finished(dumpPc', roots', root'), c) \cup OfRoot(dumpPc', visited', root', c)
         /\ dumpPc' = "tree" =>
               /\ visited' \cup Range(queue') \subseteq Reached(root')
               /\ root' \in visited' \cup Range(queue')
               /\ \A c \in visited', d \in components : Linked(c, d) => d \in visited' \cup Range(queue')
         /\ dumpPc' = "done" => roots' = {}
  <2>1. ASSUME NEW c \in components
        PROVE  LabelsFrom(RootsDone, c)' = LabelsVia(Finished(dumpPc', roots', root'), c)
    BY <1>4, <1>5 DEF LabelsFrom, RootsDone
  <2>2. Range(queue)' = Range(queue') /\ Reached(root)' = Reached(root')
    <3>1. PICK rt : rt = root'
      OBVIOUS
    <3>2. Reached(root)' = Reached(rt)'
      BY <3>1 DEF Reached
    <3> QED BY <1>5, <3>1, <3>2 DEF Range
  <2> HIDE DEF LabelsVia, Finished
  <2> QED BY <1>4, <1>5, <2>1, <2>2 DEF TreesLabelled
<1>7. CASE StartTrees
  <2>1. dumpPc' = "roots" /\ roots' = All /\ treeLabels' = [c \in components |-> {}]
    BY <1>2, <1>7 DEF StartTrees
  <2> QED BY <2>1
<1>8. ASSUME NEW r \in ComponentIds, LabelFromRoot(r)
      PROVE  /\ \A c \in components :
                   treeLabels'[c] = LabelsVia(Finished(dumpPc', roots', root'), c) \cup OfRoot(dumpPc', visited', root', c)
             /\ dumpPc' = "tree" =>
                   /\ visited' \cup Range(queue') \subseteq Reached(root')
                   /\ root' \in visited' \cup Range(queue')
                   /\ \A c \in visited', d \in components : Linked(c, d) => d \in visited' \cup Range(queue')
             /\ dumpPc' = "done" => roots' = {}
  <2>1. /\ dumpPc = "roots" /\ dumpPc' = "tree" /\ r \in roots /\ roots' = roots \ {r} /\ root' = r
        /\ queue' = <<r>> /\ visited' = {} /\ treeLabels' = treeLabels
    BY <1>8 DEF LabelFromRoot
  <2>2. r \in components
    BY <2>1 DEF UcmdbType
  <2>3. Range(<<r>>) = {r}
    BY DEF Range
  <2>4. Finished("tree", roots \ {r}, r) = Finished("roots", roots, root)
    BY <2>1
  <2>5. r \in Reached(r)
    BY <2>2, ReachedIs
  <2>6. \A c \in components : treeLabels[c] = LabelsVia(Finished("roots", roots, root), c)
    BY <1>1, <2>1
  <2>7. \A c \in components : treeLabels'[c] = LabelsVia(Finished(dumpPc', roots', root'), c)
    <3> HIDE DEF LabelsVia, Finished
    <3> QED BY <2>1, <2>4, <2>6
  <2> HIDE DEF LabelsVia, Finished
  <2> QED BY <2>1, <2>3, <2>5, <2>7
<1>9. CASE Dequeue
  <2>1. PICK next \in SUBSET relations :
          /\ next = {r \in relations : Source(r) = Head(queue) /\ Target(r) \in components \ visited'}
          /\ dumpPc = "tree" /\ queue # <<>> /\ visited' = visited \union {Head(queue)}
          /\ Head(queue) \in components
          /\ treeLabels' = [treeLabels EXCEPT ![Head(queue)] = @ \union {TreeLabels[root]}]
          /\ IF \E r \in Outgoing(Head(queue)) : Target(r) = NoEnd
             THEN dumpPc' = "raised" /\ queue' = Tail(queue)
             ELSE queue' = Tail(queue) \o Pushed(next) /\ dumpPc' = "tree"
          /\ UNCHANGED <<dump, todoFiles, components, relations, excludedSeen, unionfind, toUnite,
                         groupLabel, roots, root>>
    BY <1>9, DequeueIs
  <2>2. queue' = Tail(queue) \o Pushed(next) /\ dumpPc' = "tree"
    BY <1>2, <2>1
  <2>3. PICK first \in components : first = Head(queue)
    BY <2>1
  <2>4. queue \in Seq(components) /\ root \in components /\ DOMAIN treeLabels = components /\ visited \subseteq components
    BY <2>1 DEF UcmdbType
  <2>5. \A r \in next : Target(r) \in components
    BY <2>1
  <2>6. Pushed(next) \in Seq(components) /\ Range(Pushed(next)) = {Target(r) : r \in next}
    BY <2>5, PushedIs
  <2>7. /\ Range(queue) = {first} \cup Range(Tail(queue))
        /\ Range(queue') = Range(Tail(queue)) \cup {Target(r) : r \in next}
    <3>1. PICK p \in Seq(components) : p = Pushed(next)
      BY <2>6
    <3>2. queue # <<>>
      BY <2>1
    <3>3. /\ Range(queue) = {Head(queue)} \cup Range(Tail(queue))
          /\ Range(Tail(queue) \o p) = Range(Tail(queue)) \cup Range(p)
      BY <2>4, <3>2, QueueTurns
    <3> QED BY <2>2, <2>3, <2>6, <3>1, <3>3
  <2>8. \A d \in components : d \in {Target(r) : r \in next} <=> Linked(first, d) /\ d \notin visited'
    BY <2>1, <2>3 DEF Linked
  <2>9. {Target(r) : r \in next} \subseteq components
    BY <2>5
  <2>10. /\ visited \cup Range(queue) \subseteq Reached(root)
         /\ root \in visited \cup Range(queue)
         /\ \A c \in visited, d \in components : Linked(c, d) => d \in visited \cup Range(queue)
    BY <1>1, <2>1
  <2>11. visited' \cup Range(queue') \subseteq Reached(root)
    BY <2>1, <2>3, <2>4, <2>7, <2>8, <2>9, <2>10, ReachedIs
  <2>12. root \in visited' \cup Range(queue')
    BY <2>1, <2>3, <2>7, <2>10
  <2>13. \A c \in visited', d \in components : Linked(c, d) => d \in visited' \cup Range(queue')
    BY <2>1, <2>3, <2>7, <2>8, <2>10
  <2>14. Finished(dumpPc', roots', root') = Finished(dumpPc, roots, root)
    BY <2>1, <2>2
  <2>15. \A c \in components : treeLabels'[c] = LabelsVia(Finished(dumpPc, roots, root), c) \cup OfRoot(dumpPc', visited', root', c)
    <3>1. \A c \in components : treeLabels[c] = LabelsVia(Finished(dumpPc, roots, root), c) \cup OfRoot(dumpPc, visited, root, c)
      BY <1>1, <2>1
    <3>2. \A c \in components : treeLabels'[c] = IF c = first THEN treeLabels[c] \cup {TreeLabels[root]} ELSE treeLabels[c]
      BY <2>1, <2>3, <2>4
    <3>3. visited' = visited \cup {first} /\ root' = root /\ dumpPc = "tree" /\ dumpPc' = "tree"
      BY <2>1, <2>2, <2>3
    <3> HIDE DEF LabelsVia, Finished
    <3> QED BY <3>1, <3>2, <3>3
  <2> HIDE DEF LabelsVia, Finished, OfRoot
  <2> QED BY <2>1, <2>2, <2>11, <2>12, <2>13, <2>14, <2>15
<1>10. CASE TreeDone /\ dumpPc = "tree"
  <2>1. queue = <<>> /\ dumpPc' = "roots" /\ UNCHANGED <<roots, root, treeLabels>>
    BY <1>10 DEF TreeDone
  <2>2. Range(queue) = {}
    BY <2>1 DEF Range
  <2>3. root \in components /\ root \notin roots /\ TreeLabels[root] # "none" /\ visited \subseteq components
    BY <1>10 DEF UcmdbType
  <2>4. visited \subseteq Reached(root) /\ root \in visited /\ \A c \in visited, d \in components : Linked(c, d) => d \in visited
    BY <1>1, <1>10, <2>2
  <2>5. Reached(root) = visited
    BY <2>3, <2>4, ReachedIs DEF Downward
  <2>6. Finished(dumpPc', roots', root') = Finished(dumpPc, roots, root) \cup {root}
    BY <1>10, <2>1, <2>3
  <2>7. \A c \in components : treeLabels[c] = LabelsVia(Finished(dumpPc, roots, root), c) \cup OfRoot(dumpPc, visited, root, c)
    BY <1>1, <1>10
  <2>8. \A S, c : LabelsVia(S \cup {root}, c) = LabelsVia(S, c) \cup (IF c \in visited THEN {TreeLabels[root]} ELSE {})
    BY <2>5
  <2>9. \A c : OfRoot(dumpPc, visited, root, c) = (IF c \in visited THEN {TreeLabels[root]} ELSE {})
               /\ OfRoot(dumpPc', visited', root', c) = {}
    BY <1>10, <2>1
  <2> HIDE DEF LabelsVia, Finished, OfRoot
  <2> QED BY <2>1, <2>6, <2>7, <2>8, <2>9
<1>11. CASE TreeDone /\ dumpPc # "tree"
  <2>1. dumpPc = "roots" /\ roots = {} /\ dumpPc' = "done" /\ UNCHANGED <<roots, root, treeLabels>>
    BY <1>11 DEF TreeDone
  <2>2. Finished(dumpPc', roots', root') = Finished(dumpPc, roots, root)
    BY <2>1
  <2> HIDE DEF LabelsVia, Finished
  <2> QED BY <1>1, <2>1, <2>2
<1>12. CASE UNCHANGED ucmdbVars
  <2> HIDE DEF LabelsVia, Finished, OfRoot
  <2> QED BY <1>1, <1>2, <1>12 DEF ucmdbVars
<1>13. ~StartGroups /\ ~LabelGroups /\ ~(\E r \in RelationIds : UniteEnds(r))
  BY <1>2 DEF StartGroups, LabelGroups, UniteEnds
<1> HIDE DEF LabelsVia, Finished, OfRoot
<1> QED BY <1>3, <1>7, <1>8, <1>9, <1>10, <1>11, <1>12, <1>13 DEF UcmdbNext

-----------------------------------------------------------------------------
(* What a dump becomes *)

LEMMA UcmdbInitially == UcmdbInit => UcmdbInv
<1> SUFFICES ASSUME UcmdbInit PROVE UcmdbInv
  OBVIOUS
<1>1. dumpPc = "load"
  BY DEF UcmdbInit
<1>2. BlocksConnected /\ GroupsConnected /\ TreesLabelled
  BY <1>1 DEF BlocksConnected, GroupsConnected, TreesLabelled, Grouping
<1> QED BY <1>2, TypeInitially DEF UcmdbInv

LEMMA UcmdbStep == UcmdbInv /\ [UcmdbNext]_ucmdbVars => UcmdbInv'
BY UcmdbTypeKept, FilesInOrderKept, BlocksConnectedKept, GroupsConnectedKept, TreesLabelledKept DEF UcmdbInv

LEMMA UcmdbImplies == UcmdbInv => DumpSound
<1> SUFFICES ASSUME UcmdbInv PROVE DumpSound
  OBVIOUS
<1>1. LastFileWins /\ GroupsConnected
  BY LastFileWinsHolds DEF UcmdbInv
<1>2. ASSUME dumpPc = "done", NEW c \in components
      PROVE  treeLabels[c] = {TreeLabels[d] : d \in {e \in components : TreeLabels[e] # "none" /\ c \in Reached(e)}}
  <2>1. treeLabels[c] = LabelsFrom(RootsDone, c) /\ RootsDone = {e \in components : TreeLabels[e] # "none"}
    BY <1>2 DEF UcmdbInv, TreesLabelled, RootsDone
  <2> QED BY <2>1 DEF LabelsFrom
<1>3. TreesReached
  BY <1>2, Zenon DEF TreesReached
<1> QED BY <1>1, <1>3 DEF DumpSound

\* The components of a dump are those that the last file to mention them does not
\* delete, their groups are what the relations connect, and a tree labels what its
\* root reaches (UcmdbFileDump.load(), UcmdbComponentGroups, UcmdbComponentTrees).
THEOREM DumpCorrect == UcmdbSpec => []DumpSound
<1>1. UcmdbSpec => []UcmdbInv
  BY UcmdbInitially, UcmdbStep, PTL DEF UcmdbSpec
<1> QED BY <1>1, UcmdbImplies, PTL

-----------------------------------------------------------------------------
(* LogTail *)

Halves == [line : Nat, end : BOOLEAN, kind : LineKinds, look : Looks]

\* A line is one half or two, and lines come in order.
WellWritten(halves) ==
    /\ \A i, j \in DOMAIN halves :
          i < j => \/ halves[i].line < halves[j].line
                   \/ halves[i].line = halves[j].line /\ ~halves[i].end /\ halves[j].end
    /\ \A i \in DOMAIN halves : i < Len(halves) /\ ~halves[i].end =>
          halves[i + 1].line = halves[i].line /\ halves[i + 1].end

FilesInOrderWritten ==
    /\ files \in Seq(Seq(Halves)) /\ Len(files) >= 1 /\ path \in {0, Len(files)}
    /\ written \in Nat /\ cutSince \in BOOLEAN
    /\ \A g \in DOMAIN files : WellWritten(files[g]) /\ \A i \in DOMAIN files[g] : files[g][i].line <= written
    /\ \A g, h \in DOMAIN files : g < h =>
          \A i \in DOMAIN files[g], j \in DOMAIN files[h] : files[g][i].line < files[h][j].line

ReaderType ==
    /\ tailPc \in {"idle", "stat", "open", "read"} /\ gen \in BOOLEAN
    /\ handle \in 0..Len(files) /\ pos \in Nat
    /\ seen.inode \in 0..Len(files) /\ seen.size \in Nat
    /\ unseen \in [lines : SUBSET Nat, misled : BOOLEAN]
    /\ tailPc = "read" => gen
    /\ gen => handle # 0
    /\ tailPc \in {"stat", "open"} => (seekTo = "end" <=> ~gen)
    /\ tailPc = "stat" /\ gen => seekTo = "pos"
    /\ tailPc = "open" => seekTo \in {"start", "pos", "end"}
    /\ delivered \in Seq(Halves) /\ \A i \in DOMAIN delivered : delivered[i].line <= written

\* What the reader has seen of a file that was not truncated is still there.
SeenStays ==
    path # 0 /\ seen.inode = path /\ ~cutSince =>
        /\ seen.size <= Len(LogContent)
        /\ seen.crc # <<>> => Len(LogContent) >= CrcSize /\ seen.crc = Crc

\* What was delivered comes before what a file has after a position, and before the
\* line that is half written at its end.
After(f, d, p) ==
    \A k \in DOMAIN f : k > p \/ (k = Len(f) /\ ~f[k].end) =>
        \A i \in DOMAIN d : d[i].line < f[k].line
ComesAfter(g, p) == After(files[g], delivered, p)

\* A position that the reader has come to, line by line.
LinesOf(d) == {d[i].line : i \in DOMAIN d}
WasRead(f, d, u, p) == p <= Len(f) /\ LinesBefore(f, p) \subseteq LinesOf(d) \union u
HasRead(g, p) == WasRead(files[g], delivered, unseen.lines, p)

InOrder(d) == \A i, j \in DOMAIN d : i < j => d[i].line < d[j].line
NextFileAfter ==
    /\ ~gen /\ path # 0 => ComesAfter(path, 0)
    /\ gen => \A h \in DOMAIN files : h > handle => ComesAfter(h, 0)
PlaceInFile ==
    gen /\ tailPc # "open" =>
        /\ seen.inode = handle
        /\ ComesAfter(handle, pos)
        /\ handle = path /\ cutSince => ComesAfter(path, 0)
        /\ handle = path /\ ~cutSince => HasRead(path, pos)
PlaceToOpen ==
    gen /\ tailPc = "open" /\ path # 0 /\ path = seen.inode /\ ~cutSince =>
        /\ seekTo = "start" => ComesAfter(path, 0)
        /\ seekTo = "pos" => ComesAfter(path, pos) /\ HasRead(path, pos)
PlaceKept == ~unseen.misled => InOrder(delivered) /\ NextFileAfter /\ PlaceInFile /\ PlaceToOpen

\* What the check in progress has got is what was delivered since the last one.
Reports == [made : {Aggregate(lines) : lines \in Seq(Halves)}, upto : Nat]
ReportsFollow ==
    /\ tailReports \in Seq(Reports)
    /\ \A n \in DOMAIN tailReports :
          tailReports[n].upto <= Len(delivered) /\ tailReports[n].made = Aggregate(DeliveredDuring(n))
    /\ tailPc = "idle" => UpTo(Len(tailReports)) = Len(delivered)
    /\ tailPc # "idle" => values = SubSeq(delivered, UpTo(Len(tailReports)) + 1, Len(delivered))

TailInv == FilesInOrderWritten /\ ReaderType /\ SeenStays /\ PlaceKept /\ ReportsFollow

LEMMA Elements == ASSUME NEW S, NEW s \in Seq(S) PROVE \A i \in 1..Len(s) : s[i] \in S
  OBVIOUS

LEMMA HalvesAre == \A x \in Halves : x.line \in Nat /\ x.end \in BOOLEAN
  BY DEF Halves

LEMMA Extended ==
    ASSUME NEW S, NEW f \in Seq(S), NEW h \in Seq(S)
    PROVE  /\ f \o h \in Seq(S) /\ Len(f \o h) = Len(f) + Len(h)
           /\ \A i \in 1..Len(f) : (f \o h)[i] = f[i]
           /\ \A j \in 1..Len(h) : (f \o h)[Len(f) + j] = h[j]
  OBVIOUS

LEMMA Longer ==
    ASSUME NEW S, NEW f \in Seq(S), NEW h \in Seq(S), Len(h) \in {1, 2}
    PROVE  /\ f \o h \in Seq(S) /\ Len(f \o h) = Len(f) + Len(h) /\ Len(f \o h) > Len(f)
           /\ \A i \in 1..Len(f) : i \in DOMAIN (f \o h) /\ (f \o h)[i] = f[i]
           /\ \A k \in DOMAIN (f \o h) : \/ k \in 1..Len(f)
                                         \/ k > Len(f) /\ (f \o h)[k] = h[1]
                                         \/ k > Len(f) /\ Len(h) = 2 /\ (f \o h)[k] = h[2]
<1>1. /\ f \o h \in Seq(S) /\ Len(f \o h) = Len(f) + Len(h)
      /\ \A i \in 1..Len(f) : (f \o h)[i] = f[i]
      /\ \A j \in 1..Len(h) : (f \o h)[Len(f) + j] = h[j]
  BY Extended
<1>2. PICK l \in Nat, m \in {1, 2}, new \in {f \o h} : l = Len(f) /\ m = Len(h)
  OBVIOUS
<1>3. DOMAIN new = 1..(l + m)
  BY <1>1, <1>2
<1>4. \A i \in 1..l : new[i] = f[i]
  BY <1>1, <1>2
<1>5. \A j \in 1..m : new[l + j] = h[j]
  BY <1>1, <1>2
<1>6. \A k \in 1..(l + m) : \/ k \in 1..l
                            \/ k > l /\ new[k] = h[1]
                            \/ k > l /\ m = 2 /\ new[k] = h[2]
  <2> SUFFICES ASSUME NEW k \in 1..(l + m), k > l
               PROVE  new[k] = h[1] \/ (m = 2 /\ new[k] = h[2])
    OBVIOUS
  <2>1. k - l \in 1..m /\ l + (k - l) = k
    OBVIOUS
  <2>2. new[k] = h[k - l]
    BY <1>5, <2>1
  <2>3. k - l = 1 \/ (k - l = 2 /\ m = 2)
    BY <2>1
  <2> QED BY <2>2, <2>3
<1>7. \A i \in 1..l : i \in DOMAIN new /\ new[i] = f[i]
  <2>1. \A i \in 1..l : i \in 1..(l + m)
    OBVIOUS
  <2> QED BY <1>3, <1>4, <2>1, Zenon
<1>8. Len(f \o h) > Len(f)
  BY <1>1, <1>2
<1>9. new = f \o h
  BY <1>2
<1> QED BY <1>1, <1>2, <1>3, <1>6, <1>7, <1>8, <1>9, Zenon

\* What is written to a log, a line, or half of it, or the other half, by positions.
WellAt(f, l) ==
    /\ \A i, j \in 1..l :
          i < j => \/ f[i].line < f[j].line
                   \/ f[i].line = f[j].line /\ ~f[i].end /\ f[j].end
    /\ \A i \in 1..l : i < l /\ ~f[i].end => f[i + 1].line = f[i].line /\ f[i + 1].end
GoesOn(new, f, l, m) ==
    \A i \in 1..l : new[i] = f[i] /\ f[i].line \in Nat /\ f[i].end \in BOOLEAN /\ f[i].line <= m

LEMMA WrittenAt ==
    ASSUME NEW f, NEW h, NEW new, NEW l \in Nat, NEW k \in {1, 2}, NEW n \in Nat, NEW m \in Nat,
           GoesOn(new, f, l, m), new[l + 1] = h[1], k = 2 => new[l + 2] = h[2],
           WellAt(f, l), h[1].line = n,
           \/ n > m /\ (l = 0 \/ f[l].end) /\ (k = 2 => h[2].line = n /\ ~h[1].end /\ h[2].end)
           \/ l > 0 /\ ~f[l].end /\ n = f[l].line /\ k = 1 /\ h[1].end
    PROVE  WellAt(new, l + k)
<1> USE DEF GoesOn, WellAt
<1>1. ASSUME NEW i \in 1..(l + k), NEW j \in 1..(l + k), i < j
      PROVE  \/ new[i].line < new[j].line
             \/ new[i].line = new[j].line /\ ~new[i].end /\ new[j].end
  <2>1. CASE j <= l
    <3>1. i \in 1..l /\ j \in 1..l
      BY <1>1, <2>1
    <3> QED BY <1>1, <3>1
  <2>2. CASE j > l /\ i <= l
    <3>1. i \in 1..l /\ new[i] = f[i] /\ (j = l + 1 \/ (j = l + 2 /\ k = 2))
      BY <2>2
    <3>2. CASE n > m
      <4>1. new[j].line = n
        BY <3>1, <3>2
      <4> QED BY <3>1, <3>2, <4>1
    <3>3. CASE ~(n > m)
      <4>1. l > 0 /\ ~f[l].end /\ n = f[l].line /\ k = 1 /\ h[1].end /\ j = l + 1
        BY <3>1, <3>3
      <4>2. new[j].line = n /\ new[j].end
        BY <4>1
      <4>3. CASE i = l
        BY <3>1, <4>1, <4>2, <4>3
      <4>4. CASE i < l
        <5>1. l \in 1..l
          BY <4>1
        <5>2. f[i].line < f[l].line
          BY <3>1, <4>1, <4>4, <5>1
        <5> QED BY <3>1, <4>1, <4>2, <5>2
      <4> QED BY <3>1, <4>3, <4>4
    <3> QED BY <3>2, <3>3
  <2>3. CASE i > l
    <3>1. i = l + 1 /\ j = l + 2 /\ k = 2
      BY <1>1, <2>3
    <3> QED BY <3>1
  <2> QED BY <2>1, <2>2, <2>3
<1>2. ASSUME NEW i \in 1..(l + k), i < l + k, ~new[i].end
      PROVE  new[i + 1].line = new[i].line /\ new[i + 1].end
  <2>1. CASE i < l
    <3>1. i \in 1..l /\ i + 1 \in 1..l
      BY <2>1
    <3> QED BY <1>2, <2>1, <3>1
  <2>2. CASE i = l
    <3>1. i \in 1..l /\ new[i] = f[l] /\ l > 0
      BY <2>2
    <3> QED BY <1>2, <2>2, <3>1
  <2>3. CASE i > l
    <3>1. i = l + 1 /\ k = 2
      BY <1>2, <2>3
    <3> QED BY <3>1
  <2> QED BY <2>1, <2>2, <2>3
<1> QED BY <1>1, <1>2

LEMMA WrittenWell ==
    ASSUME NEW f \in Seq(Halves), WellWritten(f), NEW h \in Seq(Halves), NEW n \in Nat, NEW m \in Nat,
           \A i \in 1..Len(f) : f[i].line <= m,
           Len(h) \in {1, 2}, h[1].line = n,
           \/ n > m /\ (Len(f) = 0 \/ f[Len(f)].end) /\ (Len(h) = 2 => h[2].line = n /\ ~h[1].end /\ h[2].end)
           \/ Len(f) > 0 /\ ~f[Len(f)].end /\ n = f[Len(f)].line /\ Len(h) = 1 /\ h[1].end
    PROVE  WellWritten(f \o h)
<1>1. /\ f \o h \in Seq(Halves) /\ Len(f \o h) = Len(f) + Len(h) /\ Len(f) \in Nat
      /\ \A i \in 1..Len(f) : (f \o h)[i] = f[i]
      /\ \A j \in 1..Len(h) : (f \o h)[Len(f) + j] = h[j]
  BY Extended
<1>2. DOMAIN (f \o h) = 1..(Len(f) + Len(h)) /\ DOMAIN f = 1..Len(f)
  BY <1>1
<1>3. \A i \in 1..Len(f) : f[i].line \in Nat /\ f[i].end \in BOOLEAN
  BY Elements, HalvesAre, Zenon
<1>4. 1 \in 1..Len(h) /\ (Len(h) = 2 => 2 \in 1..Len(h))
  BY <1>1
<1>5. (f \o h)[Len(f) + 1] = h[1] /\ (Len(h) = 2 => (f \o h)[Len(f) + 2] = h[2])
  BY <1>1, <1>4
<1>6. PICK l \in Nat, k \in {1, 2}, new \in {f \o h} : l = Len(f) /\ k = Len(h)
  BY <1>1
<1>7. WellAt(new, l + k)
  <2>1. GoesOn(new, f, l, m)
    BY <1>1, <1>3, <1>6 DEF GoesOn
  <2>2. new[l + 1] = h[1] /\ (k = 2 => new[l + 2] = h[2])
    BY <1>5, <1>6
  <2>3. WellAt(f, l)
    BY <1>2, <1>6, Zenon DEF WellWritten, WellAt
  <2>4. \/ n > m /\ (l = 0 \/ f[l].end) /\ (k = 2 => h[2].line = n /\ ~h[1].end /\ h[2].end)
        \/ l > 0 /\ ~f[l].end /\ n = f[l].line /\ k = 1 /\ h[1].end
    BY <1>6
  <2> QED BY <2>1, <2>2, <2>3, <2>4, WrittenAt
<1>8. WellWritten(new)
  <2>1. DOMAIN new = 1..(l + k) /\ Len(new) = l + k
    BY <1>1, <1>2, <1>6
  <2> QED BY <1>7, <2>1, ZenonT(30) DEF WellWritten, WellAt
<1> QED BY <1>6, <1>8

\* A line, or a part of one, that is written.
LEMMA WriteIs ==
    ASSUME FilesInOrderWritten, WriteLine \/ FinishLine
    PROVE  \E h \in Seq(Halves), n \in Nat :
              /\ path \in DOMAIN files /\ files' = [files EXCEPT ![path] = @ \o h]
              /\ written' \in Nat /\ written <= written' /\ n <= written'
              /\ UNCHANGED <<path, cutSince, readerVars>>
              /\ Len(h) \in {1, 2} /\ h[1].line = n
              /\ \/ /\ n > written /\ (Len(files[path]) = 0 \/ files[path][Len(files[path])].end)
                    /\ Len(h) = 2 => h[2].line = n /\ ~h[1].end /\ h[2].end
                 \/ /\ Len(files[path]) > 0 /\ ~files[path][Len(files[path])].end
                    /\ n = files[path][Len(files[path])].line
                    /\ Len(h) = 1 /\ h[1].end
<1>1. path \in DOMAIN files /\ files[path] \in Seq(Halves) /\ written \in Nat
  <2>1. path # 0
    BY DEF WriteLine, FinishLine
  <2> QED BY <2>1 DEF FilesInOrderWritten
<1>2. CASE WriteLine
  <2>1. /\ written' = written + 1 /\ UNCHANGED <<path, cutSince, upheavals, readerVars>> /\ ~Unfinished
        /\ \E kind \in LineKinds, look \in Looks :
              \/ Extend(<<Half(written', FALSE, kind, look), Half(written', TRUE, kind, look)>>)
              \/ Extend(<<Half(written', FALSE, kind, look)>>)
    BY <1>2 DEF WriteLine
  <2>2. PICK kind \in LineKinds, look \in Looks :
              \/ Extend(<<Half(written', FALSE, kind, look), Half(written', TRUE, kind, look)>>)
              \/ Extend(<<Half(written', FALSE, kind, look)>>)
    BY <2>1
  <2>3. PICK n \in Nat : n = written + 1 /\ n = written'
    BY <1>1, <2>1
  <2>4. PICK a \in Halves : a = [line |-> n, end |-> FALSE, kind |-> kind, look |-> look]
    BY DEF Halves
  <2>5. PICK b \in Halves : b = [line |-> n, end |-> TRUE, kind |-> kind, look |-> look]
    BY DEF Halves
  <2>6. PICK h \in {<<a, b>>, <<a>>} : Extend(h)
    <3>1. Extend(<<a, b>>) \/ Extend(<<a>>)
      BY <2>2, <2>3, <2>4, <2>5 DEF Half
    <3> QED BY <3>1, Zenon
  <2>7. files' = [files EXCEPT ![path] = @ \o h] /\ h \in Seq(Halves)
    <3>1. <<a, b>> \in Seq(Halves) /\ <<a>> \in Seq(Halves)
      <4> HIDE DEF Halves
      <4> QED OBVIOUS
    <3> QED BY <2>6, <3>1, Zenon DEF Extend
  <2>8. Len(files[path]) = 0 \/ files[path][Len(files[path])].end
    <3>1. files[path] # <<>> => files[path][Len(files[path])].end
      BY <2>1 DEF Unfinished, LogContent
    <3> QED BY <1>1, <3>1
  <2>9. Len(h) \in {1, 2} /\ h[1].line = n /\ (Len(h) = 2 => h[2].line = n /\ ~h[1].end /\ h[2].end)
    BY <2>4, <2>5, <2>6
  <2>10. n > written /\ written' \in Nat /\ written <= written' /\ n <= written'
    BY <1>1, <2>3
  <2> QED BY <1>1, <2>1, <2>7, <2>8, <2>9, <2>10, Zenon
<1>3. CASE FinishLine
  <2>1. /\ files[path] # <<>> /\ ~files[path][Len(files[path])].end
        /\ Extend(<<[files[path][Len(files[path])] EXCEPT !.end = TRUE]>>)
        /\ UNCHANGED <<path, cutSince, written, upheavals, readerVars>>
    BY <1>3 DEF FinishLine, Unfinished, LogContent
  <2>2. Len(files[path]) \in Nat \ {0} /\ Len(files[path]) \in 1..Len(files[path])
    BY <1>1, <2>1
  <2>3. PICK t \in Halves : t = files[path][Len(files[path])]
    BY <1>1, <2>2
  <2>4. PICK b \in Halves : b = [t EXCEPT !.end = TRUE] /\ b.line = t.line /\ b.end
    <3>1. [t EXCEPT !.end = TRUE] \in Halves
      BY DEF Halves
    <3>2. [t EXCEPT !.end = TRUE].line = t.line /\ [t EXCEPT !.end = TRUE].end = TRUE
      BY DEF Halves
    <3> QED BY <3>1, <3>2, Zenon
  <2>5. PICK h \in Seq(Halves) : h = <<b>> /\ Extend(h)
    <3>1. <<b>> \in Seq(Halves)
      OBVIOUS
    <3> QED BY <2>1, <2>3, <2>4, <3>1, Zenon
  <2>6. files' = [files EXCEPT ![path] = @ \o h]
    BY <2>5 DEF Extend
  <2>7. Len(h) = 1 /\ h[1].line = t.line /\ h[1].end
    BY <2>4, <2>5
  <2>9. PICK n \in Nat : n = t.line
    BY HalvesAre
  <2>8. t.line \in Nat /\ t.line <= written
    BY <1>1, <2>2, <2>3 DEF FilesInOrderWritten, Halves
  <2>10. Len(files[path]) > 0 /\ ~files[path][Len(files[path])].end /\ n = files[path][Len(files[path])].line
    BY <2>1, <2>2, <2>3, <2>9
  <2>11. written' \in Nat /\ written <= written' /\ n <= written' /\ UNCHANGED <<path, cutSince, readerVars>>
    BY <1>1, <2>1, <2>8, <2>9
  <2>12. Len(h) \in {1, 2} /\ h[1].line = n /\ Len(h) = 1 /\ h[1].end
    BY <2>7, <2>9
  <2> QED BY <1>1, <2>6, <2>10, <2>11, <2>12, Zenon
<1> QED BY <1>2, <1>3

\* What a step of the log leaves of what the reader relies on.
LogKept ==
    /\ UNCHANGED readerVars
    /\ FilesInOrderWritten' /\ written <= written' /\ Len(files) <= Len(files')
    /\ \A g \in DOMAIN files, p \in Nat : ComesAfter(g, p) => ComesAfter(g, p)'
    /\ \A g \in DOMAIN files' \ DOMAIN files : ComesAfter(g, 0)'
    /\ path' # 0 /\ path' # path => path' > Len(files)
    /\ path' = path /\ path # 0 =>
        /\ cutSince => cutSince'
        /\ cutSince' /\ ~cutSince => \A p \in Nat : \A g \in {path} : ComesAfter(g, p)'
        /\ ~cutSince' => /\ Len(files[path]) <= Len(files'[path])
                         /\ \A i \in 1..Len(files[path]) : files'[path][i] = files[path][i]

LEMMA WriteKeeps ==
    ASSUME FilesInOrderWritten, ReaderType, WriteLine \/ FinishLine
    PROVE  LogKept
<1>0. PICK h \in Seq(Halves), n \in Nat :
              /\ path \in DOMAIN files /\ files' = [files EXCEPT ![path] = @ \o h]
              /\ written' \in Nat /\ written <= written' /\ n <= written'
              /\ UNCHANGED <<path, cutSince, readerVars>>
              /\ Len(h) \in {1, 2} /\ h[1].line = n
              /\ \/ /\ n > written /\ (Len(files[path]) = 0 \/ files[path][Len(files[path])].end)
                    /\ Len(h) = 2 => h[2].line = n /\ ~h[1].end /\ h[2].end
                 \/ /\ Len(files[path]) > 0 /\ ~files[path][Len(files[path])].end
                    /\ n = files[path][Len(files[path])].line
                    /\ Len(h) = 1 /\ h[1].end
  BY WriteIs
<1>17. path \in DOMAIN files /\ files' = [files EXCEPT ![path] = @ \o h]
  BY <1>0
<1>18. /\ written' \in Nat /\ written <= written' /\ n <= written'
       /\ UNCHANGED <<path, cutSince, readerVars>>
  BY <1>0
<1>19. Len(h) \in {1, 2} /\ h[1].line = n
  BY <1>0
<1>1. /\ files \in Seq(Seq(Halves)) /\ Len(files) \in Nat /\ Len(files) >= 1 /\ path = Len(files)
      /\ DOMAIN files = 1..Len(files) /\ written \in Nat
      /\ \A g \in DOMAIN files : WellWritten(files[g]) /\ \A i \in DOMAIN files[g] : files[g][i].line <= written
      /\ \A g, k \in DOMAIN files : g < k =>
            \A i \in DOMAIN files[g], j \in DOMAIN files[k] : files[g][i].line < files[k][j].line
  <2>1. /\ files \in Seq(Seq(Halves)) /\ Len(files) >= 1 /\ path \in {0, Len(files)} /\ written \in Nat
        /\ \A g \in DOMAIN files : WellWritten(files[g]) /\ \A i \in DOMAIN files[g] : files[g][i].line <= written
        /\ \A g, k \in DOMAIN files : g < k =>
              \A i \in DOMAIN files[g], j \in DOMAIN files[k] : files[g][i].line < files[k][j].line
    BY Zenon DEF FilesInOrderWritten
  <2>2. Len(files) \in Nat /\ DOMAIN files = 1..Len(files) /\ path = Len(files)
    BY <2>1, <1>17
  <2> QED BY <2>1, <2>2
<1>2. PICK f \in Seq(Halves) : f = files[path] /\ Len(f) \in Nat /\ DOMAIN f = 1..Len(f)
  BY <1>1, <1>17
<1>3. PICK new \in Seq(Halves) :
        /\ new = f \o h /\ Len(new) = Len(f) + Len(h) /\ Len(new) > Len(f)
        /\ \A i \in 1..Len(f) : i \in DOMAIN new /\ new[i] = f[i]
        /\ \A k \in DOMAIN new : \/ k \in 1..Len(f)
                                 \/ k > Len(f) /\ new[k] = h[1]
                                 \/ k > Len(f) /\ Len(h) = 2 /\ new[k] = h[2]
  <2>1. /\ f \o h \in Seq(Halves) /\ Len(f \o h) = Len(f) + Len(h) /\ Len(f \o h) > Len(f)
        /\ \A i \in 1..Len(f) : i \in DOMAIN (f \o h) /\ (f \o h)[i] = f[i]
        /\ \A k \in DOMAIN (f \o h) : \/ k \in 1..Len(f)
                                      \/ k > Len(f) /\ (f \o h)[k] = h[1]
                                      \/ k > Len(f) /\ Len(h) = 2 /\ (f \o h)[k] = h[2]
    BY <1>19, Longer
  <2> QED BY <2>1, Zenon
<1>4. /\ files' = [files EXCEPT ![path] = new] /\ DOMAIN files' = DOMAIN files
      /\ files'[path] = new /\ \A g \in DOMAIN files : g # path => files'[g] = files[g]
  BY <1>1, <1>2, <1>3, <1>17
<1>5. files' \in Seq(Seq(Halves)) /\ Len(files') = Len(files)
  <2>1. [files EXCEPT ![path] = new] \in Seq(Seq(Halves)) /\ Len([files EXCEPT ![path] = new]) = Len(files)
    <3> HIDE DEF Halves
    <3>1. path \in 1..Len(files)
      BY <1>1
    <3> QED BY <1>1, <3>1, ExceptSeq
  <2> QED BY <1>4, <2>1
<1>6. \A i \in 1..Len(f) : f[i].line <= written
  BY <1>1, <1>2
<1>7. /\ \/ n > written /\ (Len(f) = 0 \/ f[Len(f)].end) /\ (Len(h) = 2 => h[2].line = n /\ ~h[1].end /\ h[2].end)
         \/ Len(f) > 0 /\ ~f[Len(f)].end /\ n = f[Len(f)].line /\ Len(h) = 1 /\ h[1].end
  BY <1>0, <1>2
<1>8. WellWritten(new)
  <2>1. WellWritten(f)
    BY <1>1, <1>2
  <2>2. WellWritten(f \o h)
    BY <1>1, <1>6, <1>7, <1>19, <2>1, WrittenWell
  <2> QED BY <1>3, <2>2
<1>9. \A k \in DOMAIN new : \/ k \in 1..Len(f) /\ new[k] = f[k]
                            \/ k > Len(f) /\ new[k].line = n
  <2>1. Len(h) = 2 => h[2].line = n
    BY <1>7
  <2> QED BY <1>3, <1>19, <2>1
<1>10. \A k \in DOMAIN new : new[k].line <= written'
  <2>1. \A i \in 1..Len(f) : f[i].line \in Nat
    BY HalvesAre, Elements
  <2> SUFFICES ASSUME NEW k \in DOMAIN new PROVE new[k].line <= written'
    OBVIOUS
  <2>2. CASE k \in 1..Len(f) /\ new[k] = f[k]
    <3>1. new[k].line \in Nat /\ new[k].line <= written
      BY <1>6, <2>1, <2>2
    <3> QED BY <1>1, <1>18, <3>1
  <2>3. CASE new[k].line = n
    BY <1>18, <2>3
  <2> QED BY <1>9, <2>2, <2>3
<1>11. ASSUME NEW g \in DOMAIN files, g < path, NEW i \in DOMAIN files[g], NEW k \in DOMAIN new
       PROVE  files[g][i].line < new[k].line
  <2>1. files[g][i].line \in Nat /\ files[g][i].line <= written
    <3>1. files[g] \in Seq(Halves)
      BY <1>1
    <3>2. files[g][i] \in Halves
      BY <1>11, <3>1
    <3> QED BY <1>1, <3>2, HalvesAre
  <2>2. \A j \in 1..Len(f) : files[g][i].line < f[j].line
    BY <1>1, <1>2, <1>11
  <2>3. CASE n > written
    <3>1. CASE k \in 1..Len(f)
      BY SMTT(30), <1>9, <1>2, <2>2, <3>1
    <3>2. CASE k > Len(f)
      <4>1. new[k].line = n
        BY <1>9, <1>2, <3>2
      <4> QED BY <1>1, <2>1, <2>3, <4>1
    <3> QED BY <1>9, <3>1, <3>2
  <2>4. CASE ~(n > written)
    <3>1. Len(f) > 0 /\ n = f[Len(f)].line /\ Len(f) \in 1..Len(f)
      BY <1>2, <1>7, <2>4
    <3> QED BY <1>9, <2>2, <3>1
  <2> QED BY <2>3, <2>4
<1>12. FilesInOrderWritten'
  <2>1. \A g \in DOMAIN files' : WellWritten(files'[g]) /\ \A i \in DOMAIN files'[g] : files'[g][i].line <= written'
    <3> SUFFICES ASSUME NEW g \in DOMAIN files
                 PROVE  WellWritten(files'[g]) /\ \A i \in DOMAIN files'[g] : files'[g][i].line <= written'
      BY <1>4
    <3>1. CASE g = path
      BY <1>4, <1>8, <1>10, <3>1
    <3>2. CASE g # path
      <4>1. files'[g] = files[g] /\ files[g] \in Seq(Halves)
        BY <1>1, <1>4, <3>2
      <4>2. \A i \in DOMAIN files[g] : files[g][i].line \in Nat
        BY <4>1, HalvesAre
      <4> QED BY <1>1, <1>18, <4>1, <4>2
    <3> QED BY <3>1, <3>2
  <2>2. \A g, k \in DOMAIN files' : g < k =>
            \A i \in DOMAIN files'[g], j \in DOMAIN files'[k] : files'[g][i].line < files'[k][j].line
    <3> SUFFICES ASSUME NEW g \in DOMAIN files, NEW k \in DOMAIN files, g < k,
                        NEW i \in DOMAIN files'[g], NEW j \in DOMAIN files'[k]
                 PROVE  files'[g][i].line < files'[k][j].line
      BY <1>4
    <3>1. g # path /\ files'[g] = files[g] /\ g < path
      BY <1>1, <1>4
    <3>2. CASE k = path
      BY <1>4, <1>11, <3>1, <3>2
    <3>3. CASE k # path
      BY <1>1, <1>4, <3>1, <3>3
    <3> QED BY <3>2, <3>3
  <2>3. cutSince \in BOOLEAN
    BY DEF FilesInOrderWritten
  <2> QED BY <1>1, <1>5, <1>18, <2>1, <2>2, <2>3 DEF FilesInOrderWritten
<1>13. ASSUME NEW g \in DOMAIN files, NEW p \in Nat, ComesAfter(g, p) PROVE ComesAfter(g, p)'
  <2>1. delivered' = delivered
    BY <1>18 DEF readerVars
  <2>2. CASE g # path
    BY <1>4, <1>13, <2>1, <2>2 DEF ComesAfter, After
  <2>3. CASE g = path
    <3>1. \A k \in DOMAIN f : k > p \/ (k = Len(f) /\ ~f[k].end) =>
             \A i \in DOMAIN delivered : delivered[i].line < f[k].line
      BY <1>2, <1>13, <2>3, Zenon DEF ComesAfter, After
    <3> SUFFICES ASSUME NEW k \in DOMAIN new, k > p \/ (k = Len(new) /\ ~new[k].end), NEW i \in DOMAIN delivered
                 PROVE  delivered[i].line < new[k].line
      BY <1>4, <2>1, <2>3 DEF ComesAfter, After
    <3>2. delivered[i].line \in Nat /\ delivered[i].line <= written
      <4>1. delivered[i] \in Halves
        BY DEF ReaderType
      <4> QED BY <4>1, HalvesAre DEF ReaderType
    <3>3. CASE k \in 1..Len(f)
      <4>1. k > p
        BY <1>2, <1>3, <1>19, <3>3
      <4> QED BY <1>2, <1>3, <3>1, <3>3, <4>1
    <3>4. CASE k > Len(f) /\ n > written
      <4>1. new[k].line = n
        BY <1>2, <1>9, <3>4
      <4> QED BY <1>1, <3>2, <3>4, <4>1
    <3>5. CASE k > Len(f) /\ ~(n > written)
      <4>1. Len(f) > 0 /\ n = f[Len(f)].line /\ Len(f) \in DOMAIN f /\ ~f[Len(f)].end
        BY <1>2, <1>7, <3>5
      <4>2. new[k].line = n
        BY <1>2, <1>9, <3>5
      <4> QED BY <3>1, <4>1, <4>2
    <3> QED BY <1>2, <1>3, <3>3, <3>4, <3>5
  <2> QED BY <2>2, <2>3
<1>14. Len(files[path]) <= Len(files'[path]) /\ \A i \in 1..Len(files[path]) : files'[path][i] = files[path][i]
  BY <1>2, <1>3, <1>4
<1>15. \A g \in DOMAIN files' \ DOMAIN files : ComesAfter(g, 0)'
  BY <1>4
<1>16. path' = path /\ cutSince' = cutSince /\ UNCHANGED readerVars /\ written <= written' /\ Len(files) <= Len(files')
  BY <1>1, <1>5, <1>18
<1>20. path \in Nat \ {0} /\ cutSince' = cutSince /\ path' = path
  BY <1>1, <1>16
<1>21. /\ cutSince => cutSince'
       /\ cutSince' /\ ~cutSince => \A p \in Nat : \A g \in {path} : ComesAfter(g, p)'
       /\ path' # 0 /\ path' # path => path' > Len(files)
  BY <1>20
<1>22. UNCHANGED readerVars /\ written <= written' /\ Len(files) <= Len(files')
  BY <1>16
<1> HIDE DEF FilesInOrderWritten, ComesAfter, readerVars
<1> QED BY <1>12, <1>13, <1>14, <1>15, <1>21, <1>22 DEF LogKept

LEMMA OneMore ==
    ASSUME NEW S, NEW s \in Seq(S), NEW x \in S
    PROVE  /\ Append(s, x) \in Seq(S) /\ Len(Append(s, x)) = Len(s) + 1 /\ DOMAIN Append(s, x) = 1..(Len(s) + 1)
           /\ \A i \in 1..Len(s) : Append(s, x)[i] = s[i]
           /\ Append(s, x)[Len(s) + 1] = x
  OBVIOUS

\* A file that is new, and empty.
NewFile ==
    /\ files' = Append(files, <<>>) /\ path' = Len(files') /\ cutSince' = FALSE
    /\ UNCHANGED <<written, readerVars>>

LEMMA NewFileKeeps ==
    ASSUME FilesInOrderWritten, ReaderType, NewFile
    PROVE  LogKept
<1>1. PICK l \in Nat :
        /\ files \in Seq(Seq(Halves)) /\ l = Len(files) /\ l >= 1
        /\ path \in {0, l} /\ written \in Nat /\ DOMAIN files = 1..l
        /\ \A g \in DOMAIN files : WellWritten(files[g]) /\ \A i \in DOMAIN files[g] : files[g][i].line <= written
        /\ \A g, h \in DOMAIN files : g < h =>
              \A i \in DOMAIN files[g], j \in DOMAIN files[h] : files[g][i].line < files[h][j].line
  <2>1. files \in Seq(Seq(Halves)) /\ Len(files) \in Nat /\ DOMAIN files = 1..Len(files)
    BY DEF FilesInOrderWritten
  <2> QED BY <2>1 DEF FilesInOrderWritten
<1>2. /\ files' \in Seq(Seq(Halves)) /\ Len(files') = l + 1 /\ DOMAIN files' = 1..(l + 1)
      /\ \A g \in 1..l : files'[g] = files[g]
      /\ files'[l + 1] = <<>>
  <2>1. <<>> \in Seq(Halves)
    OBVIOUS
  <2>2. files' = Append(files, <<>>)
    BY DEF NewFile
  <2> HIDE DEF Halves
  <2> QED BY <1>1, <2>1, <2>2, OneMore
<1>3. path' = l + 1 /\ cutSince' = FALSE /\ written' = written /\ UNCHANGED readerVars /\ delivered' = delivered
  BY <1>2 DEF NewFile, readerVars
<1>4. \A g \in DOMAIN files' : (g \in DOMAIN files /\ files'[g] = files[g]) \/ (g = l + 1 /\ files'[g] = <<>>)
  BY SMTT(30), <1>1, <1>2
<1>5. \A g \in DOMAIN files : g \in DOMAIN files' /\ files'[g] = files[g] /\ g < l + 1 /\ g # l + 1
  BY <1>1, <1>2
<1>6. WellWritten(<<>>) /\ DOMAIN <<>> = {}
  BY DEF WellWritten
<1>7. FilesInOrderWritten'
  <2>1. \A g \in DOMAIN files' : WellWritten(files'[g]) /\ \A i \in DOMAIN files'[g] : files'[g][i].line <= written
    BY <1>1, <1>4, <1>6
  <2>2. ASSUME NEW g \in DOMAIN files', NEW h \in DOMAIN files', g < h,
               NEW i \in DOMAIN files'[g], NEW j \in DOMAIN files'[h]
        PROVE  files'[g][i].line < files'[h][j].line
    <3>1. h \in DOMAIN files /\ files'[h] = files[h]
      BY <1>4, <1>6
    <3>2. g \in DOMAIN files /\ files'[g] = files[g]
      BY <1>4, <1>6
    <3> QED BY <1>1, <2>2, <3>1, <3>2
  <2>3. Len(files') >= 1 /\ path' = Len(files') /\ written' \in Nat /\ cutSince' \in BOOLEAN
    <3>1. Len(files') >= 1 /\ path' = Len(files')
      BY <1>1, <1>2, <1>3
    <3>2. written' \in Nat
      BY <1>1, <1>3
    <3> QED BY <1>3, <3>1, <3>2
  <2>4. files' \in Seq(Seq(Halves))
    BY <1>2
  <2> HIDE DEF WellWritten, Halves
  <2> QED BY <1>3, <2>1, <2>2, <2>3, <2>4 DEF FilesInOrderWritten
<1>9. \A g \in DOMAIN files, p \in Nat : ComesAfter(g, p) => ComesAfter(g, p)'
  BY <1>3, <1>5 DEF ComesAfter, After
<1>10. \A g \in DOMAIN files' \ DOMAIN files : ComesAfter(g, 0)'
  BY <1>4, <1>6 DEF ComesAfter, After
<1>11. path' > Len(files) /\ path' # path /\ Len(files) <= Len(files') /\ written <= written'
  BY <1>1, <1>2, <1>3
<1> HIDE DEF FilesInOrderWritten, ComesAfter, readerVars
<1> QED BY <1>3, <1>7, <1>9, <1>10, <1>11 DEF LogKept

LEMMA UnlinkKeeps ==
    ASSUME FilesInOrderWritten, ReaderType, Unlink
    PROVE  LogKept
<1>1. path # 0 /\ path' = 0 /\ UNCHANGED <<files, cutSince, written, readerVars>>
  BY DEF Unlink, Upheaval
<1>2. FilesInOrderWritten'
  BY <1>1 DEF FilesInOrderWritten
<1>3. delivered' = delivered
  BY <1>1 DEF readerVars
<1>4. \A g, p : ComesAfter(g, p) => ComesAfter(g, p)'
  BY <1>1, <1>3 DEF ComesAfter, After
<1>5. written <= written' /\ Len(files) <= Len(files')
  BY <1>1 DEF FilesInOrderWritten
<1> HIDE DEF FilesInOrderWritten, ComesAfter, readerVars
<1> QED BY <1>1, <1>2, <1>4, <1>5 DEF LogKept

LEMMA TruncateKeeps ==
    ASSUME FilesInOrderWritten, ReaderType, Truncate
    PROVE  LogKept
<1>1. path # 0 /\ files' = [files EXCEPT ![path] = <<>>] /\ cutSince' = TRUE
      /\ UNCHANGED <<path, written, readerVars>>
  BY DEF Truncate, Upheaval
<1>2. /\ files \in Seq(Seq(Halves)) /\ Len(files) \in Nat /\ path = Len(files) /\ path \in DOMAIN files
      /\ Len(files) >= 1 /\ written \in Nat /\ DOMAIN files = 1..Len(files)
      /\ \A g \in DOMAIN files : WellWritten(files[g]) /\ \A i \in DOMAIN files[g] : files[g][i].line <= written
      /\ \A g, h \in DOMAIN files : g < h =>
            \A i \in DOMAIN files[g], j \in DOMAIN files[h] : files[g][i].line < files[h][j].line
  BY <1>1 DEF FilesInOrderWritten
<1>3. files' \in Seq(Seq(Halves)) /\ Len(files') = Len(files)
  <2>1. <<>> \in Seq(Halves)
    OBVIOUS
  <2> HIDE DEF Halves
  <2>2. path \in 1..Len(files)
    BY <1>2
  <2> QED BY <1>1, <1>2, <2>1, <2>2, ExceptSeq
<1>4. /\ DOMAIN files' = DOMAIN files /\ files'[path] = <<>> /\ DOMAIN files'[path] = {}
      /\ \A g \in DOMAIN files : g # path => files'[g] = files[g]
  BY <1>1, <1>2
<1>5. WellWritten(<<>>)
  BY DEF WellWritten
<1>6. FilesInOrderWritten'
  <2>1. \A g \in DOMAIN files' : WellWritten(files'[g]) /\ \A i \in DOMAIN files'[g] : files'[g][i].line <= written
    BY <1>2, <1>4, <1>5
  <2>2. \A g, h \in DOMAIN files' : g < h =>
            \A i \in DOMAIN files'[g], j \in DOMAIN files'[h] : files'[g][i].line < files'[h][j].line
    BY <1>2, <1>4
  <2> HIDE DEF WellWritten, Halves
  <2> QED BY <1>1, <1>2, <1>3, <2>1, <2>2 DEF FilesInOrderWritten
<1>7. delivered' = delivered
  BY <1>1 DEF readerVars
<1>8. \A g \in DOMAIN files, p \in Nat : ComesAfter(g, p) => ComesAfter(g, p)'
  BY <1>4, <1>7 DEF ComesAfter, After
<1>9. \A p \in Nat : \A g \in {path} : ComesAfter(g, p)'
  BY <1>4 DEF ComesAfter, After
<1>10. written <= written' /\ Len(files) <= Len(files') /\ path' = path /\ cutSince' = TRUE /\ UNCHANGED readerVars
  BY <1>1, <1>2, <1>3
<1> HIDE DEF FilesInOrderWritten, ComesAfter, readerVars
<1> QED BY <1>4, <1>6, <1>8, <1>9, <1>10 DEF LogKept

LEMMA LogKeeps == FilesInOrderWritten /\ ReaderType /\ LogStep => LogKept
<1> SUFFICES ASSUME FilesInOrderWritten, ReaderType, LogStep PROVE LogKept
  OBVIOUS
<1>1. ASSUME Rotate \/ Create PROVE LogKept
  BY <1>1, NewFileKeeps DEF Rotate, Create, Upheaval, NewFile
<1> QED BY <1>1, WriteKeeps, UnlinkKeeps, TruncateKeeps DEF LogStep

\* What was read of a file that only grew.
LEMMA HasReadKept ==
    ASSUME FilesInOrderWritten, LogKept, NEW g \in DOMAIN files, NEW p \in Nat, HasRead(g, p),
           Len(files[g]) <= Len(files'[g]), \A i \in 1..Len(files[g]) : files'[g][i] = files[g][i]
    PROVE  HasRead(g, p)'
<1>1. UNCHANGED <<delivered, unseen>>
  BY DEF LogKept, readerVars
<1>2. PICK f \in Seq(Halves), new \in Seq(Halves) : f = files[g] /\ new = files'[g]
  <2>1. files \in Seq(Seq(Halves)) /\ files' \in Seq(Seq(Halves)) /\ Len(files) <= Len(files')
    BY DEF FilesInOrderWritten, LogKept
  <2>2. g \in DOMAIN files'
    BY <2>1
  <2> HIDE DEF Halves
  <2> QED BY <2>1, <2>2
<1>3. p <= Len(f) /\ Len(f) <= Len(new) /\ (\A i \in 1..Len(f) : new[i] = f[i]) /\ Len(f) \in Nat /\ Len(new) \in Nat
      /\ DOMAIN f = 1..Len(f) /\ DOMAIN new = 1..Len(new)
  BY <1>2 DEF HasRead, WasRead
<1>4. {j \in DOMAIN new : j <= p} = {j \in DOMAIN f : j <= p}
  BY <1>3
<1>5. LinesBefore(new, p) = LinesBefore(f, p)
  BY <1>3, <1>4 DEF LinesBefore
<1>6. LinesBefore(f, p) \subseteq LinesOf(delivered) \cup unseen.lines
  BY <1>1, <1>2 DEF HasRead, WasRead
<1>7. p <= Len(new)
  BY <1>3
<1>8. LinesBefore(files[g], p)' = LinesBefore(new, p)
  BY <1>2 DEF LinesBefore
<1> HIDE DEF LinesBefore, LinesOf
<1> QED BY <1>1, <1>2, <1>5, <1>6, <1>7, <1>8 DEF HasRead, WasRead

\* A line, or what is written of one, is read.
ReadPart(f, n) ==
    /\ f = files[handle] /\ handle \in DOMAIN files /\ tailPc = "read"
    /\ pos + n <= Len(f) /\ pos' = pos + n
    /\ n = 2 => /\ ~f[pos + 1].end /\ f[pos + 2].end /\ f[pos + 2].line = f[pos + 1].line
                /\ delivered' = Append(delivered, f[pos + 1]) /\ values' = Append(values, f[pos + 1])
                /\ unseen'.lines = unseen.lines
    /\ n = 1 => UNCHANGED <<delivered, values>> /\ unseen'.lines = unseen.lines \union {f[pos + 1].line}
    /\ unseen'.misled = (unseen.misled \/ (handle = path /\ cutSince))
    /\ unseen' \in [lines : SUBSET Nat, misled : BOOLEAN]
    /\ UNCHANGED <<diskVars, checks, tailPc, gen, handle, seekTo, seen, tailReports>>

LEMMA UnreadIs ==
    ASSUME NEW f \in Seq(Halves), NEW p \in Nat, SubSeq(f, p + 1, Len(f)) # <<>>
    PROVE  /\ p < Len(f) /\ DOMAIN SubSeq(f, p + 1, Len(f)) = 1..(Len(f) - p)
           /\ Len(SubSeq(f, p + 1, Len(f))) = Len(f) - p
           /\ \A i \in 1..(Len(f) - p) : SubSeq(f, p + 1, Len(f))[i] = f[p + i]
<1>1. Len(f) \in Nat
  OBVIOUS
<1>2. p < Len(f)
  BY <1>1
<1> QED BY <1>1, <1>2

LEMMA ReadLineIs ==
    ASSUME FilesInOrderWritten, ReaderType, ReadLine
    PROVE  \E f \in Seq(Halves), n \in {1, 2} : ReadPart(f, n)
<1>1. tailPc = "read" /\ handle \in DOMAIN files /\ pos \in Nat /\ unseen \in [lines : SUBSET Nat, misled : BOOLEAN]
      /\ files[handle] \in Seq(Halves) /\ WellWritten(files[handle])
  BY SMTT(30) DEF FilesInOrderWritten, ReaderType, ReadLine
<1>2. PICK f \in Seq(Halves) : f = files[handle] /\ WellWritten(f)
  BY <1>1
<1>3. PICK l \in Nat : l = Len(f) /\ DOMAIN f = 1..l
  OBVIOUS
<1>4. PICK u \in {Unread} : u # <<>> /\ u = SubSeq(f, pos + 1, Len(f))
  BY <1>2 DEF ReadLine, Unread
<1>5. /\ pos < l /\ DOMAIN u = 1..(l - pos) /\ Len(u) = l - pos
      /\ \A i \in 1..(l - pos) : u[i] = f[pos + i]
  BY <1>1, <1>3, <1>4, UnreadIs
<1>6. pos + 1 < l /\ ~f[pos + 1].end => f[pos + 2].line = f[pos + 1].line /\ f[pos + 2].end
  <2>1. pos + 1 \in 1..l /\ (pos + 1) + 1 = pos + 2
    BY <1>1, <1>5
  <2> QED BY <1>2, <1>3, <2>1 DEF WellWritten
<1> DEFINE Ends(i) == (u[i].end \/ i = Len(u)) /\ \A j \in 1..(i - 1) : ~u[j].end
<1>7. \E i \in DOMAIN u : Ends(i)
  <2>1. 1 \in 1..(l - pos) /\ u[1] = f[pos + 1] /\ \A j \in 1..(1 - 1) : ~u[j].end
    BY <1>1, <1>5
  <2>2. CASE u[1].end \/ l - pos = 1
    BY <1>5, <2>1, <2>2
  <2>3. CASE ~u[1].end /\ l - pos # 1
    <3>1. 2 \in 1..(l - pos) /\ u[2] = f[pos + 2] /\ pos + 1 < l
      BY <1>1, <1>5, <2>3
    <3>2. u[2].end
      BY <1>6, <2>1, <2>3, <3>1
    <3>3. \A j \in 1..(2 - 1) : ~u[j].end
      BY <2>3
    <3> QED BY <1>5, <3>1, <3>2, <3>3
  <2> QED BY <2>2, <2>3
<1>8. PICK n \in DOMAIN u : n = NextEnd /\ Ends(n)
  <2>1. NextEnd = CHOOSE i \in DOMAIN u : Ends(i)
    BY <1>4 DEF NextEnd
  <2> HIDE DEF Ends
  <2> QED BY <1>7, <2>1
<1>9. n \in {1, 2} /\ pos + n <= l
  <2>1. n \in 1..(l - pos)
    BY <1>5, <1>8
  <2>2. CASE n >= 3
    <3>1. 1 \in 1..(n - 1) /\ 2 \in 1..(n - 1) /\ 1 \in 1..(l - pos) /\ 2 \in 1..(l - pos) /\ pos + 1 < l
      BY <1>1, <1>5, <2>1, <2>2
    <3>2. ~u[1].end /\ ~u[2].end /\ u[1] = f[pos + 1] /\ u[2] = f[pos + 2]
      BY <1>5, <1>8, <3>1
    <3> QED BY <1>6, <3>1, <3>2
  <2> QED BY <1>1, <1>5, <2>1, <2>2
<1>10. n = 2 => ~f[pos + 1].end /\ f[pos + 2].end /\ f[pos + 2].line = f[pos + 1].line
  <2> SUFFICES ASSUME n = 2 PROVE ~f[pos + 1].end /\ f[pos + 2].end /\ f[pos + 2].line = f[pos + 1].line
    OBVIOUS
  <2>1. 1 \in 1..(n - 1) /\ 1 \in 1..(l - pos) /\ pos + 1 < l
    BY <1>1, <1>5, <1>9
  <2>2. ~u[1].end /\ u[1] = f[pos + 1]
    BY <1>5, <1>8, <2>1
  <2> QED BY <1>6, <2>1, <2>2
<1>11. u[1] = f[pos + 1] /\ f[pos + 1] \in Halves
  <2>1. 1 \in 1..(l - pos) /\ pos + 1 \in 1..Len(f)
    BY <1>1, <1>3, <1>5
  <2> QED BY <1>5, <2>1, Elements
<1>12. /\ pos' = pos + n
       /\ IF n = 2
          THEN /\ delivered' = Append(delivered, u[1])
               /\ values' = Append(values, u[1])
          ELSE UNCHANGED <<delivered, values>>
       /\ unseen' = [lines |-> IF n = 2 THEN unseen.lines ELSE unseen.lines \union {u[1].line},
                     misled |-> unseen.misled \/ (handle = path /\ cutSince)]
       /\ UNCHANGED <<diskVars, checks, tailPc, gen, handle, seekTo, seen, tailReports>>
  BY <1>4, <1>8, Zenon DEF ReadLine
<1>13. unseen' \in [lines : SUBSET Nat, misled : BOOLEAN]
       /\ unseen'.lines = (IF n = 2 THEN unseen.lines ELSE unseen.lines \union {f[pos + 1].line})
       /\ unseen'.misled = (unseen.misled \/ (handle = path /\ cutSince))
  <2>1. f[pos + 1].line \in Nat /\ cutSince \in BOOLEAN
    BY <1>11, HalvesAre DEF FilesInOrderWritten
  <2>2. unseen' = [lines |-> IF n = 2 THEN unseen.lines ELSE unseen.lines \union {f[pos + 1].line},
                   misled |-> unseen.misled \/ (handle = path /\ cutSince)]
    BY <1>11, <1>12, Zenon
  <2>3. (IF n = 2 THEN unseen.lines ELSE unseen.lines \union {f[pos + 1].line}) \in SUBSET Nat
        /\ (unseen.misled \/ (handle = path /\ cutSince)) \in BOOLEAN
    BY <1>1, <2>1
  <2> QED BY <2>2, <2>3, Zenon
<1>14. ReadPart(f, n)
  <2>1. n = 1 => n # 2
    OBVIOUS
  <2>2. /\ n = 2 => delivered' = Append(delivered, f[pos + 1]) /\ values' = Append(values, f[pos + 1])
                    /\ unseen'.lines = unseen.lines
        /\ n = 1 => UNCHANGED <<delivered, values>> /\ unseen'.lines = unseen.lines \union {f[pos + 1].line}
    BY <1>11, <1>12, <1>13, <2>1, Zenon
  <2> HIDE DEF diskVars
  <2> QED BY <1>1, <1>2, <1>3, <1>9, <1>10, <1>12, <1>13, <2>2, Zenon DEF ReadPart
<1> QED BY <1>9, <1>14

LEMMA CheckIsDone ==
    ASSUME CannotOpen \/ EndOfFile
    PROVE  /\ tailPc' = "idle" /\ UNCHANGED <<diskVars, checks, seekTo, seen, values, delivered, handle, pos, unseen>>
           /\ tailReports' = Append(tailReports, [made |-> Aggregate(values), upto |-> Len(delivered)])
           /\ tailPc # "idle"
           /\ \/ path = 0 /\ gen' = FALSE
              \/ tailPc = "read" /\ gen' = TRUE
BY Zenon DEF CannotOpen, EndOfFile, CheckDone

LEMMA FilesInOrderWrittenKept == FilesInOrderWritten /\ ReaderType /\ [TailNext]_tailVars => FilesInOrderWritten'
<1> SUFFICES ASSUME FilesInOrderWritten, ReaderType, [TailNext]_tailVars PROVE FilesInOrderWritten'
  OBVIOUS
<1>1. CASE LogStep
  BY <1>1, LogKeeps DEF LogKept
<1>2. CASE Stat
  <2>1. UNCHANGED <<files, path, written>> /\ cutSince' = FALSE
    BY <1>2 DEF Stat
  <2> QED BY ZenonT(30), <2>1 DEF FilesInOrderWritten
<1>3. CASE UNCHANGED diskVars
  BY <1>3 DEF FilesInOrderWritten, diskVars
<1>4. ASSUME ~LogStep, ~Stat PROVE UNCHANGED diskVars
  BY <1>4, Zenon DEF TailNext, ReaderStep, StartTailCheck, CannotOpen, Open, ReadLine, EndOfFile, CheckDone, tailVars
<1> QED BY <1>1, <1>2, <1>3, <1>4

LEMMA ReaderTypeKept == FilesInOrderWritten /\ ReaderType /\ [TailNext]_tailVars => ReaderType'
<1> SUFFICES ASSUME FilesInOrderWritten, ReaderType, [TailNext]_tailVars PROVE ReaderType'
  OBVIOUS
<1>1. Len(files) \in Nat /\ Len(files) >= 1 /\ path \in {0, Len(files)} /\ written \in Nat
      /\ (path # 0 => files[path] \in Seq(Halves) /\ Len(files[path]) \in Nat)
  <2>1. files \in Seq(Seq(Halves)) /\ Len(files) >= 1 /\ path \in {0, Len(files)} /\ written \in Nat
    BY DEF FilesInOrderWritten
  <2>2. path # 0 => files[path] \in Seq(Halves)
    BY <2>1
  <2> QED BY <2>1, <2>2
<1>2. CASE LogStep
  <2>1. UNCHANGED readerVars /\ written <= written' /\ Len(files) <= Len(files') /\ written' \in Nat /\ Len(files') \in Nat
    BY <1>2, LogKeeps DEF LogKept, FilesInOrderWritten
  <2>2. handle \in 0..Len(files') /\ seen.inode \in 0..Len(files')
    BY <1>1, <2>1 DEF ReaderType
  <2>3. \A i \in DOMAIN delivered : delivered[i].line <= written'
    <3> SUFFICES ASSUME NEW i \in DOMAIN delivered PROVE delivered[i].line <= written'
      OBVIOUS
    <3>1. delivered[i] \in Halves /\ delivered[i].line <= written
      BY DEF ReaderType
    <3> QED BY <1>1, <2>1, <3>1, HalvesAre
  <2> HIDE DEF Halves
  <2> QED BY <2>1, <2>2, <2>3 DEF ReaderType, readerVars
<1>3. CASE StartTailCheck
  <2> HIDE DEF Halves
  <2> QED BY <1>3 DEF StartTailCheck, ReaderType, diskVars
<1>4. CASE CannotOpen \/ EndOfFile
  <2> HIDE DEF Halves
  <2> QED BY <1>4, CheckIsDone DEF ReaderType, diskVars
<1>5. CASE Stat
  <2>1. /\ tailPc' = "open" /\ path # 0 /\ seen' = [inode |-> path, size |-> Len(LogContent), crc |-> Crc]
        /\ seekTo' = IF gen /\ (Replaced \/ Truncated \/ BeginningModified) THEN "start" ELSE seekTo
        /\ unseen' = [unseen EXCEPT !.misled = @ \/ (gen /\ LooksTheSame)]
        /\ UNCHANGED <<files, path, written, upheavals, checks, gen, handle, pos, values, delivered, tailReports>>
    BY <1>5 DEF Stat
  <2>2. seen'.inode = path /\ seen'.size = Len(files[path])
    BY <2>1 DEF LogContent
  <2>3. unseen' \in [lines : SUBSET Nat, misled : BOOLEAN]
    <3>1. (unseen.misled \/ (gen /\ LooksTheSame)) \in BOOLEAN
      OBVIOUS
    <3>2. unseen \in [lines : SUBSET Nat, misled : BOOLEAN]
      BY DEF ReaderType
    <3> QED BY <2>1, <3>1, <3>2
  <2>4. seekTo' \in {"start", "pos", "end"} /\ (seekTo' = "end" <=> ~gen)
    BY <1>5, <2>1 DEF ReaderType, Stat
  <2> HIDE DEF Halves
  <2> QED BY SMTT(30), <1>1, <2>1, <2>2, <2>3, <2>4 DEF ReaderType
<1>6. CASE Open
  <2>1. /\ tailPc = "open" /\ path # 0 /\ tailPc' = "read" /\ gen' = TRUE /\ handle' = path
        /\ pos' = CASE seekTo = "end" -> Len(LogContent) [] seekTo = "start" -> 0 [] seekTo = "pos" -> pos
        /\ unseen' = [lines |-> IF seekTo = "end" THEN unseen.lines \union LinesBefore(LogContent, Len(LogContent))
                                ELSE unseen.lines,
                      misled |-> unseen.misled \/ path # seen.inode \/ cutSince]
        /\ UNCHANGED <<diskVars, checks, seekTo, seen, values, delivered, tailReports>>
    BY <1>6, Zenon DEF Open
  <2>2. pos' \in Nat
    <3>1. seekTo \in {"start", "pos", "end"} /\ pos \in Nat
      BY <2>1 DEF ReaderType
    <3>2. CASE seekTo = "end"
      <4>1. pos' = Len(LogContent)
        BY <2>1, <3>2, Zenon
      <4> QED BY <1>1, <2>1, <4>1 DEF LogContent
    <3>3. CASE seekTo = "start"
      <4>1. pos' = 0
        BY <2>1, <3>3, Zenon
      <4> QED BY <4>1
    <3>4. CASE seekTo = "pos"
      <4>1. pos' = pos
        BY <2>1, <3>4, Zenon
      <4> QED BY <3>1, <4>1
    <3> QED BY <3>1, <3>2, <3>3, <3>4
  <2>3. unseen' \in [lines : SUBSET Nat, misled : BOOLEAN]
    <3>1. unseen.lines \in SUBSET Nat /\ (unseen.misled \/ path # seen.inode \/ cutSince) \in BOOLEAN
      BY DEF ReaderType
    <3>2. LinesBefore(LogContent, Len(LogContent)) \subseteq Nat
      <4>1. \A i \in DOMAIN LogContent : LogContent[i].line \in Nat
        BY <1>1, <2>1, HalvesAre DEF LogContent
      <4> QED BY <4>1 DEF LinesBefore
    <3>3. (IF seekTo = "end" THEN unseen.lines \union LinesBefore(LogContent, Len(LogContent)) ELSE unseen.lines) \in SUBSET Nat
      BY <3>1, <3>2
    <3> QED BY <2>1, <3>1, <3>3, Zenon
  <2>4. handle' \in 0..Len(files) /\ handle' # 0
    BY <1>1, <2>1
  <2>5. UNCHANGED <<files, path, written, seen, delivered>>
    BY <2>1 DEF diskVars
  <2>6. /\ seen.inode \in 0..Len(files) /\ seen.size \in Nat
        /\ delivered \in Seq(Halves) /\ \A i \in DOMAIN delivered : delivered[i].line <= written
    BY DEF ReaderType
  <2> HIDE DEF Halves
  <2> QED BY <2>1, <2>2, <2>3, <2>4, <2>5, <2>6 DEF ReaderType
<1>7. CASE ReadLine
  <2>1. PICK f \in Seq(Halves), n \in {1, 2} : ReadPart(f, n)
    BY <1>7, ReadLineIs
  <2>2. delivered' \in Seq(Halves) /\ \A i \in DOMAIN delivered' : delivered'[i].line <= written
    <3>1. delivered \in Seq(Halves) /\ \A i \in DOMAIN delivered : delivered[i].line <= written
      BY DEF ReaderType
    <3>2. CASE n = 1
      BY <2>1, <3>1, <3>2 DEF ReadPart
    <3>3. CASE n = 2
      <4>1. /\ delivered' = Append(delivered, f[pos + 1]) /\ pos + 2 <= Len(f) /\ pos \in Nat /\ Len(f) \in Nat
            /\ f = files[handle] /\ handle \in DOMAIN files
        BY <2>1, <3>3 DEF ReadPart, ReaderType
      <4>2. pos + 1 \in 1..Len(f) /\ DOMAIN f = 1..Len(f)
        BY <4>1
      <4>3. PICK d \in Halves : d = f[pos + 1] /\ d.line <= written
        BY <4>1, <4>2 DEF FilesInOrderWritten
      <4>4. /\ Append(delivered, d) \in Seq(Halves) /\ DOMAIN Append(delivered, d) = 1..(Len(delivered) + 1)
            /\ \A i \in 1..Len(delivered) : Append(delivered, d)[i] = delivered[i]
            /\ Append(delivered, d)[Len(delivered) + 1] = d
        BY <3>1, OneMore
      <4>5. DOMAIN delivered = 1..Len(delivered) /\ Len(delivered) \in Nat
        BY <3>1
      <4>6. \A i \in 1..(Len(delivered) + 1) : i \in 1..Len(delivered) \/ i = Len(delivered) + 1
        BY <4>5
      <4> HIDE DEF Halves
      <4> QED BY <3>1, <4>1, <4>3, <4>4, <4>5, <4>6
    <3> QED BY <3>2, <3>3
  <2>3. /\ tailPc' = "read" /\ gen' = gen /\ handle' = handle /\ seen' = seen /\ pos' = pos + n
        /\ UNCHANGED <<files, path, written>> /\ unseen' \in [lines : SUBSET Nat, misled : BOOLEAN] /\ tailPc = "read"
    BY <2>1 DEF ReadPart, diskVars
  <2>4. pos' \in Nat
    BY <2>3 DEF ReaderType
  <2> HIDE DEF Halves
  <2> QED BY <2>2, <2>3, <2>4 DEF ReaderType
<1>8. CASE UNCHANGED tailVars
  <2> HIDE DEF Halves
  <2> QED BY <1>8 DEF ReaderType, tailVars, diskVars, readerVars
<1> QED BY <1>2, <1>3, <1>4, <1>5, <1>6, <1>7, <1>8 DEF TailNext, ReaderStep

LEMMA CrcIs ==
    ASSUME NEW f, NEW g, CrcSize <= Len(f), CrcSize <= Len(g), Len(f) \in Nat,
           \A i \in 1..Len(f) : g[i] = f[i]
    PROVE  [i \in 1..CrcSize |-> <<g[i].look, g[i].end>>] = [i \in 1..CrcSize |-> <<f[i].look, f[i].end>>]
<1>1. \A i \in 1..CrcSize : g[i] = f[i]
  BY TailAssumption
<1> QED BY <1>1

LEMMA SeenStaysKept == FilesInOrderWritten /\ ReaderType /\ SeenStays /\ [TailNext]_tailVars => SeenStays'
<1> SUFFICES ASSUME FilesInOrderWritten, ReaderType, SeenStays, [TailNext]_tailVars,
                    path' # 0, seen'.inode = path', ~cutSince'
             PROVE  /\ seen'.size <= Len(LogContent')
                    /\ seen'.crc # <<>> => Len(LogContent') >= CrcSize /\ seen'.crc = Crc'
  BY Zenon DEF SeenStays
<1>1. CASE LogStep
  <2>1. LogKept
    BY <1>1, LogKeeps
  <2>2. seen' = seen
    BY <2>1 DEF LogKept, readerVars
  <2>3. path' = path /\ path # 0
    <3>1. seen.inode \in 0..Len(files) /\ Len(files) \in Nat
      BY DEF ReaderType, FilesInOrderWritten
    <3>2. path' # path => path' > Len(files)
      BY <2>1 DEF LogKept
    <3> QED BY <2>2, <3>1, <3>2
  <2>4. ~cutSince /\ Len(files[path]) <= Len(files'[path]) /\ \A i \in 1..Len(files[path]) : files'[path][i] = files[path][i]
    BY <2>1, <2>3 DEF LogKept
  <2>5. seen.size <= Len(files[path]) /\ (seen.crc # <<>> => Len(files[path]) >= CrcSize /\ seen.crc = Crc)
    BY <2>2, <2>3, <2>4 DEF SeenStays, LogContent
  <2>6. PICK f, g : f = files[path] /\ g = files'[path]
    OBVIOUS
  <2>7. LogContent' = g /\ LogContent = f
    BY <2>3, <2>6 DEF LogContent
  <2>8. Len(f) \in Nat /\ Len(g) \in Nat /\ seen.size \in Nat
    <3>1. files \in Seq(Seq(Halves)) /\ files' \in Seq(Seq(Halves)) /\ path \in DOMAIN files /\ path \in DOMAIN files'
      BY <2>1, <2>3 DEF FilesInOrderWritten, LogKept
    <3>2. f \in Seq(Halves) /\ g \in Seq(Halves)
      BY <2>6, <3>1
    <3> QED BY <3>2 DEF ReaderType
  <2>9. seen.size <= Len(g)
    BY <2>4, <2>5, <2>6, <2>8
  <2>10. ASSUME seen.crc # <<>> PROVE Len(g) >= CrcSize /\ seen.crc = Crc'
    <3>1. CrcSize <= Len(f) /\ Len(f) <= Len(g) /\ seen.crc = Crc /\ CrcSize <= Len(g)
      BY <2>4, <2>5, <2>6, <2>8, <2>10, TailAssumption
    <3>2. Len(f) >= CrcSize /\ Len(g) >= CrcSize
      BY <2>8, <3>1, TailAssumption
    <3>3. Crc = [i \in 1..CrcSize |-> <<f[i].look, f[i].end>>]
      BY <2>7, <3>2 DEF Crc
    <3>4. Crc' = [i \in 1..CrcSize |-> <<g[i].look, g[i].end>>]
      BY <2>7, <3>2 DEF Crc
    <3>5. \A i \in 1..Len(f) : g[i] = f[i]
      BY <2>4, <2>6
    <3>6. [i \in 1..CrcSize |-> <<g[i].look, g[i].end>>] = [i \in 1..CrcSize |-> <<f[i].look, f[i].end>>]
      BY <2>8, <3>1, <3>5, CrcIs
    <3> QED BY <3>1, <3>2, <3>3, <3>4, <3>6
  <2> QED BY <2>2, <2>7, <2>9, <2>10
<1>2. CASE Stat
  <2>1. seen' = [inode |-> path, size |-> Len(LogContent), crc |-> Crc] /\ UNCHANGED <<files, path>> /\ path # 0
    BY <1>2 DEF Stat
  <2>2. LogContent' = LogContent /\ Crc' = Crc
    BY <2>1 DEF LogContent, Crc
  <2>3. Crc # <<>> => Len(LogContent) >= CrcSize
    BY DEF Crc
  <2>4. Len(LogContent) \in Nat
    BY <2>1 DEF LogContent, FilesInOrderWritten
  <2>5. seen'.size = Len(LogContent) /\ seen'.crc = Crc
    BY <2>1
  <2> QED BY <2>2, <2>3, <2>4, <2>5
<1>3. CASE UNCHANGED <<path, files, cutSince, seen>>
  <2>1. LogContent' = LogContent /\ Crc' = Crc
    BY <1>3 DEF LogContent, Crc
  <2> QED BY <1>3, <2>1 DEF SeenStays
<1>4. ASSUME ~LogStep, ~Stat PROVE UNCHANGED <<path, files, cutSince, seen>>
  BY <1>4, Zenon DEF TailNext, ReaderStep, StartTailCheck, CannotOpen, Open, ReadLine, EndOfFile, CheckDone, tailVars, diskVars, readerVars
<1> QED BY <1>1, <1>2, <1>3, <1>4

LEMMA AfterLater ==
    ASSUME NEW f \in Seq(Halves), NEW d, NEW p \in Nat, NEW q \in Nat, p <= q, After(f, d, p)
    PROVE  After(f, d, q)
<1>1. \A k \in DOMAIN f : k > q => k > p
  OBVIOUS
<1> QED BY <1>1, Zenon DEF After

LEMMA LogsAre ==
    ASSUME FilesInOrderWritten
    PROVE  /\ Len(files) \in Nat /\ DOMAIN files = 1..Len(files) /\ (path # 0 => path = Len(files) /\ path \in DOMAIN files)
           /\ \A g \in DOMAIN files : files[g] \in Seq(Halves) /\ Len(files[g]) \in Nat /\ DOMAIN files[g] = 1..Len(files[g])
<1>1. files \in Seq(Seq(Halves)) /\ path \in {0, Len(files)} /\ Len(files) >= 1
  BY DEF FilesInOrderWritten
<1>2. \A g \in DOMAIN files : files[g] \in Seq(Halves)
  BY <1>1
<1>3. \A f \in Seq(Halves) : Len(f) \in Nat /\ DOMAIN f = 1..Len(f)
  OBVIOUS
<1> HIDE DEF Halves
<1> QED BY <1>1, <1>2, <1>3

LEMMA PlaceKeptByLog ==
    ASSUME FilesInOrderWritten, ReaderType, PlaceKept, LogKept
    PROVE  PlaceKept'
<1>1. /\ UNCHANGED <<tailPc, gen, handle, pos, seekTo, seen, delivered, unseen>>
      /\ \A g \in DOMAIN files, p \in Nat : ComesAfter(g, p) => ComesAfter(g, p)'
      /\ \A g \in DOMAIN files' \ DOMAIN files : ComesAfter(g, 0)'
      /\ path' # 0 /\ path' # path => path' > Len(files)
  BY Zenon DEF LogKept, readerVars
<1>2. path' = path /\ path # 0 =>
        /\ cutSince => cutSince'
        /\ cutSince' /\ ~cutSince => \A p \in Nat : \A g \in {path} : ComesAfter(g, p)'
        /\ ~cutSince' => /\ Len(files[path]) <= Len(files'[path])
                         /\ \A i \in 1..Len(files[path]) : files'[path][i] = files[path][i]
  BY Zenon DEF LogKept
<1> SUFFICES ASSUME ~unseen.misled
             PROVE  InOrder(delivered) /\ NextFileAfter' /\ PlaceInFile' /\ PlaceToOpen'
  BY <1>1, Zenon DEF PlaceKept
<1>3. InOrder(delivered) /\ NextFileAfter /\ PlaceInFile /\ PlaceToOpen
  BY DEF PlaceKept
<1>4. /\ Len(files) \in Nat /\ DOMAIN files = 1..Len(files) /\ (path # 0 => path \in DOMAIN files)
      /\ (path' # 0 => path' \in DOMAIN files') /\ DOMAIN files' = 1..Len(files') /\ Len(files') \in Nat
  <2>1. FilesInOrderWritten'
    BY DEF LogKept
  <2>2. files' \in Seq(Seq(Halves)) /\ Len(files') >= 1 /\ path' \in {0, Len(files')}
    BY <2>1 DEF FilesInOrderWritten
  <2>3. Len(files') \in Nat /\ DOMAIN files' = 1..Len(files')
    BY <2>2
  <2> HIDE DEF Halves
  <2> QED BY <2>2, <2>3, LogsAre
<1>5. handle \in 0..Len(files) /\ seen.inode \in 0..Len(files) /\ pos \in Nat /\ (gen => handle # 0)
  BY DEF ReaderType
<1>6. path' # 0 /\ path' # path => ComesAfter(path, 0)'
  <2> SUFFICES ASSUME path' # 0, path' # path PROVE ComesAfter(path, 0)'
    OBVIOUS
  <2>1. path' \in DOMAIN files' \ DOMAIN files
    BY <1>1, <1>4
  <2>2. PICK g \in DOMAIN files' \ DOMAIN files : g = path'
    BY <2>1
  <2>3. ComesAfter(g, 0)'
    BY <1>1
  <2> QED BY <2>2, <2>3, Zenon DEF ComesAfter
<1>7. ASSUME path' = path, path # 0, NEW p \in Nat, ComesAfter(path, p) PROVE ComesAfter(path, p)'
  <2>1. PICK g \in DOMAIN files : g = path
    BY <1>4, <1>7
  <2>2. ComesAfter(g, p)'
    BY <1>1, <1>7, <2>1
  <2> QED BY <1>7, <2>1, <2>2, Zenon DEF ComesAfter
<1>8. ASSUME path' = path, path # 0, cutSince', ~cutSince, NEW p \in Nat PROVE ComesAfter(path, p)'
  <2>1. PICK g \in {path} : TRUE
    OBVIOUS
  <2>2. ComesAfter(g, p)'
    BY <1>2, <1>8
  <2> QED BY <1>8, <2>1, <2>2, Zenon DEF ComesAfter
<1>9. ASSUME path' = path, path # 0, ~cutSince', HasRead(path, pos) PROVE HasRead(path, pos)'
  <2>1. PICK g \in DOMAIN files, p \in Nat : g = path /\ p = pos
    BY <1>4, <1>5, <1>9
  <2>2. HasRead(g, p)'
    BY <1>2, <1>9, <2>1, HasReadKept
  <2> QED BY <1>1, <1>9, <2>1, <2>2, Zenon DEF HasRead
<1>10. NextFileAfter'
  <2>1. ~gen /\ path' # 0 => ComesAfter(path, 0)'
    BY <1>3, <1>6, <1>7, <1>4 DEF NextFileAfter
  <2>2. ASSUME gen, NEW h \in DOMAIN files', h > handle PROVE ComesAfter(h, 0)'
    <3>1. h \in DOMAIN files => ComesAfter(h, 0)
      BY <1>3, <2>2 DEF NextFileAfter
    <3> QED BY <1>1, <3>1, <2>2
  <2> HIDE DEF ComesAfter
  <2> QED BY <1>1, <2>1, <2>2 DEF NextFileAfter
<1>11. PlaceInFile'
  <2> SUFFICES ASSUME gen, tailPc # "open"
               PROVE  /\ seen.inode = handle
                      /\ ComesAfter(handle, pos)'
                      /\ handle = path' /\ cutSince' => ComesAfter(path, 0)'
                      /\ handle = path' /\ ~cutSince' => HasRead(path, pos)'
    BY <1>1, Zenon DEF PlaceInFile
  <2>1. /\ seen.inode = handle /\ ComesAfter(handle, pos) /\ handle # 0 /\ handle \in DOMAIN files
        /\ handle = path /\ cutSince => ComesAfter(path, 0)
        /\ handle = path /\ ~cutSince => HasRead(path, pos)
    BY <1>3, <1>4, <1>5 DEF PlaceInFile
  <2>2. PICK g \in DOMAIN files, p \in Nat : g = handle /\ p = pos
    BY <1>5, <2>1
  <2>3. ComesAfter(g, p)'
    BY <1>1, <2>1, <2>2
  <2>4. ComesAfter(handle, pos)'
    BY <1>1, <2>2, <2>3, Zenon DEF ComesAfter
  <2>5. ASSUME handle = path' PROVE path' = path /\ path # 0
    BY <1>1, <1>4, <1>5, <2>1, <2>5
  <2>6. ASSUME handle = path', cutSince' PROVE ComesAfter(path, 0)'
    <3>1. path' = path /\ path # 0
      BY <2>5, <2>6
    <3>2. CASE cutSince
      BY <1>7, <2>1, <2>6, <3>1, <3>2
    <3>3. CASE ~cutSince
      BY <1>8, <2>6, <3>1, <3>3
    <3> QED BY <3>2, <3>3
  <2>7. ASSUME handle = path', ~cutSince' PROVE HasRead(path, pos)'
    <3>1. path' = path /\ path # 0
      BY <2>5, <2>7
    <3>2. ~cutSince
      BY <1>2, <2>7, <3>1
    <3> QED BY <1>9, <2>1, <2>7, <3>1, <3>2
  <2> QED BY <2>1, <2>4, <2>6, <2>7, Zenon
<1>12. PlaceToOpen'
  <2> SUFFICES ASSUME gen, tailPc = "open", path' # 0, path' = seen.inode, ~cutSince'
               PROVE  /\ seekTo = "start" => ComesAfter(path, 0)'
                      /\ seekTo = "pos" => ComesAfter(path, pos)' /\ HasRead(path, pos)'
    BY <1>1, Zenon DEF PlaceToOpen
  <2>1. path' = path /\ path # 0
    BY <1>1, <1>4, <1>5
  <2>2. ~cutSince
    BY <1>2, <2>1
  <2>3. /\ seekTo = "start" => ComesAfter(path, 0)
        /\ seekTo = "pos" => ComesAfter(path, pos) /\ HasRead(path, pos)
    BY <1>3, <2>1, <2>2 DEF PlaceToOpen
  <2>4. ASSUME seekTo = "start" PROVE ComesAfter(path, 0)'
    BY <1>7, <2>1, <2>3, <2>4
  <2>5. ASSUME seekTo = "pos" PROVE ComesAfter(path, pos)' /\ HasRead(path, pos)'
    <3>1. PICK p \in Nat : p = pos
      BY <1>5
    <3>2. ComesAfter(path, p)'
      BY <1>7, <2>1, <2>3, <2>5, <3>1
    <3>3. ComesAfter(path, pos)'
      BY <1>1, <3>1, <3>2, Zenon DEF ComesAfter
    <3> QED BY <1>9, <2>1, <2>3, <2>5, <3>3
  <2> QED BY <2>4, <2>5, Zenon
<1> QED BY <1>3, <1>10, <1>11, <1>12

LEMMA PlaceKeptByStat ==
    ASSUME FilesInOrderWritten, ReaderType, SeenStays, PlaceKept, Stat
    PROVE  PlaceKept'
<1>1. /\ tailPc = "stat" /\ path # 0 /\ tailPc' = "open" /\ cutSince' = FALSE
      /\ seekTo' = IF gen /\ (Replaced \/ Truncated \/ BeginningModified) THEN "start" ELSE seekTo
      /\ unseen' = [unseen EXCEPT !.misled = @ \/ (gen /\ LooksTheSame)]
      /\ seen' = [inode |-> path, size |-> Len(LogContent), crc |-> Crc]
      /\ UNCHANGED <<files, path, gen, handle, pos, delivered>>
  BY DEF Stat
<1>2. unseen'.lines = unseen.lines /\ unseen'.misled = (unseen.misled \/ (gen /\ LooksTheSame))
  <2>1. unseen \in [lines : SUBSET Nat, misled : BOOLEAN]
    BY DEF ReaderType
  <2> QED BY <1>1, <2>1
<1> SUFFICES ASSUME ~unseen.misled, ~(gen /\ LooksTheSame)
             PROVE  InOrder(delivered) /\ NextFileAfter' /\ PlaceInFile' /\ PlaceToOpen'
  BY <1>1, <1>2, Zenon DEF PlaceKept
<1>3. InOrder(delivered) /\ NextFileAfter /\ PlaceInFile
  BY DEF PlaceKept
<1>4. NextFileAfter'
  BY <1>1, <1>3, Zenon DEF NextFileAfter, ComesAfter
<1>5. PlaceInFile'
  BY <1>1 DEF PlaceInFile
<1>6. PlaceToOpen'
  <2> SUFFICES ASSUME gen
               PROVE  /\ seekTo' = "start" => ComesAfter(path, 0)
                      /\ seekTo' = "pos" => ComesAfter(path, pos) /\ HasRead(path, pos)
    BY <1>1, <1>2, Zenon DEF PlaceToOpen, ComesAfter, HasRead
  <2>1. /\ seen.inode = handle /\ ComesAfter(handle, pos)
        /\ handle = path /\ cutSince => ComesAfter(path, 0)
        /\ handle = path /\ ~cutSince => HasRead(path, pos)
        /\ \A h \in DOMAIN files : h > handle => ComesAfter(h, 0)
    <3>1. tailPc # "open"
      BY <1>1
    <3> QED BY <1>3, <3>1, Zenon DEF PlaceInFile, NextFileAfter
  <2>2. Len(LogContent) \in Nat /\ path = Len(files) /\ path \in DOMAIN files /\ handle \in 0..Len(files)
        /\ seen.size \in Nat
    BY <1>1, LogsAre DEF LogContent, ReaderType
  <2>3. path # handle => ComesAfter(path, 0)
    BY <2>1, <2>2
  <2>4. path = handle /\ ~cutSince => ~Replaced /\ ~Truncated /\ ~BeginningModified
    BY <1>1, <2>1, <2>2 DEF SeenStays, Replaced, Truncated, Shrunk, BeginningModified
  <2>5. ~Replaced /\ ~Truncated /\ ~BeginningModified => path = handle /\ ~cutSince
    BY <2>1, <2>2 DEF LooksTheSame, Replaced, Truncated, Shrunk
  <2>6. CASE Replaced \/ Truncated \/ BeginningModified
    <3>1. ComesAfter(path, 0)
      BY <2>1, <2>3, <2>4, <2>6
    <3>2. seekTo' = "start"
      BY <1>1, <2>6
    <3> QED BY <3>1, <3>2
  <2>7. CASE ~(Replaced \/ Truncated \/ BeginningModified)
    <3>1. ComesAfter(path, pos) /\ HasRead(path, pos)
      BY <2>1, <2>5, <2>7
    <3>2. seekTo' = "pos"
      BY <1>1, <2>7 DEF ReaderType
    <3> QED BY <3>1, <3>2
  <2> QED BY <2>6, <2>7
<1> QED BY <1>3, <1>4, <1>5, <1>6

LEMMA PlaceKeptByOpen ==
    ASSUME FilesInOrderWritten, ReaderType, PlaceKept, Open
    PROVE  PlaceKept'
<1>1. /\ tailPc = "open" /\ path # 0 /\ tailPc' = "read" /\ gen' = TRUE /\ handle' = path
      /\ pos' = CASE seekTo = "end" -> Len(LogContent) [] seekTo = "start" -> 0 [] seekTo = "pos" -> pos
      /\ unseen' = [lines |-> IF seekTo = "end" THEN unseen.lines \union LinesBefore(LogContent, Len(LogContent))
                              ELSE unseen.lines,
                    misled |-> unseen.misled \/ path # seen.inode \/ cutSince]
      /\ UNCHANGED <<files, path, cutSince, seekTo, seen, delivered>>
  BY Zenon DEF Open, diskVars
<1> SUFFICES ASSUME ~unseen.misled, path = seen.inode, ~cutSince
             PROVE  InOrder(delivered) /\ NextFileAfter' /\ PlaceInFile' /\ PlaceToOpen'
  <2>1. unseen'.misled = (unseen.misled \/ path # seen.inode \/ cutSince)
    BY <1>1
  <2> QED BY <1>1, <2>1, Zenon DEF PlaceKept
<1>2. PICK f \in Seq(Halves), p \in Nat : f = files[path] /\ p = pos /\ Len(f) \in Nat /\ DOMAIN f = 1..Len(f)
  BY <1>1, LogsAre DEF ReaderType
<1>3. InOrder(delivered) /\ NextFileAfter /\ PlaceToOpen
  BY DEF PlaceKept
<1>4. NextFileAfter'
  <2>1. \A h \in DOMAIN files : ~(h > path)
    BY <1>1, LogsAre
  <2> QED BY <1>1, <2>1, Zenon DEF NextFileAfter
<1>5. After(f, delivered, pos') /\ WasRead(f, delivered, unseen'.lines, pos')
  <2>1. CASE seekTo = "end"
    <3>1. ~gen
      BY <1>1, <2>1 DEF ReaderType
    <3>2. After(f, delivered, 0)
      BY <1>1, <1>2, <1>3, <3>1 DEF NextFileAfter, ComesAfter
    <3>3. After(f, delivered, Len(f))
      BY <1>2, <3>2, AfterLater
    <3>4. pos' = Len(f) /\ unseen'.lines = unseen.lines \union LinesBefore(f, Len(f))
      BY <1>1, <1>2, <2>1, Zenon DEF LogContent
    <3>5. Len(f) <= Len(f)
      BY <1>2
    <3> HIDE DEF LinesBefore, LinesOf, Halves
    <3> QED BY <3>3, <3>4, <3>5 DEF WasRead
  <2>2. CASE seekTo = "start"
    <3>1. gen
      BY <1>1, <2>2 DEF ReaderType
    <3>2. After(f, delivered, 0)
      BY <1>1, <1>2, <1>3, <2>2, <3>1 DEF PlaceToOpen, ComesAfter
    <3>3. pos' = 0
      BY <1>1, <2>2, Zenon
    <3>4. LinesBefore(f, 0) = {} /\ 0 <= Len(f)
      BY <1>2 DEF LinesBefore
    <3> HIDE DEF LinesOf, Halves
    <3> QED BY <3>2, <3>3, <3>4 DEF WasRead
  <2>3. CASE seekTo = "pos"
    <3>1. gen
      BY <1>1, <2>3 DEF ReaderType
    <3>2. After(f, delivered, pos) /\ WasRead(f, delivered, unseen.lines, pos)
      BY <1>1, <1>2, <1>3, <2>3, <3>1 DEF PlaceToOpen, ComesAfter, HasRead
    <3>3. pos' = pos
      BY <1>1, <2>3, Zenon
    <3>4. unseen'.lines = unseen.lines
      BY <1>1, <2>3
    <3> QED BY <3>2, <3>3, <3>4
  <2> QED BY <1>1, <2>1, <2>2, <2>3 DEF ReaderType
<1>6. PlaceInFile'
  BY <1>1, <1>2, <1>5, Zenon DEF PlaceInFile, ComesAfter, HasRead
<1>7. PlaceToOpen'
  BY <1>1 DEF PlaceToOpen
<1> QED BY <1>3, <1>4, <1>6, <1>7

\* A line that was delivered whole: what has its place behind it is of later lines.
LEMMA PlaceKeptByReadLine ==
    ASSUME FilesInOrderWritten, ReaderType, PlaceKept, ReadLine
    PROVE  PlaceKept'
<1>1. PICK f \in Seq(Halves), n \in {1, 2} : ReadPart(f, n)
  BY ReadLineIs
<1>2. PICK p \in Nat, l \in Nat : p = pos /\ l = Len(f) /\ DOMAIN f = 1..l
  BY DEF ReaderType
<1>3. /\ f = files[handle] /\ handle \in DOMAIN files /\ tailPc = "read" /\ p + n <= l /\ pos' = p + n
      /\ unseen'.misled = (unseen.misled \/ (handle = path /\ cutSince))
      /\ UNCHANGED <<files, path, cutSince, tailPc, gen, handle, seekTo, seen>>
  BY <1>1, <1>2, Zenon DEF ReadPart, diskVars
<1>4. gen /\ tailPc # "open" /\ handle \in Nat /\ \A g \in DOMAIN files : g \in Nat
  BY <1>3, LogsAre DEF ReaderType
<1> SUFFICES ASSUME ~unseen.misled, ~(handle = path /\ cutSince)
             PROVE  InOrder(delivered') /\ NextFileAfter' /\ PlaceInFile' /\ PlaceToOpen'
  BY <1>3, Zenon DEF PlaceKept
<1>5. InOrder(delivered) /\ NextFileAfter /\ PlaceInFile
  BY DEF PlaceKept
<1>6. /\ seen.inode = handle /\ After(f, delivered, p)
      /\ handle = path => WasRead(f, delivered, unseen.lines, p)
      /\ \A h \in DOMAIN files : h > handle => After(files[h], delivered, 0)
  BY <1>2, <1>3, <1>4, <1>5, Zenon DEF PlaceInFile, NextFileAfter, ComesAfter, HasRead
<1>7. PICK x \in Halves : x = f[p + 1] /\ p + 1 \in 1..l /\ x.line \in Nat
  <2>1. p + 1 \in 1..l
    BY <1>3
  <2> QED BY <1>2, <2>1, Elements, HalvesAre
<1>8. \A i \in 1..l : f[i].line \in Nat /\ f[i].end \in BOOLEAN
  BY <1>2, Elements, HalvesAre, Zenon
<1>9. LinesBefore(f, p + n) \subseteq LinesBefore(f, p) \union {x.line}
  <2> SUFFICES ASSUME NEW i \in 1..l, i <= p + n, ~(i <= p) PROVE f[i].line = x.line
    BY <1>2 DEF LinesBefore
  <2>1. i = p + 1 \/ (i = p + 2 /\ n = 2)
    OBVIOUS
  <2>2. n = 2 => f[p + 2].line = f[p + 1].line
    BY <1>1, <1>2 DEF ReadPart
  <2> QED BY <1>7, <2>1, <2>2
<1>10. CASE n = 1
  <2>1. delivered' = delivered /\ unseen'.lines = unseen.lines \union {x.line} /\ pos' = p + 1
    BY <1>1, <1>2, <1>3, <1>7, <1>10 DEF ReadPart
  <2>2. After(f, delivered, p + 1)
    BY <1>6, AfterLater
  <2>3. handle = path => WasRead(f, delivered, unseen'.lines, p + 1)
    <3>1. LinesBefore(f, p + 1) \subseteq LinesBefore(f, p) \union {x.line}
      BY <1>9, <1>10
    <3>2. p + 1 <= Len(f)
      BY <1>2, <1>3, <1>10
    <3> HIDE DEF LinesBefore, LinesOf, Halves
    <3> QED BY <1>6, <2>1, <3>1, <3>2 DEF WasRead
  <2>4. NextFileAfter'
    BY <1>3, <1>5, <2>1, Zenon DEF NextFileAfter, ComesAfter
  <2>5. PlaceInFile'
    BY <1>3, <1>6, <2>1, <2>2, <2>3, Zenon DEF PlaceInFile, ComesAfter, HasRead
  <2>6. PlaceToOpen'
    BY <1>3, <1>4, Zenon DEF PlaceToOpen
  <2> QED BY <1>5, <2>1, <2>4, <2>5, <2>6
<1>11. CASE n = 2
  <2>1. /\ ~x.end /\ f[p + 2].end /\ f[p + 2].line = x.line /\ p + 2 \in 1..l
        /\ delivered' = Append(delivered, x) /\ unseen'.lines = unseen.lines /\ pos' = p + 2
    BY <1>1, <1>2, <1>3, <1>7, <1>11 DEF ReadPart
  <2>2. PICK m \in Nat, d \in {delivered}, e \in {delivered'} :
          /\ DOMAIN d = 1..m /\ DOMAIN e = 1..(m + 1)
          /\ \A i \in 1..m : e[i] = d[i]
          /\ e[m + 1] = x
    <3>1. delivered \in Seq(Halves)
      BY DEF ReaderType
    <3>2. DOMAIN delivered = 1..Len(delivered) /\ Len(delivered) \in Nat
      BY <3>1
    <3> HIDE DEF Halves
    <3> QED BY <2>1, <3>1, <3>2, OneMore
  <2>3. \A i \in 1..(m + 1) : i \in 1..m \/ i = m + 1
    OBVIOUS
  <2>4. \A i \in 1..m : d[i].line < x.line
    <3>1. p + 1 > p /\ p + 1 \in DOMAIN f
      BY <1>2, <1>7
    <3> QED BY <1>6, <1>7, <2>2, <3>1 DEF After
  <2>5. InOrder(e)
    <3> SUFFICES ASSUME NEW i \in 1..(m + 1), NEW j \in 1..(m + 1), i < j PROVE e[i].line < e[j].line
      BY <2>2 DEF InOrder
    <3>1. i \in 1..m /\ (j \in 1..m \/ j = m + 1)
      OBVIOUS
    <3>2. \A a, b \in 1..m : a < b => d[a].line < d[b].line
      BY <1>5, <2>2 DEF InOrder
    <3> QED BY <2>2, <2>4, <3>1, <3>2
  <2>6. ASSUME NEW g, NEW q \in Nat, After(g, d, q),
               \A k \in DOMAIN g : k > q \/ (k = Len(g) /\ ~g[k].end) => x.line < g[k].line
        PROVE  After(g, e, q)
    BY <2>2, <2>3, <2>6 DEF After
  <2>7. After(f, e, p + 2)
    <3>1. After(f, d, p + 2)
      BY <1>6, <2>2, AfterLater
    <3>2. WellWritten(f)
      BY <1>3 DEF FilesInOrderWritten
    <3>3. ASSUME NEW k \in DOMAIN f, k > p + 2 \/ (k = Len(f) /\ ~f[k].end) PROVE x.line < f[k].line
      <4>1. CASE k > p + 2
        <5>1. \/ f[p + 2].line < f[k].line
              \/ f[p + 2].line = f[k].line /\ ~f[p + 2].end /\ f[k].end
          BY <1>2, <2>1, <3>2, <4>1 DEF WellWritten
        <5> QED BY <2>1, <5>1
      <4>2. CASE ~(k > p + 2)
        <5>1. k = p + 2
          BY <1>2, <1>3, <1>11, <3>3, <4>2
        <5> QED BY <2>1, <3>3, <5>1
      <4> QED BY <4>1, <4>2
    <3> QED BY <2>6, <3>1, <3>3
  <2>8. ASSUME NEW h \in DOMAIN files, h > handle PROVE After(files[h], e, 0)
    <3>1. After(files[h], d, 0)
      BY <1>6, <2>2, <2>8
    <3>2. \A k \in DOMAIN files[h] : x.line < files[h][k].line
      <4>1. p + 1 \in DOMAIN files[handle] /\ handle < h
        BY <1>2, <1>3, <1>4, <1>7, <2>8
      <4> QED BY <1>3, <1>7, <4>1, Zenon DEF FilesInOrderWritten
    <3> QED BY <2>6, <3>1, <3>2
  <2>9. handle = path => WasRead(f, e, unseen.lines, p + 2)
    <3>1. LinesBefore(f, p + 2) \subseteq LinesBefore(f, p) \union {x.line} /\ p + 2 <= Len(f)
      BY <1>2, <1>3, <1>9, <1>11
    <3>2. LinesOf(d) \subseteq LinesOf(e) /\ x.line \in LinesOf(e)
      <4>1. m + 1 \in 1..(m + 1) /\ \A i \in 1..m : i \in 1..(m + 1)
        OBVIOUS
      <4> QED BY <2>2, <4>1 DEF LinesOf
    <3>3. handle = path => LinesBefore(f, p) \subseteq LinesOf(d) \union unseen.lines
      BY <1>6, <2>2 DEF WasRead
    <3> HIDE DEF LinesBefore, LinesOf, Halves
    <3> QED BY <3>1, <3>2, <3>3 DEF WasRead
  <2>10. e = delivered'
    BY <2>2
  <2>11. NextFileAfter'
    BY <1>3, <1>4, <2>8, <2>10, Zenon DEF NextFileAfter, ComesAfter
  <2>12. PlaceInFile'
    BY <1>3, <1>6, <2>1, <2>7, <2>9, <2>10, Zenon DEF PlaceInFile, ComesAfter, HasRead
  <2>13. PlaceToOpen'
    BY <1>3, <1>4, Zenon DEF PlaceToOpen
  <2> QED BY <2>5, <2>10, <2>11, <2>12, <2>13
<1> QED BY <1>10, <1>11

LEMMA PlaceKeptKept ==
    FilesInOrderWritten /\ ReaderType /\ SeenStays /\ PlaceKept /\ [TailNext]_tailVars => PlaceKept'
<1> SUFFICES ASSUME FilesInOrderWritten, ReaderType, SeenStays, PlaceKept, [TailNext]_tailVars PROVE PlaceKept'
  OBVIOUS
<1>1. CASE LogStep
  BY <1>1, LogKeeps, PlaceKeptByLog
<1>2. CASE StartTailCheck
  <2>1. tailPc = "idle" /\ tailPc' = "stat" /\ UNCHANGED <<files, path, cutSince, gen, handle, pos, seen, delivered, unseen>>
    BY <1>2 DEF StartTailCheck, diskVars
  <2>2. PlaceToOpen' /\ tailPc # "open"
    BY <2>1 DEF PlaceToOpen
  <2> QED BY <2>1, <2>2, Zenon DEF PlaceKept, NextFileAfter, PlaceInFile, ComesAfter, HasRead
<1>3. CASE CannotOpen \/ EndOfFile
  <2>1. /\ tailPc' = "idle" /\ UNCHANGED <<files, path, cutSince, seen, delivered, handle, pos, unseen>>
        /\ \/ path = 0 /\ gen' = FALSE
           \/ tailPc = "read" /\ gen' = TRUE
    BY <1>3, CheckIsDone, Zenon DEF diskVars
  <2>2. PlaceToOpen'
    BY <2>1 DEF PlaceToOpen
  <2>3. CASE path = 0 /\ gen' = FALSE
    BY <2>1, <2>2, <2>3, Zenon DEF PlaceKept, NextFileAfter, PlaceInFile
  <2>4. CASE tailPc = "read" /\ gen' = TRUE
    <3>1. gen /\ tailPc # "open"
      BY <2>4 DEF ReaderType
    <3> QED BY <2>1, <2>2, <2>4, <3>1, Zenon DEF PlaceKept, NextFileAfter, PlaceInFile, ComesAfter, HasRead
  <2> QED BY <2>1, <2>3, <2>4
<1>4. CASE UNCHANGED tailVars
  BY <1>4, Zenon DEF tailVars, diskVars, readerVars, PlaceKept, NextFileAfter, PlaceInFile, PlaceToOpen, ComesAfter, HasRead
<1> QED BY <1>1, <1>2, <1>3, <1>4, PlaceKeptByStat, PlaceKeptByOpen, PlaceKeptByReadLine DEF TailNext, ReaderStep

\* Reports, and what was delivered up to them.
ReportedUpTo(r, n) == IF n = 0 THEN 0 ELSE r[n].upto
Made(r, d) ==
    \A n \in DOMAIN r : /\ r[n].upto <= Len(d)
                        /\ r[n].made = Aggregate(SubSeq(d, ReportedUpTo(r, n - 1) + 1, ReportedUpTo(r, n)))

LEMMA ReportsAre ==
    /\ ReportsFollow <=>
          /\ tailReports \in Seq(Reports) /\ Made(tailReports, delivered)
          /\ tailPc = "idle" => ReportedUpTo(tailReports, Len(tailReports)) = Len(delivered)
          /\ tailPc # "idle" =>
                values = SubSeq(delivered, ReportedUpTo(tailReports, Len(tailReports)) + 1, Len(delivered))
    /\ ReportsFollow' <=>
          /\ tailReports' \in Seq(Reports) /\ Made(tailReports', delivered')
          /\ tailPc' = "idle" => ReportedUpTo(tailReports', Len(tailReports')) = Len(delivered')
          /\ tailPc' # "idle" =>
                values' = SubSeq(delivered', ReportedUpTo(tailReports', Len(tailReports')) + 1, Len(delivered'))
<1> HIDE DEF Reports
<1>1. \A n : UpTo(n) = ReportedUpTo(tailReports, n)
  BY Zenon DEF UpTo, ReportedUpTo
<1>2. \A n : DeliveredDuring(n) = SubSeq(delivered, ReportedUpTo(tailReports, n - 1) + 1, ReportedUpTo(tailReports, n))
  BY Zenon DEF UpTo, ReportedUpTo, DeliveredDuring
<1>3. \A n : UpTo(n)' = ReportedUpTo(tailReports', n)
  BY Zenon DEF UpTo, ReportedUpTo
<1>4. \A n : DeliveredDuring(n)' = SubSeq(delivered', ReportedUpTo(tailReports', n - 1) + 1, ReportedUpTo(tailReports', n))
  BY Zenon DEF UpTo, ReportedUpTo, DeliveredDuring
<1> QED BY Zenon DEF ReportsFollow, Made, UpTo, DeliveredDuring, ReportedUpTo

LEMMA SubSeqKept ==
    ASSUME NEW S, NEW d \in Seq(S), NEW x \in S, NEW a \in Nat, NEW b \in Nat, b <= Len(d)
    PROVE  SubSeq(Append(d, x), a + 1, b) = SubSeq(d, a + 1, b)
<1>1. Append(d, x) \in Seq(S) /\ Len(Append(d, x)) = Len(d) + 1 /\ Len(d) \in Nat
  OBVIOUS
<1>2. \A i \in 1..Len(d) : Append(d, x)[i] = d[i]
  BY OneMore
<1>3. \A i \in 1..(b - a) : a + i \in 1..Len(d)
  BY <1>1
<1>4. SubSeq(Append(d, x), a + 1, b) = [i \in 1..(b - a) |-> Append(d, x)[a + i]]
  BY <1>1
<1>5. SubSeq(d, a + 1, b) = [i \in 1..(b - a) |-> d[a + i]]
  BY <1>1
<1>6. [i \in 1..(b - a) |-> Append(d, x)[a + i]] = [i \in 1..(b - a) |-> d[a + i]]
  BY <1>2, <1>3
<1> QED BY <1>4, <1>5, <1>6

LEMMA SubSeqLonger ==
    ASSUME NEW S, NEW d \in Seq(S), NEW x \in S, NEW a \in Nat, a <= Len(d)
    PROVE  SubSeq(Append(d, x), a + 1, Len(d) + 1) = Append(SubSeq(d, a + 1, Len(d)), x)
<1>1. PICK l \in Nat : l = Len(d)
  OBVIOUS
<1>2. Append(d, x) \in Seq(S) /\ Len(Append(d, x)) = l + 1
  BY <1>1
<1>3. (\A i \in 1..l : Append(d, x)[i] = d[i]) /\ Append(d, x)[l + 1] = x
  BY <1>1, OneMore
<1>4. PICK s \in Seq(S) : s = SubSeq(d, a + 1, l) /\ Len(s) = l - a /\ \A i \in 1..(l - a) : s[i] = d[a + i]
  <2>1. SubSeq(d, a + 1, l) \in Seq(S) /\ Len(SubSeq(d, a + 1, l)) = l - a
        /\ \A i \in 1..(l - a) : SubSeq(d, a + 1, l)[i] = d[a + i]
    BY <1>1
  <2> QED BY <2>1, Zenon
<1>5. PICK b \in Nat, e \in Seq(S) : b = l + 1 /\ b = Len(e) /\ a <= b /\ e = Append(d, x)
  <2>1. PICK b \in Nat : b = l + 1 /\ a <= b
    BY <1>1
  <2>2. PICK e \in Seq(S) : e = Append(d, x)
    BY <1>2
  <2>3. b = Len(e)
    BY <1>2, <2>1, <2>2
  <2> QED BY <2>1, <2>2, <2>3, Zenon
<1>9. PICK t \in Seq(S) :
        t = SubSeq(e, a + 1, b) /\ Len(t) = b - a /\ \A i \in 1..(b - a) : t[i] = e[a + i]
  <2>1. SubSeq(e, a + 1, b) \in Seq(S) /\ Len(SubSeq(e, a + 1, b)) = b - a
    BY <1>5
  <2>2. \A i \in 1..(b - a) : SubSeq(e, a + 1, b)[i] = e[a + i]
    BY <1>5
  <2>3. PICK t \in Seq(S) : t = SubSeq(e, a + 1, b)
    BY <2>1
  <2> QED BY <2>1, <2>2, <2>3
<1>6. Append(s, x) \in Seq(S) /\ Len(Append(s, x)) = l - a + 1 /\ Append(s, x)[l - a + 1] = x
      /\ \A i \in 1..(l - a) : Append(s, x)[i] = s[i]
  BY <1>4, OneMore
<1>7. \A i \in 1..(b - a) : t[i] = Append(s, x)[i]
  <2> SUFFICES ASSUME NEW i \in 1..(b - a) PROVE t[i] = Append(s, x)[i]
    OBVIOUS
  <2>1. t[i] = e[a + i]
    BY <1>9
  <2>2. CASE i \in 1..(l - a)
    <3>1. a + i \in 1..l
      BY <2>2
    <3>2. e[a + i] = d[a + i]
      BY <1>3, <1>5, <3>1
    <3> QED BY <1>4, <1>6, <2>1, <2>2, <3>2
  <2>3. CASE i = l - a + 1
    <3>1. a + i = l + 1
      BY <2>3
    <3> QED BY <1>3, <1>5, <1>6, <2>1, <2>3, <3>1
  <2>4. i \in 1..(l - a) \/ i = l - a + 1
    BY <1>1, <1>5
  <2> QED BY <2>2, <2>3, <2>4
<1>8. t = Append(s, x)
  <2>1. Len(t) = Len(Append(s, x))
    BY <1>1, <1>5, <1>6, <1>9
  <2>2. PICK u \in Seq(S) : u = Append(s, x)
    BY <1>6
  <2>3. \A i \in 1..Len(t) : t[i] = u[i]
    BY <1>7, <1>9, <2>2
  <2>4. Len(t) = Len(u)
    BY <2>1, <2>2
  <2> QED BY <2>2, <2>3, <2>4, SeqEqual
<1>10. SubSeq(Append(d, x), a + 1, Len(d) + 1) = t /\ SubSeq(d, a + 1, Len(d)) = s
  BY <1>1, <1>4, <1>5, <1>9
<1> QED BY <1>8, <1>10

LEMMA ReportsFollowKept ==
    FilesInOrderWritten /\ ReaderType /\ ReportsFollow /\ [TailNext]_tailVars => ReportsFollow'
<1> SUFFICES ASSUME FilesInOrderWritten, ReaderType, ReportsFollow, [TailNext]_tailVars PROVE ReportsFollow'
  OBVIOUS
<1> HIDE DEF Reports, Halves
<1>1. /\ tailReports \in Seq(Reports) /\ Made(tailReports, delivered)
      /\ tailPc = "idle" => ReportedUpTo(tailReports, Len(tailReports)) = Len(delivered)
      /\ tailPc # "idle" =>
            values = SubSeq(delivered, ReportedUpTo(tailReports, Len(tailReports)) + 1, Len(delivered))
  BY ReportsAre, Zenon
<1>2. PICK r \in Seq(Reports), d \in Seq(Halves), u \in Nat, l \in Nat, k \in Nat :
        r = tailReports /\ d = delivered /\ u = ReportedUpTo(r, Len(r)) /\ l = Len(d) /\ u <= l /\ k = Len(r) /\ DOMAIN r = 1..k
  <2>1. PICK r \in Seq(Reports), d \in Seq(Halves) : r = tailReports /\ d = delivered
    BY <1>1 DEF ReaderType
  <2>2. PICK l \in Nat, k \in Nat : l = Len(d) /\ k = Len(r) /\ DOMAIN r = 1..k
    OBVIOUS
  <2>3. ReportedUpTo(r, Len(r)) \in Nat /\ ReportedUpTo(r, Len(r)) <= l
    <3>1. CASE k = 0
      BY <2>2, <3>1 DEF ReportedUpTo
    <3>2. CASE k # 0
      <4>1. k \in 1..k
        BY <3>2
      <4>2. r[k].upto <= l
        BY <1>1, <2>1, <2>2, <4>1 DEF Made
      <4>3. r[k] \in Reports
        BY <2>2, <4>1, Elements
      <4> QED BY <2>2, <3>2, <4>2, <4>3 DEF ReportedUpTo, Reports
    <3> QED BY <3>1, <3>2
  <2> QED BY <2>1, <2>2, <2>3, Zenon
<1>3. Made(r, d) /\ (tailPc = "idle" => u = l) /\ (tailPc # "idle" => values = SubSeq(d, u + 1, l))
  BY <1>1, <1>2, Zenon
<1>4. CASE UNCHANGED <<tailReports, delivered, values>> /\ (tailPc' = "idle" <=> tailPc = "idle")
  BY <1>1, <1>4, ReportsAre, Zenon
<1>5. CASE StartTailCheck
  <2>1. tailPc = "idle" /\ tailPc' = "stat" /\ values' = <<>> /\ UNCHANGED <<tailReports, delivered>>
    BY <1>5 DEF StartTailCheck
  <2>2. SubSeq(d, l + 1, l) = <<>>
    BY <1>2
  <2>3. values' = SubSeq(delivered', ReportedUpTo(tailReports', Len(tailReports')) + 1, Len(delivered'))
    BY <1>2, <1>3, <2>1, <2>2
  <2> QED BY <1>1, <2>1, <2>3, ReportsAre
<1>6. CASE ReadLine
  <2>1. PICK f \in Seq(Halves), n \in {1, 2} : ReadPart(f, n)
    BY <1>6, ReadLineIs
  <2>2. tailPc = "read" /\ UNCHANGED <<tailPc, tailReports>>
    BY <2>1 DEF ReadPart
  <2>3. CASE n = 1
    <3>1. UNCHANGED <<delivered, values>>
      BY <2>1, <2>3 DEF ReadPart
    <3> QED BY <1>4, <2>2, <3>1
  <2>4. CASE n = 2
    <3>1. PICK x \in Halves : delivered' = Append(d, x) /\ values' = Append(values, x)
      <4>1. pos + 1 \in 1..Len(f)
        BY <2>1, <2>4 DEF ReadPart, ReaderType
      <4>2. f[pos + 1] \in Halves
        BY <4>1, Elements
      <4> QED BY <1>2, <2>1, <2>4, <4>2, Zenon DEF ReadPart
    <3>2. values' = SubSeq(Append(d, x), u + 1, l + 1)
      <4>1. u <= Len(d)
        BY <1>2
      <4>2. SubSeq(Append(d, x), u + 1, Len(d) + 1) = Append(SubSeq(d, u + 1, Len(d)), x)
        BY <4>1, SubSeqLonger, Zenon
      <4>3. tailPc # "idle"
        BY <2>2
      <4> QED BY <1>2, <1>3, <3>1, <4>2, <4>3, Zenon
    <3>3. Len(Append(d, x)) = l + 1
      BY <1>2, OneMore
    <3>4. Made(r, Append(d, x))
      <4> SUFFICES ASSUME NEW i \in 1..k
                   PROVE  /\ r[i].upto <= l + 1
                          /\ r[i].made = Aggregate(SubSeq(Append(d, x), ReportedUpTo(r, i - 1) + 1, ReportedUpTo(r, i)))
        BY <1>2, <3>3 DEF Made
      <4>1. \A j \in 1..k : r[j].upto \in Nat /\ r[j].upto <= l
        <5>1. \A j \in 1..k : r[j] \in Reports
          BY <1>2, Elements
        <5> QED BY <1>2, <1>3, <5>1 DEF Made, Reports
      <4>2. \A j \in 0..k : ReportedUpTo(r, j) \in Nat /\ ReportedUpTo(r, j) <= l
        BY <4>1 DEF ReportedUpTo
      <4>3. PICK a \in Nat, b \in Nat : a = ReportedUpTo(r, i - 1) /\ b = ReportedUpTo(r, i) /\ b <= l
        <5>1. i - 1 \in 0..k /\ i \in 0..k
          OBVIOUS
        <5> QED BY <4>2, <5>1
      <4>4. SubSeq(Append(d, x), a + 1, b) = SubSeq(d, a + 1, b)
        <5>1. b <= Len(d)
          BY <1>2, <4>3
        <5>2. ASSUME NEW S, NEW e \in Seq(S), NEW y \in S, b <= Len(e)
              PROVE  SubSeq(Append(e, y), a + 1, b) = SubSeq(e, a + 1, b)
          BY <5>2, SubSeqKept
        <5> QED BY <5>1, <5>2
      <4>5. r[i].made = Aggregate(SubSeq(d, a + 1, b))
        BY <1>2, <1>3, <4>3, Zenon DEF Made
      <4>6. r[i].made = Aggregate(SubSeq(Append(d, x), a + 1, b))
        BY <4>4, <4>5, Zenon
      <4> QED BY SMTT(30), <4>1, <4>3, <4>6
    <3>5. tailPc' # "idle"
      BY <2>2
    <3>6. values' = SubSeq(delivered', ReportedUpTo(tailReports', Len(tailReports')) + 1, Len(delivered'))
      BY <1>2, <2>2, <3>1, <3>2, <3>3
    <3>7. tailReports' \in Seq(Reports) /\ Made(tailReports', delivered')
      BY <1>2, <2>2, <3>1, <3>4
    <3> QED BY <3>5, <3>6, <3>7, ReportsAre, Zenon
  <2> QED BY <2>3, <2>4
<1>7. CASE CannotOpen \/ EndOfFile
  <2>1. PICK made : made = Aggregate(values)
    OBVIOUS
  <2>2. PICK y : y = [made |-> made, upto |-> l]
    OBVIOUS
  <2>3. tailPc' = "idle" /\ tailPc # "idle" /\ delivered' = d /\ tailReports' = Append(r, y)
    BY <1>2, <1>7, <2>1, <2>2, CheckIsDone, Zenon
  <2>4. values = SubSeq(d, u + 1, l)
    BY <1>3, <2>3
  <2>5. y \in Reports
    <3>1. SubSeq(d, u + 1, l) \in Seq(Halves)
      BY <1>2
    <3>2. made \in {Aggregate(lines) : lines \in Seq(Halves)}
      BY <2>1, <2>4, <3>1
    <3> QED BY <2>2, <3>2, Zenon DEF Reports
  <2>6. PICK s \in Seq(Reports) : /\ s = Append(r, y) /\ Len(s) = k + 1 /\ DOMAIN s = 1..(k + 1)
                                  /\ \A i \in 1..k : s[i] = r[i]
                                  /\ s[k + 1] = y
    <3>1. /\ Append(r, y) \in Seq(Reports) /\ Len(Append(r, y)) = k + 1 /\ DOMAIN Append(r, y) = 1..(k + 1)
          /\ \A i \in 1..k : Append(r, y)[i] = r[i]
          /\ Append(r, y)[k + 1] = y
      BY <1>2, <2>5, OneMore
    <3> QED BY <3>1, Zenon
  <2>7. y.upto = l /\ y.made = Aggregate(SubSeq(d, u + 1, l))
    BY <2>1, <2>2, <2>4
  <2>8. ReportedUpTo(s, k + 1) = l /\ \A i \in 0..k : ReportedUpTo(s, i) = ReportedUpTo(r, i)
    <3>1. k + 1 # 0 /\ \A i \in 0..k : i = 0 \/ i \in 1..k
      OBVIOUS
    <3> QED BY <2>6, <2>7, <3>1, Zenon DEF ReportedUpTo
  <2>9. Made(s, d)
    <3> SUFFICES ASSUME NEW i \in 1..(k + 1)
                 PROVE  /\ s[i].upto <= l
                        /\ s[i].made = Aggregate(SubSeq(d, ReportedUpTo(s, i - 1) + 1, ReportedUpTo(s, i)))
      BY <1>2, <2>6 DEF Made
    <3>1. CASE i \in 1..k
      <4>1. i - 1 \in 0..k /\ i \in 0..k
        BY <3>1
      <4>2. ReportedUpTo(s, i - 1) = ReportedUpTo(r, i - 1) /\ ReportedUpTo(s, i) = ReportedUpTo(r, i)
        BY <2>8, <4>1
      <4>3. r[i].upto <= l /\ r[i].made = Aggregate(SubSeq(d, ReportedUpTo(r, i - 1) + 1, ReportedUpTo(r, i)))
        BY <1>2, <1>3, <3>1, Zenon DEF Made
      <4> QED BY <2>6, <3>1, <4>2, <4>3, Zenon
    <3>2. CASE i = k + 1
      <4>1. i - 1 = k /\ k \in 0..k
        BY <3>2
      <4>2. ReportedUpTo(s, i - 1) = u /\ ReportedUpTo(s, i) = l
        BY <1>2, <2>8, <3>2, <4>1, Zenon
      <4>3. s[i].made = Aggregate(SubSeq(d, ReportedUpTo(s, i - 1) + 1, ReportedUpTo(s, i)))
        BY <2>6, <2>7, <3>2, <4>2, Zenon
      <4>4. s[i].upto = l /\ l <= l
        BY <2>6, <2>7, <3>2
      <4> QED BY <4>3, <4>4
    <3>3. i \in 1..k \/ i = k + 1
      OBVIOUS
    <3> QED BY <3>1, <3>2, <3>3
  <2> QED BY <1>2, <2>3, <2>6, <2>8, <2>9, ReportsAre, Zenon
<1>8. ASSUME ~StartTailCheck, ~ReadLine, ~CannotOpen, ~EndOfFile
      PROVE  UNCHANGED <<tailReports, delivered, values>> /\ (tailPc' = "idle" <=> tailPc = "idle")
  <2>1. ASSUME UNCHANGED readerVars
        PROVE  UNCHANGED <<tailReports, delivered, values>> /\ tailPc' = tailPc
    BY <2>1 DEF readerVars
  <2>2. CASE LogStep
    BY <2>1, <2>2, LogKeeps DEF LogKept
  <2>3. CASE Stat \/ Open
    <3>1. tailPc # "idle" /\ tailPc' # "idle" /\ UNCHANGED <<tailReports, delivered, values>>
      BY <2>3 DEF Stat, Open
    <3> QED BY <3>1
  <2>4. CASE UNCHANGED tailVars
    BY <2>1, <2>4 DEF tailVars
  <2> QED BY <1>8, <2>2, <2>3, <2>4 DEF TailNext, ReaderStep
<1> QED BY <1>4, <1>5, <1>6, <1>7, <1>8

LEMMA TailInvInitially == TailInit => TailInv
<1> SUFFICES ASSUME TailInit PROVE TailInv
  OBVIOUS
<1>1. /\ files = <<<<>>>> /\ path = 1 /\ cutSince = FALSE /\ written = 0
      /\ tailPc = "idle" /\ gen = FALSE /\ handle = 0 /\ pos = 0
      /\ seen = [inode |-> 0, size |-> 0, crc |-> <<>>]
      /\ delivered = <<>> /\ tailReports = <<>> /\ unseen = [lines |-> {}, misled |-> FALSE]
  BY DEF TailInit, NotSeen
<1>2. Len(files) = 1 /\ DOMAIN files = {1} /\ files[1] = <<>> /\ DOMAIN delivered = {} /\ DOMAIN tailReports = {}
      /\ Len(tailReports) = 0 /\ Len(delivered) = 0 /\ DOMAIN <<>> = {}
  BY <1>1
<1>3. FilesInOrderWritten
  <2>1. <<<<>>>> \in Seq(Seq(Halves))
    <3> HIDE DEF Halves
    <3>1. <<>> \in Seq(Halves)
      OBVIOUS
    <3> QED BY <3>1
  <2>2. WellWritten(<<>>)
    BY <1>2, Zenon DEF WellWritten
  <2>3. \A g \in DOMAIN files : WellWritten(files[g]) /\ \A i \in DOMAIN files[g] : files[g][i].line <= written
    <3> HIDE DEF WellWritten
    <3> QED BY <1>2, <2>2
  <2>4. \A g, h \in DOMAIN files : g < h =>
            \A i \in DOMAIN files[g], j \in DOMAIN files[h] : files[g][i].line < files[h][j].line
    BY <1>2
  <2>5. Len(files) >= 1 /\ path \in {0, Len(files)} /\ written \in Nat
    BY <1>1, <1>2
  <2>6. cutSince \in BOOLEAN
    BY <1>1, Zenon
  <2> HIDE DEF Halves, WellWritten
  <2> QED BY <1>1, <2>1, <2>3, <2>4, <2>5, <2>6, Zenon DEF FilesInOrderWritten
<1>4. ReaderType
  <2>1. delivered \in Seq(Halves)
    <3> HIDE DEF Halves
    <3> QED BY <1>1
  <2>2. \A i \in DOMAIN delivered : delivered[i].line <= written
    BY <1>2
  <2>3. handle \in 0..Len(files) /\ pos \in Nat /\ seen.inode \in 0..Len(files) /\ seen.size \in Nat
    BY <1>1, <1>2
  <2>4. unseen \in [lines : SUBSET Nat, misled : BOOLEAN]
    BY <1>1
  <2>5. /\ tailPc \in {"idle", "stat", "open", "read"} /\ gen \in BOOLEAN
        /\ tailPc # "read" /\ ~gen /\ tailPc \notin {"stat", "open"}
    BY <1>1
  <2>6. tailPc # "stat" /\ tailPc # "open"
    BY <1>1
  <2> HIDE DEF Halves
  <2> QED BY <2>1, <2>2, <2>3, <2>4, <2>5, <2>6, Zenon DEF ReaderType
<1>5. SeenStays
  BY <1>1 DEF SeenStays
<1>6. PlaceKept
  <2>1. InOrder(delivered) /\ PlaceInFile /\ PlaceToOpen
    BY <1>1, <1>2 DEF InOrder, PlaceInFile, PlaceToOpen
  <2>2. ComesAfter(path, 0)
    BY <1>1, <1>2 DEF ComesAfter, After
  <2> QED BY <1>1, <2>1, <2>2 DEF PlaceKept, NextFileAfter
<1>7. ReportsFollow
  <2>1. tailReports \in Seq(Reports)
    <3> HIDE DEF Reports
    <3> QED BY <1>1
  <2>2. Made(tailReports, delivered)
    BY <1>2 DEF Made
  <2>3. ReportedUpTo(tailReports, Len(tailReports)) = Len(delivered)
    BY <1>2 DEF ReportedUpTo
  <2> QED BY <1>1, <2>1, <2>2, <2>3, ReportsAre, Zenon
<1> QED BY <1>3, <1>4, <1>5, <1>6, <1>7 DEF TailInv

LEMMA TailInvMeansFollowed == TailInv => LinesFollowed
<1> SUFFICES ASSUME TailInv PROVE LinesFollowed
  OBVIOUS
<1>1. FilesInOrderWritten /\ ReaderType /\ PlaceKept /\ ReportsFollow
  BY DEF TailInv
<1>2. /\ \A n \in DOMAIN tailReports : tailReports[n].made = Aggregate(DeliveredDuring(n))
      /\ tailPc = "idle" => UpTo(Len(tailReports)) = Len(delivered)
  BY <1>1, Zenon DEF ReportsFollow
<1>3. ~unseen.misled => \A i, j \in DOMAIN delivered : i < j => delivered[i].line < delivered[j].line
  BY <1>1 DEF PlaceKept, InOrder
<1>4. ASSUME ~unseen.misled, tailPc = "read", Unread = <<>>, handle = path, ~cutSince
      PROVE  LinesBefore(LogContent, Len(LogContent)) \subseteq DeliveredLines \union unseen.lines
  <2>1. gen /\ handle # 0
    BY <1>1, <1>4 DEF ReaderType
  <2>2. HasRead(path, pos)
    BY <1>1, <1>4, <2>1 DEF PlaceKept, PlaceInFile
  <2>3. PICK f \in Seq(Halves), p \in Nat : f = files[path] /\ p = pos /\ Len(f) \in Nat
    BY <1>1, <1>4, <2>1, LogsAre DEF ReaderType
  <2>4. p <= Len(f) /\ LinesBefore(f, p) \subseteq LinesOf(delivered) \union unseen.lines
    BY <2>2, <2>3 DEF HasRead, WasRead
  <2>5. SubSeq(f, p + 1, Len(f)) = <<>>
    BY <1>4, <2>3 DEF Unread
  <2>6. p = Len(f)
    <3>1. PICK l \in Nat : l = Len(f) /\ p <= l
      BY <2>3, <2>4
    <3>2. PICK t : t = SubSeq(f, p + 1, l)
      OBVIOUS
    <3>3. Len(t) = l - p
      BY <3>1, <3>2
    <3>4. t = <<>>
      BY <2>5, <3>1, <3>2
    <3>5. Len(t) = 0
      BY <3>4
    <3> QED BY <3>1, <3>3, <3>5
  <2>7. LogContent = f /\ DeliveredLines = LinesOf(delivered)
    BY <2>3 DEF LogContent, DeliveredLines, LinesOf
  <2> QED BY <2>4, <2>6, <2>7
<1> QED BY <1>2, <1>3, <1>4, Zenon DEF LinesFollowed

\* Followed through rotations, truncations and half-written lines, the log's lines are
\* delivered once, in order and without a gap, and each check reports what was delivered
\* since the one before it (TailFile._open_file and tail, Dogstreams.check).
THEOREM LinesFollowedCorrect == TailSpec => []LinesFollowed
<1>1. TailInit => TailInv
  BY TailInvInitially
<1>2. TailInv /\ [TailNext]_tailVars => TailInv'
  <2> SUFFICES ASSUME TailInv, [TailNext]_tailVars PROVE TailInv'
    OBVIOUS
  <2>1. FilesInOrderWritten /\ ReaderType /\ SeenStays /\ PlaceKept /\ ReportsFollow
    BY DEF TailInv
  <2> QED BY <2>1, FilesInOrderWrittenKept, ReaderTypeKept, SeenStaysKept, PlaceKeptKept, ReportsFollowKept DEF TailInv
<1>3. TailInv => LinesFollowed
  BY TailInvMeansFollowed
<1> QED BY <1>1, <1>2, <1>3, PTL DEF TailSpec

-----------------------------------------------------------------------------
(* CheckRun *)

RunType ==
    /\ pc \in {"idle", "check", "collect", "post", "commit"}
    /\ runs \in 0..MaxRuns /\ instance \in 1..NInstances
    /\ topology \in [Keys -> Topology] /\ announced \in 0..MaxData
    /\ DOMAIN payload \subseteq Keys /\ payload \in [DOMAIN payload -> Topology]
    /\ part \in 0..Parts /\ (pc = "post" => part # 0)
    /\ emission \in {"none", "sent", "failed"}
    /\ told \in {"nothing", "success", "failure"}
    /\ received \in [Keys -> SUBSET Data] /\ snapshot \in [Keys -> SUBSET Data]
    /\ missed \in [Keys -> BOOLEAN] /\ unposted \in BOOLEAN

\* What a check announced is in one topology instance at most until it is in a
\* payload, and in none from then on.
AnnouncedOnce ==
    /\ reports \in [Data -> 0..1]
    /\ \A k \in Keys : \A d \in topology[k].data :
          /\ d <= announced /\ reports[d] = 0
          /\ \A l \in Keys : d \in topology[l].data => l = k
    /\ \A d \in Data : d > announced => reports[d] = 0

\* The snapshot of k, begun or ended, is what t holds of it and what the receiver
\* has, unless that missed a part.
Whole(k, t) ==
    t.inSnapshot \/ t.stop =>
        IF t.start THEN snapshot[k] = t.data
                   ELSE missed[k] \/ snapshot[k] = received[k] \cup t.data

\* The payload has topologies that were not posted yet.
Unsent == pc = "post" /\ part = Topologies

\* What an instance whose snapshot is open looks like once it was collected.
CollectedOf(k) ==
    topology[k].inSnapshot => /\ ~topology[k].start /\ topology[k].data = {}
                              /\ k \in DOMAIN payload /\ payload[k].inSnapshot

SnapshotsWhole ==
    /\ \A k \in Keys : topology[k].inSnapshot => topology[k].exists
    /\ Unsent => /\ \A k \in DOMAIN payload : Whole(k, payload[k])
                 /\ \A k \in Keys : CollectedOf(k) /\ ~topology[k].stop
    /\ ~Unsent => \A k \in Keys : Whole(k, topology[k])

RunInv == RunType /\ AnnouncedOnce /\ SnapshotsWhole

-------------------------------------------------------------------------------
LEMMA RunInvInitially == Init => RunInv
<1> SUFFICES ASSUME Init PROVE RunInv
  OBVIOUS
<1> USE DEF Init
<1>1. NoTopology \in Topology
  BY DEF NoTopology, Topology
<1>2. \A k \in Keys : topology[k] = NoTopology
  OBVIOUS
<1>3. NoTopology.data = {} /\ ~NoTopology.inSnapshot /\ ~NoTopology.stop
  BY DEF NoTopology
<1>4. RunType
  <2>1. DOMAIN payload = {}
    OBVIOUS
  <2>2. payload \in [DOMAIN payload -> Topology]
    BY <2>1
  <2>3. topology \in [Keys -> Topology]
    BY <1>1
  <2>4. runs \in 0..MaxRuns /\ instance \in 1..NInstances /\ announced \in 0..MaxData /\ part \in 0..Parts
    BY CheckRunAssumption DEF Parts
  <2>5. received \in [Keys -> SUBSET Data] /\ snapshot \in [Keys -> SUBSET Data] /\ missed \in [Keys -> BOOLEAN]
    OBVIOUS
  <2>6. /\ pc = "idle" /\ emission = "none" /\ told = "nothing" /\ unposted = FALSE
    OBVIOUS
  <2> QED BY <2>1, <2>2, <2>3, <2>4, <2>5, <2>6 DEF RunType
<1>5. AnnouncedOnce
  BY <1>2, <1>3 DEF AnnouncedOnce
<1>6. SnapshotsWhole
  BY <1>2, <1>3 DEF SnapshotsWhole, Unsent, Whole
<1> QED BY <1>4, <1>5, <1>6 DEF RunInv

\* A set without two elements.
LEMMA AtMostOne ==
    ASSUME NEW S, \A x, y \in S : x = y
    PROVE  /\ Cardinality(S) \in 0..1
           /\ S = {} => Cardinality(S) = 0
<1>1. CASE S = {}
  BY <1>1, FS_EmptySet
<1>2. CASE S # {}
  <2>1. PICK x \in S : S = {x}
    BY <1>2
  <2> QED BY <1>2, <2>1, FS_Singleton
<1> QED BY <1>1, <1>2

\* A call of the check changes one instance, and what it put in its snapshot.
Called(k, t, s) ==
    /\ topology' = [topology EXCEPT ![k] = t] /\ snapshot' = [snapshot EXCEPT ![k] = s]
    /\ pc = "check" /\ pc' \in {"check", "collect"} /\ instance' \in 1..NInstances
    /\ UNCHANGED <<runs, payload, told, postVars, reports>>

LEMMA CallKeeps ==
    ASSUME RunInv, NEW k \in Keys, NEW t \in Topology, NEW s \in SUBSET Data, Called(k, t, s),
           announced' \in 0..MaxData, announced' >= announced,
           \A d \in t.data \ topology[k].data : d > announced /\ d <= announced',
           t.inSnapshot => t.exists,
           t.inSnapshot \/ t.stop => IF t.start THEN s = t.data ELSE missed[k] \/ s = received[k] \cup t.data
    PROVE  RunInv'
<1> USE DEF RunInv
<1>1. /\ topology' \in [Keys -> Topology] /\ topology'[k] = t
      /\ \A l \in Keys : l # k => topology'[l] = topology[l]
  BY DEF Called, RunType
<1>2. /\ snapshot' \in [Keys -> SUBSET Data] /\ snapshot'[k] = s
      /\ \A l \in Keys : l # k => snapshot'[l] = snapshot[l]
  BY DEF Called, RunType
<1>3. RunType'
  <2>1. pc' \in {"idle", "check", "collect", "post", "commit"} /\ pc' # "post" /\ instance' \in 1..NInstances
    BY DEF Called
  <2>2. UNCHANGED <<runs, payload, told, part, emission, received, missed, unposted, reports>>
    BY DEF Called, postVars
  <2> QED BY <1>1, <1>2, <2>1, <2>2 DEF RunType
<1>4. AnnouncedOnce'
  <2>1. reports' = reports /\ announced \in Nat /\ announced' \in Nat /\ MaxData \in Nat
    BY CheckRunAssumption DEF Called, RunType
  <2>2. \A d \in Data : d \in Nat
    BY DEF Data
  <2>3. \A l \in Keys : \A d \in topology'[l].data : d \in Data
    BY <1>1 DEF Topology
  <2>4. ASSUME NEW l \in Keys, NEW d \in topology'[l].data
        PROVE  /\ d <= announced' /\ reports[d] = 0
               /\ \A m \in Keys : d \in topology'[m].data => m = l
    <3>1. d \in Nat /\ d \in Data
      BY <2>2, <2>3, <2>4
    <3>2. CASE d \in topology[l].data
      <4>1. d <= announced /\ reports[d] = 0 /\ \A m \in Keys : d \in topology[m].data => m = l
        BY <3>2 DEF AnnouncedOnce
      <4>2. d \in t.data => d \in topology[k].data
        BY <2>1, <3>1, <4>1
      <4> QED BY <1>1, <2>1, <3>1, <4>1, <4>2
    <3>3. CASE d \notin topology[l].data
      <4>1. l = k /\ d > announced /\ d <= announced'
        BY <1>1, <2>4, <3>3
      <4>2. \A m \in Keys : d \notin topology[m].data
        BY <2>1, <3>1, <4>1 DEF AnnouncedOnce
      <4>3. reports[d] = 0
        BY <3>1, <4>1 DEF AnnouncedOnce
      <4> QED BY <1>1, <4>1, <4>2, <4>3
    <3> QED BY <3>2, <3>3
  <2>5. \A d \in Data : d > announced' => reports[d] = 0
    BY <2>1, <2>2 DEF AnnouncedOnce
  <2> QED BY <2>1, <2>4, <2>5 DEF AnnouncedOnce
<1>5. SnapshotsWhole'
  <2>1. ~Unsent /\ ~Unsent' /\ UNCHANGED <<received, missed>>
    BY DEF Called, Unsent, postVars
  <2>2. \A l \in Keys : topology'[l].inSnapshot => topology'[l].exists
    BY <1>1 DEF SnapshotsWhole
  <2>3. ASSUME NEW l \in Keys PROVE Whole(l, topology[l])'
    <3>1. CASE l = k
      BY <1>1, <1>2, <2>1, <3>1 DEF Whole
    <3>2. CASE l # k
      <4>1. Whole(l, topology[l])
        BY <2>1 DEF SnapshotsWhole
      <4> QED BY <1>1, <1>2, <2>1, <3>2, <4>1 DEF Whole
    <3> QED BY <3>1, <3>2
  <2> QED BY <2>1, <2>2, <2>3 DEF SnapshotsWhole
<1> QED BY <1>3, <1>4, <1>5

\* An instance of the check that ends or goes on.
EndsOrGoesOn == pc = "check" /\ pc' \in {"check", "collect"} /\ instance' \in 1..NInstances

LEMMA InstanceGoesOn ==
    ASSUME RunType, InstanceEnds
    PROVE  EndsOrGoesOn
<1>1. pc = "check" /\ instance \in 1..NInstances /\ NInstances \in Nat
  BY CheckRunAssumption DEF InstanceEnds, RunType
<1>2. CASE instance < NInstances
  <2>1. instance' = instance + 1 /\ pc' = pc
    BY <1>2 DEF InstanceEnds
  <2> QED BY <1>1, <1>2, <2>1 DEF EndsOrGoesOn
<1>3. CASE ~(instance < NInstances)
  <2>1. pc' = "collect" /\ instance' = instance
    BY <1>3 DEF InstanceEnds
  <2> QED BY <1>1, <2>1 DEF EndsOrGoesOn
<1> QED BY <1>2, <1>3

LEMMA RaisedKeeps ==
    ASSUME RunInv, NEW k \in Keys, CallRaises(k)
    PROVE  RunInv'
<1>1. /\ topology \in [Keys -> Topology] /\ topology[k] \in Topology
      /\ snapshot \in [Keys -> SUBSET Data] /\ announced \in 0..MaxData /\ RunType
  BY DEF RunInv, RunType
<1>2. PICK t \in Topology : t = [topology[k] EXCEPT !.exists = TRUE]
  <2>1. [topology[k] EXCEPT !.exists = TRUE] \in Topology
    BY <1>1 DEF Topology
  <2> QED BY <2>1, Zenon
<1>3. /\ t.exists /\ t.inSnapshot = topology[k].inSnapshot /\ t.start = topology[k].start
      /\ t.stop = topology[k].stop /\ t.data = topology[k].data
  BY <1>1, <1>2 DEF Topology
<1>4. PICK s \in SUBSET Data : s = snapshot[k]
  BY <1>1
<1>5. EndsOrGoesOn
  BY <1>1, InstanceGoesOn DEF CallRaises
<1>6. /\ topology' = [topology EXCEPT ![k] = t] /\ snapshot' = [snapshot EXCEPT ![k] = s] /\ announced' = announced
      /\ UNCHANGED <<runs, payload, told, postVars, reports>>
  BY <1>1, <1>2, <1>4 DEF CallRaises, InstanceEnds
<1>7. Called(k, t, s)
  BY <1>5, <1>6 DEF Called, EndsOrGoesOn
<1>8. ~Unsent
  BY <1>5 DEF Unsent, EndsOrGoesOn
<1>9. t.inSnapshot \/ t.stop => IF t.start THEN s = t.data ELSE missed[k] \/ s = received[k] \cup t.data
  BY <1>3, <1>4, <1>8 DEF RunInv, SnapshotsWhole, Whole
<1>10. announced' \in 0..MaxData /\ announced' >= announced
  BY <1>1, <1>6, CheckRunAssumption
<1>11. t.inSnapshot => t.exists
  BY <1>3
<1>12. \A d \in t.data \ topology[k].data : d > announced /\ d <= announced'
  BY <1>3
<1> QED BY <1>7, <1>9, <1>10, <1>11, <1>12, CallKeeps

\* A call that returns: the check goes on.
LEMMA CallIs ==
    ASSUME RunInv, NEW k \in Keys, NEW t \in Topology, NEW s \in SUBSET Data,
           Call(k, t), snapshot' = [snapshot EXCEPT ![k] = s]
    PROVE  Called(k, t, s) /\ ~Unsent
BY DEF Call, Called, Unsent, RunInv, RunType

LEMMA CallsKeep ==
    ASSUME RunInv, NEW k \in Keys, Calls(k)
    PROVE  RunInv'
<1>1. /\ topology \in [Keys -> Topology] /\ topology[k] \in Topology
      /\ snapshot \in [Keys -> SUBSET Data] /\ announced \in 0..MaxData /\ MaxData \in Nat
  BY CheckRunAssumption DEF RunInv, RunType
<1>2. PICK t0 \in Topology : t0 = topology[k]
  BY <1>1
<1>3. CASE Announce(k)
  <2>1. PICK a \in Data : a = announced + 1
    BY <1>1, <1>3 DEF Announce, Data
  <2>2. PICK t \in Topology : t = [t0 EXCEPT !.exists = TRUE, !.data = @ \cup {a}]
    <3>1. [t0 EXCEPT !.exists = TRUE, !.data = @ \cup {a}] \in Topology
      BY <1>2 DEF Topology
    <3> QED BY <3>1, Zenon
  <2>3. /\ t.exists /\ t.inSnapshot = t0.inSnapshot /\ t.start = t0.start
        /\ t.stop = t0.stop /\ t.data = t0.data \cup {a}
    BY <2>2 DEF Topology
  <2>4. PICK s \in SUBSET Data : s = IF t0.inSnapshot THEN snapshot[k] \cup {a} ELSE snapshot[k]
    BY <1>1, <2>1
  <2>5. announced' = a /\ ~t0.stop
    BY <1>2, <1>3, <2>1 DEF Announce, Accepts
  <2>6. Call(k, t) /\ snapshot' = [snapshot EXCEPT ![k] = s]
    BY <1>1, <1>2, <1>3, <2>2, <2>4, <2>5 DEF Announce
  <2>7. Called(k, t, s) /\ ~Unsent
    BY <2>6, CallIs
  <2>8. t.inSnapshot \/ t.stop => IF t.start THEN s = t.data ELSE missed[k] \/ s = received[k] \cup t.data
    <3>1. t0.inSnapshot => IF t0.start THEN snapshot[k] = t0.data ELSE missed[k] \/ snapshot[k] = received[k] \cup t0.data
      BY <1>2, <2>7 DEF RunInv, SnapshotsWhole, Whole
    <3> QED BY <2>3, <2>4, <2>5, <3>1
  <2>9. t.inSnapshot => t.exists
    BY <2>3
  <2>10. announced' \in 0..MaxData /\ announced' >= announced
    BY <1>1, <2>1, <2>5 DEF Data
  <2>11. \A d \in t.data \ topology[k].data : d > announced /\ d <= announced'
    BY <1>1, <1>2, <2>1, <2>3, <2>5
  <2> QED BY <2>7, <2>8, <2>9, <2>10, <2>11, CallKeeps
<1>4. CASE StartSnapshot(k)
  <2>1. PICK t \in Topology : t = [t0 EXCEPT !.exists = TRUE, !.inSnapshot = TRUE, !.start = TRUE]
    <3>1. [t0 EXCEPT !.exists = TRUE, !.inSnapshot = TRUE, !.start = TRUE] \in Topology
      BY DEF Topology
    <3> QED BY <3>1, Zenon
  <2>2. t.exists /\ t.start /\ t.data = t0.data
    BY <2>1 DEF Topology
  <2>3. PICK s \in SUBSET Data : s = t0.data
    BY DEF Topology
  <2>4. Call(k, t) /\ snapshot' = [snapshot EXCEPT ![k] = s] /\ announced' = announced
    BY <1>2, <1>4, <2>1, <2>3 DEF StartSnapshot
  <2>5. Called(k, t, s)
    BY <2>4, CallIs
  <2>6. announced' \in 0..MaxData /\ announced' >= announced
    BY <1>1, <2>4
  <2>7. \A d \in t.data \ topology[k].data : d > announced /\ d <= announced'
    BY <1>2, <2>2
  <2>8. t.inSnapshot \/ t.stop => IF t.start THEN s = t.data ELSE missed[k] \/ s = received[k] \cup t.data
    BY <2>2, <2>3
  <2>9. t.inSnapshot => t.exists
    BY <2>2
  <2> QED BY <2>5, <2>6, <2>7, <2>8, <2>9, CallKeeps
<1>5. CASE StopSnapshot(k)
  <2>1. PICK t \in Topology : t = [t0 EXCEPT !.inSnapshot = FALSE, !.stop = TRUE]
    <3>1. [t0 EXCEPT !.inSnapshot = FALSE, !.stop = TRUE] \in Topology
      BY DEF Topology
    <3> QED BY <3>1, Zenon
  <2>2. ~t.inSnapshot /\ t.start = t0.start /\ t.data = t0.data
    BY <2>1 DEF Topology
  <2>3. PICK s \in SUBSET Data : s = snapshot[k]
    BY <1>1
  <2>4. Call(k, t) /\ snapshot' = [snapshot EXCEPT ![k] = s] /\ announced' = announced /\ t0.inSnapshot
    BY <1>1, <1>2, <1>5, <2>1, <2>3 DEF StopSnapshot
  <2>5. Called(k, t, s) /\ ~Unsent
    BY <2>4, CallIs
  <2>6. announced' \in 0..MaxData /\ announced' >= announced
    BY <1>1, <2>4
  <2>7. \A d \in t.data \ topology[k].data : d > announced /\ d <= announced'
    BY <1>2, <2>2
  <2>8. t.inSnapshot \/ t.stop => IF t.start THEN s = t.data ELSE missed[k] \/ s = received[k] \cup t.data
    <3>1. IF t0.start THEN snapshot[k] = t0.data ELSE missed[k] \/ snapshot[k] = received[k] \cup t0.data
      BY <1>2, <2>4, <2>5 DEF RunInv, SnapshotsWhole, Whole
    <3> QED BY <2>2, <2>3, <3>1
  <2>9. t.inSnapshot => t.exists
    BY <2>2
  <2> QED BY <2>5, <2>6, <2>7, <2>8, <2>9, CallKeeps
<1>6. CASE ClearTopology(k)
  <2>1. PICK t \in Topology : t = [exists |-> TRUE, inSnapshot |-> FALSE, start |-> FALSE, stop |-> FALSE, data |-> {}]
    BY DEF Topology
  <2>2. ~t.inSnapshot /\ ~t.stop /\ t.data = {}
    BY <2>1
  <2>3. t = Cleared(topology[k], TRUE)
    BY <2>1 DEF Cleared
  <2>4. PICK s \in SUBSET Data : s = snapshot[k] \ topology[k].data
    BY <1>1
  <2>5. Call(k, t) /\ snapshot' = [snapshot EXCEPT ![k] = s] /\ announced' = announced
    BY <1>1, <1>6, <2>3, <2>4 DEF ClearTopology
  <2>6. Called(k, t, s)
    BY <2>5, CallIs
  <2>7. announced' \in 0..MaxData /\ announced' >= announced
    BY <1>1, <2>5
  <2>8. \A d \in t.data \ topology[k].data : d > announced /\ d <= announced'
    BY <2>2
  <2>9. t.inSnapshot \/ t.stop => IF t.start THEN s = t.data ELSE missed[k] \/ s = received[k] \cup t.data
    BY <2>2
  <2>10. t.inSnapshot => t.exists
    BY <2>2
  <2> QED BY <2>6, <2>7, <2>8, <2>9, <2>10, CallKeeps
<1>7. CASE AnnounceRaises(k) \/ StartRaises(k) \/ StopRaises(k)
  <2>1. CallRaises(k)
    BY <1>7 DEF AnnounceRaises, StartRaises, StopRaises
  <2> QED BY <2>1, RaisedKeeps
<1> QED BY <1>3, <1>4, <1>5, <1>6, <1>7 DEF Calls

-------------------------------------------------------------------------------
\* What is collected was reported never before, and is reported by one instance.
LEMMA CollectKeeps ==
    ASSUME RunInv, CollectTopology
    PROVE  RunInv'
<1>1. /\ pc = "collect" /\ pc' = "post" /\ part' = 1 /\ emission' = "none" /\ unposted' = FALSE
      /\ UNCHANGED <<runs, instance, announced, snapshot, told, received, missed>>
      /\ payload' = [k \in {l \in Keys : topology[l].exists} |-> topology[k]]
      /\ topology' = [k \in Keys |-> IF topology[k].inSnapshot THEN Collected(topology[k]) ELSE NoTopology]
      /\ reports' = [d \in Data |-> reports[d] + Cardinality({k \in Keys : d \in topology[k].data})]
  BY DEF CollectTopology
<1>2. topology \in [Keys -> Topology] /\ \A k \in Keys : topology[k] \in Topology
  BY DEF RunInv, RunType
<1>3. \A k \in Keys : /\ topology'[k] \in Topology /\ topology'[k].data = {}
                      /\ ~topology'[k].start /\ ~topology'[k].stop
                      /\ topology'[k].inSnapshot = topology[k].inSnapshot
                      /\ topology'[k].inSnapshot => topology'[k].exists
  <2> SUFFICES ASSUME NEW k \in Keys
               PROVE  /\ topology'[k] \in Topology /\ topology'[k].data = {}
                      /\ ~topology'[k].start /\ ~topology'[k].stop
                      /\ topology'[k].inSnapshot = topology[k].inSnapshot
                      /\ topology'[k].inSnapshot => topology'[k].exists
    OBVIOUS
  <2>1. CASE topology[k].inSnapshot = TRUE
    <3>1. PICK t \in Topology : t = [exists |-> TRUE, inSnapshot |-> TRUE, start |-> FALSE, stop |-> FALSE, data |-> {}]
      BY DEF Topology
    <3>2. t.data = {} /\ ~t.start /\ ~t.stop /\ t.inSnapshot = TRUE /\ t.exists
      BY <3>1
    <3>3. topology'[k] = t
      BY <1>1, <2>1, <3>1 DEF Collected, Cleared
    <3> QED BY <2>1, <3>2, <3>3
  <2>2. CASE topology[k].inSnapshot = FALSE
    <3>1. PICK t \in Topology : t = NoTopology
      BY DEF Topology, NoTopology
    <3>2. t.data = {} /\ ~t.start /\ ~t.stop /\ t.inSnapshot = FALSE
      BY <3>1 DEF NoTopology
    <3>3. topology'[k] = t
      BY <1>1, <2>2, <3>1
    <3> QED BY <2>2, <3>2, <3>3
  <2> QED BY <1>2, <2>1, <2>2 DEF Topology
<1>4. /\ DOMAIN payload' \subseteq Keys /\ payload' \in [DOMAIN payload' -> Topology]
      /\ \A k \in DOMAIN payload' : payload'[k] = topology[k]
      /\ \A k \in Keys : topology[k].exists => k \in DOMAIN payload'
  BY <1>1, <1>2
<1>5. RunType'
  <2>1. topology' \in [Keys -> Topology]
    BY <1>1, <1>3
  <2>2. part' \in 0..Parts /\ part' # 0
    BY <1>1 DEF Parts
  <2> QED BY <1>1, <1>4, <2>1, <2>2 DEF RunInv, RunType
<1>6. AnnouncedOnce'
  <2>1. ASSUME NEW d \in Data
        PROVE  reports'[d] \in 0..1 /\ (d > announced => reports'[d] = 0)
    <3>1. PICK S : S = {k \in Keys : d \in topology[k].data}
      OBVIOUS
    <3>2. \A x, y \in S : x = y
      BY <3>1 DEF RunInv, AnnouncedOnce
    <3>3. Cardinality(S) \in 0..1 /\ (S = {} => Cardinality(S) = 0)
      BY <3>2, AtMostOne
    <3>4. reports'[d] = reports[d] + Cardinality(S)
      BY <1>1, <3>1
    <3>5. CASE S = {}
      BY <3>3, <3>4, <3>5 DEF RunInv, AnnouncedOnce
    <3>6. CASE S # {}
      <4>1. PICK k \in Keys : d \in topology[k].data
        BY <3>1, <3>6
      <4>2. d <= announced /\ reports[d] = 0
        BY <4>1 DEF RunInv, AnnouncedOnce
      <4>3. d \in Nat /\ announced \in Nat
        BY DEF Data, RunInv, RunType
      <4> QED BY <3>3, <3>4, <4>2, <4>3
    <3> QED BY <3>5, <3>6
  <2>2. reports' \in [Data -> 0..1]
    <3>1. reports' = [d \in Data |-> reports'[d]]
      BY <1>1
    <3> QED BY <2>1, <3>1
  <2> QED BY <1>1, <1>3, <2>1, <2>2 DEF AnnouncedOnce
<1>7. SnapshotsWhole'
  <2>1. Unsent' /\ ~Unsent
    BY <1>1 DEF Unsent, Topologies
  <2>2. \A k \in DOMAIN payload' : Whole(k, payload[k])'
    <3> SUFFICES ASSUME NEW k \in DOMAIN payload' PROVE Whole(k, payload[k])'
      OBVIOUS
    <3>1. k \in Keys /\ payload'[k] = topology[k]
      BY <1>4
    <3>2. Whole(k, topology[k])
      BY <2>1, <3>1 DEF RunInv, SnapshotsWhole
    <3> QED BY <1>1, <3>1, <3>2 DEF Whole
  <2>3. \A k \in Keys : CollectedOf(k)' /\ ~topology'[k].stop
    <3> SUFFICES ASSUME NEW k \in Keys, topology'[k].inSnapshot
                 PROVE  k \in DOMAIN payload' /\ payload'[k].inSnapshot
      BY <1>3 DEF CollectedOf
    <3>1. topology[k].inSnapshot
      BY <1>3
    <3> QED BY <1>4, <3>1 DEF RunInv, SnapshotsWhole
  <2> QED BY <1>3, <2>1, <2>2, <2>3 DEF SnapshotsWhole
<1> QED BY <1>5, <1>6, <1>7 DEF RunInv

-------------------------------------------------------------------------------
\* A part of the payload reaches the receiver or does not.
Delivered == part = Topologies /\ Receive
NotDelivered == part = Topologies /\ Miss
OtherPart == part # Topologies /\ UNCHANGED <<received, missed>>

\* The rest of what a post changes.
Posted ==
    /\ pc = "post" /\ UNCHANGED <<runs, instance, checkVars, payload, told, reports>>
    /\ part' \in 0..Parts /\ part' # 0 /\ (pc' = "commit" \/ (pc' = "post" /\ part' > part))
    /\ emission' \in {"none", "sent", "failed"} /\ unposted' \in BOOLEAN

LEMMA PostIs ==
    ASSUME RunType, Post \/ PostNothing \/ PostRaises
    PROVE  Posted /\ (Delivered \/ NotDelivered \/ OtherPart)
<1>1. pc = "post" /\ UNCHANGED <<runs, instance, checkVars, payload, told, reports>>
  BY DEF Post, PostNothing, PostRaises, Posting
<1>2. part \in 1..Parts
  BY <1>1 DEF RunType, Parts
<1>3. part' \in 0..Parts /\ part' # 0 /\ (pc' = "commit" \/ (pc' = "post" /\ part' > part))
  <2>1. CASE GoOn("sent") /\ part < Parts
    BY <1>1, <1>2, <2>1 DEF GoOn, Parts
  <2>2. CASE GoOn("sent") /\ ~(part < Parts)
    BY <1>1, <1>2, <2>2 DEF GoOn, Parts
  <2>3. CASE PostRaises
    BY <1>1, <1>2, <2>3 DEF PostRaises, Parts
  <2> QED BY <2>1, <2>2, <2>3 DEF Post, PostNothing
<1>4. emission' \in {"none", "sent", "failed"}
  <2>1. CASE PostRaises
    BY <2>1 DEF PostRaises
  <2>2. CASE GoOn("sent")
    BY <2>2 DEF GoOn, RunType
  <2> QED BY <2>1, <2>2 DEF Post, PostNothing
<1>5. unposted' \in BOOLEAN
  BY DEF Post, PostNothing, PostRaises, RunType
<1>6. Delivery \/ NoDelivery
  BY DEF Post, PostNothing, PostRaises
<1>7. Delivered \/ NotDelivered \/ OtherPart
  BY <1>6 DEF Delivery, NoDelivery, Delivered, NotDelivered, OtherPart
<1> QED BY <1>1, <1>3, <1>4, <1>5, <1>7 DEF Posted

\* What the receiver has of a snapshot that was whole, once its part is posted.
LEMMA ReceivedIs ==
    ASSUME RunType, Receive, NEW k \in DOMAIN payload, Whole(k, payload[k]),
           payload[k].inSnapshot \/ payload[k].stop
    PROVE  missed'[k] \/ received'[k] = snapshot[k]
<1>1. k \in Keys /\ payload[k] \in Topology
  BY DEF RunType
<1>2. CASE payload[k].start = TRUE
  <2>1. received'[k] = payload[k].data
    BY <1>1, <1>2 DEF Receive
  <2> QED BY <1>2, <2>1 DEF Whole
<1>3. CASE payload[k].start = FALSE
  <2>1. received'[k] = received[k] \cup payload[k].data
    BY <1>1, <1>3 DEF Receive
  <2>2. missed[k] => missed'[k]
    BY <1>1, <1>3 DEF Receive
  <2> QED BY <1>3, <2>1, <2>2 DEF Whole
<1> QED BY <1>1, <1>2, <1>3 DEF Topology

LEMMA PostKeeps ==
    ASSUME RunInv, Posted, Delivered \/ NotDelivered \/ OtherPart
    PROVE  RunInv'
<1> USE DEF RunInv
<1>1. /\ UNCHANGED <<runs, instance, topology, announced, snapshot, payload, told, reports>>
      /\ pc = "post" /\ pc' \in {"post", "commit"}
  BY DEF Posted, checkVars
<1>2. received' \in [Keys -> SUBSET Data] /\ missed' \in [Keys -> BOOLEAN]
  <2>1. CASE Delivered
    <3>1. \A k \in DOMAIN payload : payload[k] \in Topology
      BY DEF RunType
    <3>2. received' = [k \in Keys |-> IF k \notin DOMAIN payload THEN received[k]
                                      ELSE IF payload[k].start THEN payload[k].data
                                      ELSE received[k] \cup payload[k].data]
      BY <2>1 DEF Delivered, Receive
    <3>3. \A k \in Keys : received[k] \in SUBSET Data /\ \A l \in DOMAIN payload : payload[l].data \in SUBSET Data
      BY <3>1 DEF RunType, Topology
    <3>4. received' \in [Keys -> SUBSET Data]
      BY <3>2, <3>3
    <3>5. missed' \in [Keys -> BOOLEAN]
      BY <2>1 DEF Delivered, Receive
    <3> QED BY <3>4, <3>5
  <2>2. CASE NotDelivered
    BY <2>2 DEF NotDelivered, Miss, RunType
  <2>3. CASE OtherPart
    BY <2>3 DEF OtherPart, RunType
  <2> QED BY <2>1, <2>2, <2>3
<1>3. RunType'
  BY <1>1, <1>2 DEF Posted, RunType
<1>4. AnnouncedOnce'
  BY <1>1 DEF AnnouncedOnce
<1>5. ~Unsent'
  BY DEF Posted, Unsent, Topologies, RunType, Parts
<1>6. \A k \in Keys : Whole(k, topology[k])'
  <2> SUFFICES ASSUME NEW k \in Keys, topology[k].inSnapshot \/ topology[k].stop
               PROVE  IF topology[k].start THEN snapshot[k] = topology[k].data
                                           ELSE missed'[k] \/ snapshot[k] = received'[k] \cup topology[k].data
    BY <1>1 DEF Whole
  <2>1. CASE Unsent
    <3>1. /\ topology[k].inSnapshot /\ ~topology[k].start /\ topology[k].data = {}
          /\ k \in DOMAIN payload /\ payload[k].inSnapshot /\ Whole(k, payload[k])
      BY <2>1 DEF SnapshotsWhole, CollectedOf
    <3>2. CASE Receive
      <4>1. missed'[k] \/ received'[k] = snapshot[k]
        BY <3>1, <3>2, ReceivedIs
      <4> QED BY <3>1, <4>1
    <3>3. CASE Miss
      <4>1. missed'[k]
        BY <3>1, <3>3 DEF Miss
      <4> QED BY <3>1, <4>1
    <3> QED BY <2>1, <3>2, <3>3 DEF Unsent, Delivered, NotDelivered, OtherPart
  <2>2. CASE ~Unsent
    <3>1. UNCHANGED <<received, missed>>
      BY <1>1, <2>2 DEF Unsent, Delivered, NotDelivered, OtherPart
    <3>2. Whole(k, topology[k])
      BY <2>2 DEF SnapshotsWhole
    <3> QED BY <3>1, <3>2 DEF Whole
  <2> QED BY <2>1, <2>2
<1> QED BY <1>1, <1>3, <1>4, <1>5, <1>6 DEF SnapshotsWhole

-------------------------------------------------------------------------------
LEMMA RunStepKeeps ==
    ASSUME RunInv, [Next]_vars
    PROVE  RunInv'
<1> USE DEF RunInv
<1>1. CASE RunBegin
  <2>1. /\ pc = "idle" /\ pc' = "check" /\ runs' = runs + 1 /\ runs < MaxRuns /\ instance' = 1 /\ told' = "nothing"
        /\ UNCHANGED <<topology, announced, snapshot, payload, part, emission, received, missed, unposted, reports>>
    BY <1>1 DEF RunBegin, checkVars, postVars
  <2>2. runs' \in 0..MaxRuns /\ instance' \in 1..NInstances
    BY <2>1, CheckRunAssumption DEF RunType
  <2>3. RunType'
    BY <2>1, <2>2 DEF RunType
  <2>4. AnnouncedOnce'
    BY <2>1 DEF AnnouncedOnce
  <2>5. SnapshotsWhole'
    BY <2>1 DEF SnapshotsWhole, Unsent, Whole
  <2> QED BY <2>3, <2>4, <2>5
<1>2. CASE CheckReturns
  <2>1. EndsOrGoesOn
    BY <1>2, InstanceGoesOn DEF CheckReturns
  <2>2. UNCHANGED <<runs, topology, announced, snapshot, payload, told, part, emission, received, missed, unposted, reports>>
    BY <1>2 DEF CheckReturns, InstanceEnds, checkVars, postVars
  <2>3. RunType'
    BY <2>1, <2>2 DEF RunType, EndsOrGoesOn
  <2>4. AnnouncedOnce'
    BY <2>2 DEF AnnouncedOnce
  <2>5. SnapshotsWhole'
    BY <2>1, <2>2 DEF SnapshotsWhole, Unsent, Whole, EndsOrGoesOn
  <2> QED BY <2>3, <2>4, <2>5
<1>3. CASE \E k \in Keys : Calls(k)
  BY <1>3, CallsKeep
<1>4. CASE CollectTopology
  BY <1>4, CollectKeeps
<1>5. CASE Post \/ PostNothing \/ PostRaises
  BY <1>5, PostIs, PostKeeps
<1>6. CASE Commit
  <2>1. /\ pc = "commit" /\ pc' = "idle" /\ told' \in {"success", "failure"} /\ payload' = <<>> /\ part' = 0
        /\ UNCHANGED <<runs, instance, topology, announced, snapshot, emission, received, missed, unposted, reports>>
    BY <1>6 DEF Commit, Commitment, checkVars
  <2>2. DOMAIN payload' = {} /\ payload' \in [DOMAIN payload' -> Topology]
    BY <2>1
  <2>3. part' \in 0..Parts
    BY <2>1 DEF Parts
  <2>4. RunType'
    BY <2>1, <2>2, <2>3 DEF RunType
  <2>5. AnnouncedOnce'
    BY <2>1 DEF AnnouncedOnce
  <2>6. SnapshotsWhole'
    BY <2>1 DEF SnapshotsWhole, Unsent, Whole
  <2> QED BY <2>4, <2>5, <2>6
<1>7. CASE UNCHANGED vars
  <2>1. UNCHANGED <<pc, runs, instance, topology, announced, snapshot, payload, told, part, emission, received, missed,
                    unposted, reports>>
    BY <1>7 DEF vars, checkVars, postVars
  <2>2. RunType'
    BY <2>1 DEF RunType
  <2>3. AnnouncedOnce'
    BY <2>1 DEF AnnouncedOnce
  <2>4. SnapshotsWhole'
    BY <2>1 DEF SnapshotsWhole, Unsent, Whole, CollectedOf
  <2> QED BY <2>2, <2>3, <2>4
<1> QED BY <1>1, <1>2, <1>3, <1>4, <1>5, <1>6, <1>7 DEF Next

\* What one step has to do for SnapshotComplete.
SnapshotStep ==
    \A k \in DOMAIN payload :
        Post /\ part = Topologies /\ payload[k].stop /\ ~missed'[k] => received'[k] = snapshot[k]

LEMMA RunInvMeansStep ==
    ASSUME RunInv
    PROVE  SnapshotStep
<1> SUFFICES ASSUME NEW k \in DOMAIN payload, Post, part = Topologies, payload[k].stop, ~missed'[k]
             PROVE  received'[k] = snapshot[k]
  BY Zenon DEF SnapshotStep
<1>1. Unsent /\ Receive
  BY DEF Post, Posting, Delivery, Unsent
<1>2. Whole(k, payload[k])
  BY <1>1 DEF RunInv, SnapshotsWhole
<1> QED BY <1>1, <1>2, ReceivedIs DEF RunInv

LEMMA RunInvMeansOnce ==
    ASSUME RunInv
    PROVE  ReportedOnce
<1>1. TypeOK
  <2>1. reports \in [Data -> Nat]
    BY DEF RunInv, AnnouncedOnce
  <2> QED BY <2>1 DEF RunInv, RunType, TypeOK
<1>2. \A d \in Data : reports[d] <= 1
  BY DEF RunInv, AnnouncedOnce
<1> QED BY <1>1, <1>2 DEF ReportedOnce

\* For any keys, instances, data and runs: what a check announces is in one payload at
\* most, and a receiver that missed no part of a snapshot has all of it when it ends.
THEOREM TopologyCorrect == Spec => TopologyDelivered
<1>1. Init => RunInv
  BY RunInvInitially
<1>2. RunInv /\ [Next]_vars => RunInv'
  BY RunStepKeeps
<1>3. RunInv => ReportedOnce
  BY RunInvMeansOnce
<1>4. Spec => []RunInv
  BY <1>1, <1>2, PTL DEF Spec
<1>5. RunInv /\ [Next]_vars => [SnapshotStep]_vars
  BY RunInvMeansStep
<1>6. Spec => [][SnapshotStep]_vars
  BY <1>4, <1>5, PTL DEF Spec
<1>7. Spec => SnapshotComplete
  BY <1>6 DEF SnapshotComplete, SnapshotStep
<1> QED BY <1>3, <1>4, <1>7, PTL DEF TopologyDelivered
=============================================================================
