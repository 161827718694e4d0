---------------------------- MODULE ContainerTags ----------------------------
(* Tags of containers from their orchestrator (utils/orchestrator), cached     *)
(* until docker says that the container died: DockerUtil.get_events()          *)
(* (utils/dockerutil.py) collects the events of a window of whole seconds.     *)
(* Who asks for tags, and passes the events on, are service discovery and the  *)
(* docker check.                                                               *)
EXTENDS Naturals, Sequences, FiniteSets

CONSTANTS
    Containers,
    Tasks,          \* the containers of ECS tasks
    EcsUrls,        \* the URLs where the ECS agent may be, in the order they are tried
    DockerRetries,  \* init_retries
    RetryInterval,  \* init_retry_interval
    MaxSeconds, MaxDockerEvents, MaxTagFaults

ASSUME TagsAssumption ==
    /\ Tasks \subseteq Containers
    /\ DockerRetries \in Nat /\ RetryInterval \in Nat
    /\ MaxSeconds \in Nat /\ MaxDockerEvents \in Nat /\ MaxTagFaults \in Nat

VARIABLES
    up,             \* the containers that run
    listed,         \* those the ECS agent lists with their task
    dockerLog,      \* what happened to containers: the container, what and when
    dockerUp,       \* docker answers
    second, tagFaults,
    client, leftRetries, lastRetry,     \* _client is set, left_init_retries, last_init_retry
    since,          \* _latest_event_collection_ts
    detected,       \* has_detected(): Mesos and ECS, if docker was there
    agentUrl,       \* the ECS agent was found
    mesosCache,     \* _container_tags_cache: the containers, whose tags do not change
    ecsCache,       \* that of ECS: a function of them
    ecsTags,        \* ecs_tags, likewise
    collected,      \* history: the events that were
    lostEvents,     \* history: those whose collection failed
    askedEarly,     \* history: containers asked for while their task was not listed
    renewed         \* history: containers cached when they had died

dockerVars == <<up, listed, dockerLog, dockerUp, second>>
dockerClientVars == <<client, leftRetries, lastRetry>>
cacheVars == <<mesosCache, ecsCache, ecsTags, renewed, askedEarly>>
tagVars == <<dockerVars, tagFaults, dockerClientVars, since, detected, agentUrl, cacheVars,
             collected, lostEvents>>

NoTags == [c \in {} |-> "none"]
WithTags(cache, c, tags) == [d \in DOMAIN cache \cup {c} |-> IF d = c THEN tags ELSE cache[d]]
WithoutTags(cache, cs) == [d \in DOMAIN cache \ cs |-> cache[d]]

TagFault ==
    /\ tagFaults < MaxTagFaults
    /\ tagFaults' = tagFaults + 1

-------------------------------------------------------------------------------
(* MetadataCollector.reset(), once when it is made: without docker, nothing is *)
(* detected.  _try_urls() takes the first URL that answers as it should.       *)
Detected(answers) == \E i \in DOMAIN EcsUrls : answers[i] = "valid"

TagsInit ==
    /\ up = {} /\ listed = {} /\ dockerLog = <<>> /\ second = 0 /\ tagFaults = 0
    /\ dockerUp \in BOOLEAN
    /\ client = dockerUp /\ leftRetries = DockerRetries /\ lastRetry = 0
    /\ since = 0
    /\ detected = dockerUp
    /\ agentUrl \in {Detected(a) : a \in [DOMAIN EcsUrls -> {"valid", "other", "error"}]}
    /\ mesosCache = {} /\ ecsCache = NoTags /\ ecsTags = NoTags
    /\ collected = {} /\ lostEvents = {} /\ askedEarly = {} /\ renewed = {}

-------------------------------------------------------------------------------
(* DockerUtil                                                                  *)
\* client: it is tried so often, and not again within the interval.
TryClient ==
    /\ ~client /\ leftRetries > 0
    /\ second > lastRetry + RetryInterval
    /\ lastRetry' = second
    /\ leftRetries' = leftRetries - 1
    /\ client' = dockerUp
    /\ UNCHANGED <<dockerVars, tagFaults, since, detected, agentUrl, cacheVars,
                   collected, lostEvents>>

\* Mutant: What happens later in the same second is not asked for.
AfterNow == second + 1
NextSince == second
Window == {i \in DOMAIN dockerLog : dockerLog[i].at \in since .. second}

\* invalidate_cache(): of the base class, and of the cache that ECS has beside it.
Died(window) == {dockerLog[i].container : i \in {j \in window : dockerLog[j].what = "die"}}
Invalidate(cs) ==
    /\ mesosCache' = mesosCache \ cs
    /\ ecsCache' = WithoutTags(ecsCache, cs) /\ ecsTags' = WithoutTags(ecsTags, cs)
    /\ renewed' = renewed \ cs /\ askedEarly' = askedEarly \ cs

\* The start of the next window is set before the events are read.
GetEvents ==
    /\ client /\ dockerUp
    /\ since' = NextSince
    /\ \/ /\ collected' = collected \cup Window
          /\ Invalidate(Died(Window))
          /\ UNCHANGED <<lostEvents, tagFaults>>
       \/ /\ TagFault
          /\ lostEvents' = lostEvents \cup Window
          /\ UNCHANGED <<collected, cacheVars>>
    /\ UNCHANGED <<dockerVars, dockerClientVars, detected, agentUrl>>

-------------------------------------------------------------------------------
(* get_container_tags()                                                        *)
\* ECSUtil._populate_ecs_tags(skip_known=True)
NewlyListed == IF agentUrl THEN listed \ DOMAIN ecsTags ELSE {}
\* ECSUtil._get_cacheable_tags(): a container that is not listed has no task.
Populated(c) ==
    [d \in DOMAIN ecsTags \cup NewlyListed \cup {c} |->
        IF d \in DOMAIN ecsTags THEN ecsTags[d]
        ELSE IF d \in NewlyListed THEN "task" ELSE "none"]

\* Mesos and Nomad look at the environment of the container.
GetTags(c) ==
    /\ detected /\ c \notin DOMAIN ecsCache
    /\ mesosCache' = mesosCache \cup {c}
    /\ ecsTags' = Populated(c) /\ ecsCache' = WithTags(ecsCache, c, Populated(c)[c])
    /\ renewed' = renewed \cup (((DOMAIN Populated(c) \ DOMAIN ecsTags) \cup {c}) \ up)
    /\ askedEarly' = askedEarly \cup ({c} \ listed)
    /\ UNCHANGED <<dockerVars, tagFaults, dockerClientVars, since, detected, agentUrl, collected, lostEvents>>

\* The ECS agent does not answer: what the orchestrators before it said is kept.
EcsFails(c) ==
    /\ detected /\ c \notin DOMAIN ecsCache /\ agentUrl
    /\ TagFault
    /\ mesosCache' = mesosCache \cup {c}
    /\ renewed' = renewed \cup ({c} \ up)
    /\ UNCHANGED <<dockerVars, dockerClientVars, since, detected, agentUrl, ecsCache, ecsTags,
                   askedEarly, collected, lostEvents>>

-------------------------------------------------------------------------------
(* Docker and the ECS agent                                                    *)
Logged(c, what) ==
    /\ Len(dockerLog) < MaxDockerEvents
    /\ dockerLog' = Append(dockerLog, [container |-> c, what |-> what, at |-> second])

WorldUnchanged ==
    UNCHANGED <<tagFaults, dockerClientVars, since, detected, agentUrl, cacheVars, collected, lostEvents>>

ContainerStarts(c) ==
    /\ c \notin up /\ Logged(c, "start")
    /\ up' = up \cup {c}
    /\ UNCHANGED <<listed, dockerUp, second>> /\ WorldUnchanged

ContainerDies(c) ==
    /\ c \in up /\ Logged(c, "die")
    /\ up' = up \ {c}
    /\ UNCHANGED <<listed, dockerUp, second>> /\ WorldUnchanged

\* A task is listed once its container has started, and for a while after it died.
TaskListed(c) ==
    /\ c \in Tasks
    /\ listed' = IF c \in listed /\ c \notin up THEN listed \ {c} ELSE listed \cup {c}
    /\ c \in up \cup listed
    /\ UNCHANGED <<up, dockerLog, dockerUp, second>> /\ WorldUnchanged

DockerComes ==
    /\ ~dockerUp
    /\ dockerUp' = TRUE
    /\ UNCHANGED <<up, listed, dockerLog, second>> /\ WorldUnchanged

SecondPasses ==
    /\ second < MaxSeconds
    /\ second' = second + 1
    /\ UNCHANGED <<up, listed, dockerLog, dockerUp>> /\ WorldUnchanged

TagsNext ==
    \/ TryClient \/ GetEvents \/ DockerComes \/ SecondPasses
    \/ \E c \in Containers :
          GetTags(c) \/ EcsFails(c) \/ ContainerStarts(c) \/ ContainerDies(c) \/ TaskListed(c)

TagsSpec == TagsInit /\ [][TagsNext]_tagVars

-------------------------------------------------------------------------------
\* No event is lost between two windows, but those whose collection failed.
EventsDelivered ==
    \A i \in DOMAIN dockerLog : dockerLog[i].at < since => i \in collected \cup lostEvents

\* The two caches of ECS agree, and a task is known unless the container was asked
\* for before its task was listed or the ECS agent was not found at first.
TasksKnown ==
    \A c \in DOMAIN ecsCache :
        /\ c \in DOMAIN ecsTags /\ ecsTags[c] = ecsCache[c]
        /\ c \in Tasks => ecsCache[c] = "task" \/ c \in askedEarly \/ ~agentUrl

\* A dead container is not cached once its end is collected, unless it was asked for,
\* or seen in the list of tasks, when it had died.
DeadForgotten ==
    \A c \in Containers \ up :
        c \in mesosCache \cup DOMAIN ecsCache \cup DOMAIN ecsTags =>
            \/ c \in renewed
            \/ \E i \in DOMAIN dockerLog \ collected :
                  dockerLog[i].container = c /\ dockerLog[i].what = "die"

\* Tags follow the containers, through the events of docker.
TagsFollow == EventsDelivered /\ TasksKnown /\ DeadForgotten
===============================================================================
