SPECIFICATION MCSpec
CONSTANTS
    \* Two topologies of a check with two instances, and three runs.
    k1 = k1
    k2 = k2
    Keys <- MCKeys
    NInstances = 2
    MaxData = 3
    MaxRuns = 3
    \* Two checks, one of which is a JMX check, in two places.
    LoadNames = {"nagios", "jmx"}
    Nagios = "nagios"
    JmxNames = {"jmx"}
    NPlaces = 2
    Disks <- CheckDisks
    \* Two JMX checks, whose configuration changes once, and two ends of a process.
    JmxChecks = {"tomcat", "solr"}
    FileChecks <- JmxFiles
    SdJmxEnable = TRUE
    PipeCapacity = 1
    MaxChanges = 1
    MaxDeaths = 2
    \* Two containers, the templates of three checks, one of which has no class.
    Boxes = {"a", "b"}
    Settings <- AgentSettings
    Facts <- ContainerFacts
    Sources <- TemplateSources
    NoClass = {"z"}
    MaxPasses = 2
    \* Two pods and two services.
    KubePods = {"p1", "p2"}
    Labels <- PodLabels
    KubeServiceIds = {"s1", "s2"}
    Selectors <- ServiceSelectors
    Max403 = 1
    InitRetries = 1
    MaxKubeEvents = 2
    MaxFailures = 1
    \* A raw counter of two disks, and six queries.
    WmiObjects = {"c", "d"}
    IsRaw = TRUE
    TagBy = TRUE
    CounterKind = "interval"
    MaxQueries = 6
    \* Two lines, a rotation, truncation or removal, and three checks.
    CrcSize = 2
    LineKinds = {"counter", "event"}
    Looks = {"a", "b"}
    MaxLines = 2
    MaxUpheavals = 1
    MaxChecks = 3
    \* Three components and one that is excluded, and three relations.
    ComponentIds = {"a", "b", "c", "x"}
    RelationIds = {"r", "s", "t"}
    ExcludedIds = {"x"}
    NameLabels <- UcmdbNames
    TreeLabels <- UcmdbTrees
    MinGroupSize = 2
    Dumps <- UcmdbDumps
    \* A histogram with a mapping and a gauge with a method, polled twice.
    Families = {"h", "g"}
    MappedNames = {"h"}
    HandledNames = {"g"}
    IgnoredNames = {}
    TypeOverrides <- NoOverrides
    SendBuckets = TRUE
    Expositions <- TwoFamilies
    MaxPolls = 2
    \* Two containers, one of an ECS task, and an event that is not collected.
    Containers = {"a", "b"}
    Tasks = {"a"}
    EcsUrls <- GatewayThenHost
    DockerRetries = 1
    RetryInterval = 0
    MaxSeconds = 1
    MaxDockerEvents = 3
    MaxTagFaults = 1
    \* Two images in a configuration store of each kind, and four writes.
    StoreImages <- ImagesInOrder
    StoreParams <- ParamsInOrder
    MaxWrites = 4
INVARIANTS
    LoadSound
    JmxHasConfigs
    OwnConfigs
    ServicesFollow
    SamplesAdvance
    LinesFollowed
    DumpSound
    FamiliesWhole
    TagsFollow
    ChangesNoticed
PROPERTIES
    TopologyDelivered
SYMMETRY KeySymmetry
\* What is to come is bounded.
CHECK_DEADLOCK FALSE
