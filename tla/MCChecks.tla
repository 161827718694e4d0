-------------------------------- MODULE MCChecks --------------------------------
(* How checks are found, loaded and configured, how one runs and commits its   *)
(* topology, and what some of them keep between their runs.  These components  *)
(* share no state: a behaviour is one of one of them, and the others stay in   *)
(* an initial state.                                                           *)
EXTENDS CheckRun, CheckLoading, JmxFetch, ContainerConfigs, KubeServices,
        WmiSampler, LogTail, UcmdbDump, Prometheus, ContainerTags, StoreClients, TLC

CONSTANTS k1, k2

VARIABLE component

\* The initial states of the others.
OneDisk == CHOOSE d \in Disks : TRUE
OnePaths == CHOOSE p \in FileConfigsPaths : TRUE
OneSetting == CHOOSE s \in Settings : TRUE
OneDump == CHOOSE d \in Dumps : TRUE
OneExposition == CHOOSE e \in Expositions : TRUE

MCInit ==
    /\ component \in {"run", "loading", "jmx", "containers", "services",
                     "wmi", "tail", "ucmdb", "prometheus", "tags", "clients"}
    /\ Init
    /\ LoadInit /\ (component # "loading" => disk = OneDisk /\ paths = OnePaths)
    /\ JmxInit /\ (component # "jmx" => template = [c \in JmxChecks |-> 0])
    /\ ConfigsInit /\ (component # "containers" => alive = Boxes /\ setting = OneSetting)
    /\ KubeInit /\ (component # "services" => services = [u \in KubeServiceIds |-> {}])
    /\ WmiInit /\ (component # "wmi" => world = <<>>)
    /\ TailInit
    /\ UcmdbInit /\ (component # "ucmdb" => dump = OneDump)
    /\ PromInit /\ (component # "prometheus" => exposed = OneExposition)
    /\ TagsInit /\ (component # "tags" => dockerUp /\ agentUrl)
    /\ ClientsInit /\ (component # "clients" => backend = "consul")

MCNext ==
    /\ UNCHANGED component
    /\ IF component = "run" THEN Next ELSE UNCHANGED vars
    /\ IF component = "loading" THEN LoadNext ELSE UNCHANGED loadVars
    /\ IF component = "jmx" THEN JmxNext ELSE UNCHANGED jmxVars
    /\ IF component = "containers" THEN ConfigsNext ELSE UNCHANGED configVars
    /\ IF component = "services" THEN KubeNext ELSE UNCHANGED kubeVars
    /\ IF component = "wmi" THEN WmiNext ELSE UNCHANGED wmiVars
    /\ IF component = "tail" THEN TailNext ELSE UNCHANGED tailVars
    /\ IF component = "ucmdb" THEN UcmdbNext ELSE UNCHANGED ucmdbVars
    /\ IF component = "prometheus" THEN PromNext ELSE UNCHANGED promVars
    /\ IF component = "tags" THEN TagsNext ELSE UNCHANGED tagVars
    /\ IF component = "clients" THEN ClientsNext ELSE UNCHANGED storeClientVars

MCSpec ==
    MCInit /\ [][MCNext]_<<component, vars, loadVars, jmxVars, configVars, kubeVars,
                          wmiVars, tailVars, ucmdbVars, promVars, tagVars, storeClientVars>>

-------------------------------------------------------------------------------
\* CheckRun: two topologies of a check, which nothing tells apart.
MCKeys == {k1, k2}
KeySymmetry == Permutations(MCKeys)

\* CheckLoading: everything that may be on disk for one check, beside a sound one.
Places == [1..2 -> {"nothing", "no class", "import error", "init error", "class"}]
AnyOnDisk ==
    [yaml : {"none", "valid", "invalid"}, default : {"none", "valid", "invalid"},
     discovered : BOOLEAN, oldKeys : BOOLEAN, places : Places]
SoundOnDisk ==
    [yaml : {"valid"}, default : {"none"}, discovered : {TRUE}, oldKeys : BOOLEAN,
     places : {<<"nothing", "class">>}]
CheckDisks ==
    {[n \in LoadNames |-> IF n = one THEN any ELSE sound] :
        one \in LoadNames, any \in AnyOnDisk, sound \in SoundOnDisk}

\* JmxFetch: checks that name a process, with the tools.jar of the configuration or not.
JmxFiles ==
    {[connect |-> "process", complete |-> TRUE, conf |-> "none", toolsJar |-> t, customJars |-> "none"] :
        t \in {"none", "file"}}

\* KubeServices: one pod has both labels.
PodLabels == "p1" :> {"a", "b"} @@ "p2" :> {"a"}
ServiceSelectors == {{"a"}, {"b"}}

\* ContainerConfigs: a is configured from the store, b by annotations on Kubernetes.
AgentSettings ==
    {[platform |-> p, client |-> c, withStore |-> s, waiting |-> p = "k8s"] :
        p \in {"k8s", "rancher"}, c \in {"ready", "missing"}, s \in BOOLEAN}
ContainerFacts ==
    "a" :> [networks |-> {1, 2}, ip |-> FALSE, pod |-> TRUE, label |-> TRUE,
            ports |-> <<>>, exposed |-> <<>>, declared |-> <<81, 80>>]
    @@ "b" :> [networks |-> {}, ip |-> FALSE, pod |-> TRUE, label |-> FALSE,
               ports |-> <<53, 53, 8>>, exposed |-> <<9>>, declared |-> <<>>]
Var(kind, key) == [kind |-> kind, key |-> key]
OwnTemplate ==
    [names |-> <<"x", "y">>,
     inits |-> <<<<>>, <<Var("host", NoKey)>>>>,
     instances |-> <<<<<<Var("host", 1), Var("port", Word)>>, <<Var("pid", NoKey)>>>>,
                     <<<<Var("port", -1)>>>>>>]
AutoTemplate ==
    [names |-> <<"x", "z", "w">>,
     inits |-> <<<<>>, <<>>, <<Var("port", 0)>>>>,
     instances |-> <<<<<<Var("tags", NoKey)>>>>, <<<<>>>>,
                     <<<<Var("other", NoKey)>>, <<Var("container-name", NoKey)>>>>>>]
\* The same check twice; the first has two instances.
TwoInstances ==
    [names |-> <<"z", "w", "z">>,
     inits |-> <<<<>>, <<Var("port", 0)>>, <<>>>>,
     instances |-> <<<<<<Var("tags", NoKey)>>, <<Var("host", NoKey)>>>>,
                     <<<<Var("container-name", NoKey)>>, <<>>, <<>>>>,
                     <<<<>>>>>>]
TemplateSources ==
    [c \in Boxes |-> [kube |-> IF c = "b" THEN OwnTemplate ELSE NoRaw, labels |-> NoRaw,
                      store |-> OwnTemplate, auto |-> IF c = "b" THEN TwoInstances ELSE AutoTemplate]]

\* UcmdbDump: three files, of which the second is an increment older than the first.
UcmdbNames == [i \in ComponentIds |-> IF i = "c" THEN "named" ELSE "none"]
UcmdbTrees == [i \in ComponentIds |-> CASE i = "a" -> "tree" [] i = "b" -> "other" [] OTHER -> "none"]
File(kind, date, says) == [kind |-> kind, date |-> date, says |-> says]
Snapshot == File("full", 2, [i \in {"a", "b", "c", "r", "s"} |-> "add"])
Increments ==
    {File("increment", 1, says) :
        says \in {"x" :> "add" @@ "t" :> "add", "a" :> "update" @@ "c" :> "delete",
                  "b" :> "unknown", "r" :> "delete" @@ "t" :> "update"}}
LastFiles == {File("increment", 3, "c" :> "add"), File("full", 4, "b" :> "delete")}
RelationEnds == [source : {"a", "b"}, target : {"b", "c", "none"}] \cup [source : {"c", "x"}, target : {"a"}]
UcmdbDumps ==
    {[files |-> {Snapshot, i, f}, ends |-> "r" :> e @@ "s" :> d @@ "t" :> [source |-> "c", target |-> "a"]] :
        i \in Increments, f \in LastFiles, e \in RelationEnds, d \in RelationEnds}

\* Prometheus: a family of any type with buckets and counts of two labels, and another.
NoOverrides == [m \in Families |-> "none"]
Type(m, type) == [what |-> "type", name |-> m, type |-> type]
OneSample(m, suffix, label, bound, value) ==
    [what |-> "sample", name |-> m, suffix |-> suffix, labels |-> label, bound |-> bound, value |-> value]
TwoFamilies ==
    {<<Type("h", t),
       OneSample("h", IF t = "histogram" THEN "bucket" ELSE "", l1, "b1", 1),
       OneSample("h", IF t = "histogram" THEN "bucket" ELSE "", l2, "b2", 2),
       OneSample("h", "count", "a", "none", 3), OneSample("h", "count", "b", "none", 6),
       OneSample("h", "sum", l2, "none", 4),
       Type("g", u), OneSample("g", "", l1, "none", 5)>> :
        t \in {"histogram", "summary", "untyped", "gauge"}, l1 \in {"a", "b"}, l2 \in {"a", "b"},
        u \in {"counter", "unknown"}}

\* ContainerTags: the ECS agent is at its gateway or on the host.
GatewayThenHost == <<"gateway", "localhost">>

\* StoreClients: two images with two keys each.
ImagesInOrder == <<"nginx", "redis">>
ParamsInOrder == <<"check_names", "instances">>
===============================================================================
