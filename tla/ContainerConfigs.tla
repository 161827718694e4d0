---- MODULE ContainerConfigs ----
(***************************************************************************)
(* get_configs() of utils/service_discovery/sd_docker_backend.py: the      *)
(* templates of each container, from its annotations, its labels, the      *)
(* store or the auto_conf files, are filled with the values and the tags   *)
(* of the container and merged by check.  Containers may go between the    *)
(* moment they are listed and the moment they are inspected.               *)
(***************************************************************************)
EXTENDS Integers, Sequences, FiniteSets, SequencesExt, FiniteSetsExt

CONSTANTS
    Boxes,          \* containers
    Settings,       \* what the agent may run on: records of SettingType
    Facts,          \* what Docker and Kubernetes know of each container
    Sources,        \* its raw templates, [kube, labels, store, auto]
    NoClass,        \* checks whose class cannot be loaded
    MaxPasses       \* bound on the calls of get_configs()

\* The platform; KubeUtil; whether there is a store of configurations; and whether some
\* pod has a container that was not created yet.
SettingType ==
    [platform : {"k8s", "rancher", "other"}, client : {"missing", "not ready", "ready"},
     withStore : BOOLEAN, waiting : BOOLEAN]

\* Raw templates: three lists, which may not have the same length.  A variable is
\* [kind, key]; an init_config is a list of variables, and so is an instance.
VarType == [kind : STRING, key : Int]
RawType == [names : Seq(STRING), inits : Seq(Seq(VarType)), instances : Seq(Seq(Seq(VarType)))]
NoRaw == [names |-> <<>>, inits |-> <<>>, instances |-> <<>>]
ConfigNames == UNION {UNION {ToSet(Sources[c][k].names) : k \in {"kube", "labels", "store", "auto"}} : c \in Boxes}

Malformed(raw) == Len(raw.names) # Len(raw.inits) \/ Len(raw.names) # Len(raw.instances)

ASSUME ConfigsAssumption ==
    /\ IsFiniteSet(Boxes) /\ MaxPasses \in Nat
    /\ Settings \subseteq SettingType
    \* The names of networks, and ports, in the order that the code gives them.
    /\ \A c \in Boxes :
          /\ IsFiniteSet(Facts[c].networks) /\ Facts[c].networks \subseteq Int
          /\ \A from \in {"ports", "exposed", "declared"} : Facts[c][from] \in Seq(Int)
          /\ \A k \in {"kube", "labels", "store", "auto"} : Sources[c][k] \in RawType
          /\ ~Malformed(Sources[c].auto)

VARIABLES
    setting,
    alive,          \* containers that Docker runs
    autoFiles,      \* checks whose auto_conf file is there
    cachedTpls,     \* the templates of the store in _TemplateCache, by container
    pass,           \* calls so far
    toConfigure,    \* containers of the call in progress, or of none
    podsRead,       \* the call has got the list of pods
    configs,        \* what it has found, by check
    inspected       \* history: containers it has configured or left alone

configVars == <<setting, alive, autoFiles, cachedTpls, pass, toConfigure, podsRead, configs, inspected>>

Nowhere == <<>>                 \* a variable that has no value
NoKey == -100                   \* a variable without a specifier
Word == -99                     \* a specifier that is not a number
Unfilled(vars) == [i \in DOMAIN vars |-> [var |-> vars[i], value |-> Nowhere]]
NoInit == <<[var |-> [kind |-> "None", key |-> NoKey], value |-> Nowhere]>>
NoConfig == [known |-> FALSE, init |-> NoInit, instances |-> <<>>]

\* The templates of a list, each at the place it has: the check, its init_config and its
\* instances, to be filled.
Raw(list, raw) ==
    [p \in {list} \X (DOMAIN raw.names) \X {0} |->
        [check |-> raw.names[p[2]], init |-> Unfilled(raw.inits[p[2]]),
         instances |-> [k \in DOMAIN raw.instances[p[2]] |-> Unfilled(raw.instances[p[2]][k])]]]
Shortest(raw) ==
    LET n == Min({Len(raw.names), Len(raw.inits), Len(raw.instances)})
    IN  [raw EXCEPT !.names = SubSeq(@, 1, n)]

ConfigsInit ==
    /\ setting \in Settings
    /\ alive \in {S \in SUBSET Boxes : S # {}} /\ autoFiles = ConfigNames
    /\ cachedTpls = [c \in Boxes |-> IF Malformed(Sources[c].store) THEN <<>> ELSE Raw(1, Sources[c].store)]
    /\ pass = 0 /\ toConfigure = {} /\ podsRead = FALSE
    /\ configs = [n \in ConfigNames |-> NoConfig] /\ inspected = {}

(***************************************************************************)
(* The values of template variables                                        *)
(***************************************************************************)
OnKube == setting.platform = "k8s"
PodKnown(c) == OnKube /\ podsRead /\ Facts[c].pod
There(c) == c \in alive

\* _get_fallback_ip(): the bridge, which is 0, or the last network by name.
FallbackNetwork(nets) == IF 0 \in nets THEN 0 ELSE Max(nets)
NetworkOf(nets, key) == IF key \in nets THEN key ELSE FallbackNetwork(nets)

\* A container that is gone has no Id, and nor has one that was not created yet: its pod
\* is the one that is found.
HostAddress(c, key) ==
    LET nets == Facts[c].networks
    IN  CASE ~There(c) /\ OnKube /\ podsRead /\ setting.waiting -> <<"another", "pod", 0>>
          [] There(c) /\ nets # {} -> <<c, "network", NetworkOf(nets, key)>>
          [] There(c) /\ nets = {} /\ Facts[c].ip -> <<c, "ip", 0>>
          [] There(c) /\ nets = {} /\ ~Facts[c].ip /\ PodKnown(c) -> <<c, "pod", 0>>
          [] There(c) /\ nets = {} /\ ~Facts[c].ip /\ setting.platform = "rancher" /\ Facts[c].label -> <<c, "label", 0>>
          [] OTHER -> Nowhere

OpenPorts(c) ==
    IF Facts[c].ports # <<>> THEN Facts[c].ports
    ELSE IF Facts[c].exposed # <<>> THEN Facts[c].exposed
    ELSE IF PodKnown(c) THEN Facts[c].declared ELSE <<>>
\* Sorted: as many are below the one at a place as there are places before it.
PortsOf(c) ==
    LET ports == OpenPorts(c)
    IN  [i \in DOMAIN ports |->
            CHOOSE port \in ToSet(ports) : /\ Cardinality({j \in DOMAIN ports : ports[j] < port}) < i
                                           /\ i <= Cardinality({j \in DOMAIN ports : ports[j] <= port})]

\* A negative index counts from the end, as it does in Python; a port that is open
\* for two protocols is there twice.
PortAt(ports, key) ==
    LET n == Len(ports)
    IN  IF key \in 0..(n - 1) THEN ports[key + 1]
        ELSE IF key \in (-n)..(-1) THEN ports[n + key + 1]
        ELSE ports[n]

AlwaysThere == {"container-name", "tags"}

ValueOf(c, var) ==
    CASE var.kind = "host" -> HostAddress(c, var.key)
      [] var.kind = "port" /\ There(c) /\ PortsOf(c) # <<>> -> <<c, "port", PortAt(PortsOf(c), var.key)>>
      [] var.kind = "pid" /\ There(c) -> <<c, "pid", 0>>
      [] var.kind \in AlwaysThere -> <<c, var.kind, 0>>
      [] OTHER -> Nowhere

\* get_tags() asks a client that is missing, and fails.
TagsFail == OnKube /\ setting.client = "missing"
BoxTags(c) ==
    (IF There(c) THEN {<<c, "image">>} ELSE {})
        \cup (IF OnKube /\ setting.client = "ready"
              THEN IF PodKnown(c) THEN {<<c, "labels">>, <<c, "namespace">>} ELSE {<<c, "no namespace">>}
              ELSE {})
        \cup (IF setting.platform = "rancher" /\ There(c) /\ Facts[c].label THEN {<<c, "service">>} ELSE {})

(***************************************************************************)
(* The templates of a container: get_check_tpls(), _get_auto_config()      *)
(***************************************************************************)
HasClass(n) == n \notin NoClass

\* One template for each instance of the file.
AutoTemplates(c) ==
    LET file == Sources[c].auto
        usable == {i \in DOMAIN file.names : HasClass(file.names[i])}
    IN  [p \in UNION {{2} \X {i} \X (DOMAIN file.instances[i]) : i \in usable} |->
            [Raw(2, file)[<<2, p[2], 0>>] EXCEPT !.instances = <<@[p[3]]>>]]

\* The file was there when the agent started, and is read again.
AutoFails(c) == \E n \in ToSet(Sources[c].auto.names) : HasClass(n) /\ n \notin autoFiles

FromKube(c) == PodKnown(c) /\ Sources[c].kube # NoRaw
FromLabels(c) == ~FromKube(c) /\ Sources[c].labels # NoRaw
FromAuto(c) == ~FromKube(c) /\ ~FromLabels(c)

\* _populate_auto_conf(): a check whose name came before is left out.  The others have a
\* place each.
KeptChecks(file) == {i \in DOMAIN file.names : \A j \in DOMAIN file.names : j < i => file.names[j] # file.names[i]}
PlaceOf(file, i) == Cardinality({j \in KeptChecks(file) : j <= i})

\* The list of instances is a place of each check, but for the first one: each of its
\* instances, or an empty one, takes up a place and moves those that follow.
Unwrapped(file) == IF file.instances[1] = <<>> THEN <<<<>>>> ELSE file.instances[1]
InstancesAt(file, place) ==
    LET first == Unwrapped(file)
    IN  IF place <= Len(first) THEN <<first[place]>>
        ELSE file.instances[CHOOSE j \in KeptChecks(file) : PlaceOf(file, j) = place - Len(first) + 1]
AutoCached(file) ==
    [file EXCEPT !.instances = [i \in DOMAIN file.names |-> InstancesAt(file, PlaceOf(file, i))]]

\* get_templates(): an auto_conf file gives way to a template of the store for the same check.
Beside(c, file) ==
    LET auto == Raw(2, file)
        others == {p \in DOMAIN auto : /\ p[2] \in KeptChecks(file)
                                       /\ auto[p].check \notin ToSet(Sources[c].store.names)}
    IN  [p \in DOMAIN cachedTpls[c] \cup others |-> IF p \in others THEN auto[p] ELSE cachedTpls[c][p]]

StoreTemplates(c) == Beside(c, AutoCached(Sources[c].auto))

TemplatesOf(c) ==
    CASE setting.withStore -> StoreTemplates(c)
      [] ~setting.withStore /\ FromKube(c) -> Raw(1, Shortest(Sources[c].kube))
      [] ~setting.withStore /\ FromLabels(c) -> Raw(1, Shortest(Sources[c].labels))
      [] OTHER -> AutoTemplates(c)

Raises(c) ==
    \/ ~setting.withStore /\ FromAuto(c) /\ AutoFails(c)
    \/ TagsFail /\ DOMAIN TemplatesOf(c) # {}

(***************************************************************************)
(* _fill_tpl(), _render_template()                                         *)
(***************************************************************************)
Render(c, part) ==
    [i \in DOMAIN part |->
        IF part[i].value # Nowhere THEN part[i] ELSE [part[i] EXCEPT !.value = ValueOf(c, part[i].var)]]
Complete(part) == \A i \in DOMAIN part : part[i].value # Nowhere

\* An instance that lacks a value is dropped, and so is the init_config if all are.
Gives(c, tpl) ==
    IF Complete(Render(c, tpl.init)) THEN {k \in DOMAIN tpl.instances : Complete(Render(c, tpl.instances[k]))}
    ELSE {}
InitFrom(c, tpl) == IF Gives(c, tpl) = {} THEN NoInit ELSE Render(c, tpl.init)

\* The templates in the cache are copied before they are filled.
AfterCopy(c) == cachedTpls
\* Mutant: they are filled where they are, for every container with the same identifier.
AfterFill(c) ==
    [d \in Boxes |-> IF Sources[d].store # Sources[c].store THEN cachedTpls[d]
                     ELSE [p \in DOMAIN cachedTpls[d] |->
                            [cachedTpls[d][p] EXCEPT !.init = Render(c, @),
                                !.instances = [k \in DOMAIN @ |-> Render(c, @[k])]]]]
CacheAfter(c) == AfterCopy(c)

\* What the container gives to a check, template by template and instance by instance.
TemplatesFor(c, n) == {p \in DOMAIN TemplatesOf(c) : TemplatesOf(c)[p].check = n}
Given(c, n) == UNION {{p} \X Gives(c, TemplatesOf(c)[p]) : p \in TemplatesFor(c, n)}
InstancesFor(c, n) ==
    LET given == SetToSeq(Given(c, n))
    IN  [i \in DOMAIN given |-> [parts |-> Render(c, TemplatesOf(c)[given[i][1]].instances[given[i][2]]),
                                 tags |-> BoxTags(c)]]

Earlier(p, q) == p[1] < q[1] \/ (p[1] = q[1] /\ (p[2] < q[2] \/ (p[2] = q[2] /\ p[3] <= q[3])))
First(places) == CHOOSE p \in places : \A q \in places : Earlier(p, q)

\* The first init_config that was found for a check is kept, whatever it is.
Merged(c, n) ==
    IF TemplatesFor(c, n) = {} THEN configs[n]
    ELSE [known |-> TRUE,
          init |-> IF configs[n].known THEN configs[n].init
                   ELSE InitFrom(c, TemplatesOf(c)[First(TemplatesFor(c, n))]),
          instances |-> configs[n].instances \o InstancesFor(c, n)]

(***************************************************************************)
(* get_configs()                                                           *)
(***************************************************************************)
BeginPass ==
    /\ toConfigure = {} /\ pass < MaxPasses
    /\ pass' = pass + 1
    /\ toConfigure' = alive
    /\ podsRead' \in IF OnKube /\ setting.client = "ready" THEN BOOLEAN ELSE {FALSE}
    /\ configs' = [n \in ConfigNames |-> NoConfig] /\ inspected' = {}
    /\ UNCHANGED <<setting, alive, autoFiles, cachedTpls>>

ConfigureBox(c) ==
    /\ c \in toConfigure
    /\ toConfigure' = toConfigure \ {c}
    /\ IF Raises(c) THEN UNCHANGED <<configs, cachedTpls, inspected>>
       ELSE /\ configs' = [n \in ConfigNames |-> Merged(c, n)]
            /\ cachedTpls' = CacheAfter(c)
            /\ inspected' = inspected \cup {[box |-> c, there |-> There(c)]}
    /\ UNCHANGED <<setting, alive, autoFiles, pass, podsRead>>

StopBox(c) ==
    /\ c \in alive /\ alive' = alive \ {c}
    /\ UNCHANGED <<setting, autoFiles, cachedTpls, pass, toConfigure, podsRead, configs, inspected>>

RemoveAutoFile(n) ==
    /\ autoFiles' = autoFiles \ {n} /\ autoFiles' # autoFiles
    /\ UNCHANGED <<setting, alive, cachedTpls, pass, toConfigure, podsRead, configs, inspected>>

ConfigsNext ==
    \/ BeginPass
    \/ \E c \in Boxes : ConfigureBox(c) \/ StopBox(c)
    \/ \E n \in ConfigNames : RemoveAutoFile(n)

ConfigsSpec == ConfigsInit /\ [][ConfigsNext]_configVars

----
OwnValues(c, parts) == \A i \in DOMAIN parts : Head(parts[i].value) = c
InstancesOf(c, n) == {k \in DOMAIN configs[n].instances : <<c, "image">> \in configs[n].instances[k].tags}

\* The instances of the check that a container that is there should get from templates: those
\* whose variables, and those of their init_config, it has values for.
Has(c, vars) == \A i \in DOMAIN vars : ValueOf(c, vars[i].var) # Nowhere
DueFrom(c, tpl) == {k \in DOMAIN tpl.instances : Has(c, tpl.init) /\ Has(c, tpl.instances[k])}
DueOf(c, n, tpls) == UNION {{p} \X DueFrom(c, tpls[p]) : p \in {q \in DOMAIN tpls : tpls[q].check = n}}
Due(c, n) == DueOf(c, n, TemplatesOf(c))

\* The part that was filled is one of the instances that are due.
VarsOf(part) == [i \in DOMAIN part |-> part[i].var]
FilledFrom(c, n, tpls, part) ==
    \E d \in DueOf(c, n, tpls) : VarsOf(part) = VarsOf(tpls[d[1]].instances[d[2]])

\* The templates as they were written: each check of an auto_conf file has its own instances.
AsWritten(c) == IF setting.withStore THEN Beside(c, Sources[c].auto) ELSE TemplatesOf(c)

\* The cache of a store mixes up the instances of the checks of auto_conf files, if the first
\* of these has not exactly one instance.
MixedUp(c, n) ==
    /\ setting.withStore /\ n \notin ToSet(Sources[c].store.names)
    /\ Sources[c].auto.names # <<>> /\ Len(Sources[c].auto.instances[1]) # 1

\* What one container gives to a check depends on no other one: each instance is filled
\* with the values of the container whose tags it has, if that was there when it was
\* inspected; none is lost or added as others are merged, and a host is an address that
\* the container has, a port one of its ports (SDDockerBackend.get_configs).  They are the
\* instances written for the check, but for those that the cache mixes up.
OwnConfigs ==
    \A n \in ConfigNames :
        /\ \A k \in DOMAIN configs[n].instances :
              LET inst == configs[n].instances[k]
              IN  \A c \in Boxes : <<c, "image">> \in inst.tags => OwnValues(c, inst.parts)
        /\ \A i \in inspected :
              LET c == i.box
              IN  i.there /\ There(c) =>
                    /\ Cardinality(InstancesOf(c, n)) = Cardinality(Due(c, n))
                    /\ ~MixedUp(c, n) =>
                          /\ Cardinality(InstancesOf(c, n)) = Cardinality(DueOf(c, n, AsWritten(c)))
                          /\ \A k \in InstancesOf(c, n) :
                                FilledFrom(c, n, AsWritten(c), configs[n].instances[k].parts)
                    /\ \A k \in InstancesOf(c, n) : \A p \in ToSet(configs[n].instances[k].parts) :
                          /\ p.value[2] = "network" =>
                                /\ p.value[3] \in Facts[c].networks
                                /\ p.var.key \in Facts[c].networks => p.value[3] = p.var.key
                          /\ p.value[2] = "port" => p.value[3] \in ToSet(OpenPorts(c))

----
(* What the comments of the code say *)

\* abstract_config_store.py:80, "auto_conf files already have a list of instances": each check
\* gets those of its own list, however many the first one has.
OwnInstances ==
    \A n \in ConfigNames : \A i \in inspected :
        i.there /\ There(i.box) =>
            Cardinality(InstancesOf(i.box, n)) = Cardinality(DueOf(i.box, n, AsWritten(i.box)))
====
