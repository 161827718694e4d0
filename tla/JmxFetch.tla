---- MODULE JmxFetch ----
(***************************************************************************)
(* JMX checks found by service discovery: the collector writes their       *)
(* configurations to a named pipe (agent.py, config.py), and a java        *)
(* process that supervisor looks after reads them (jmxfetch.py,            *)
(* daemon.py).  Neither process sees the other come and go but through the *)
(* state that supervisor reports and the launch file of the java process.  *)
(***************************************************************************)
EXTENDS Naturals, Sequences, FiniteSets

CONSTANTS
    JmxChecks,      \* names of JMX checks
    FileChecks,     \* the JMX checks of conf.d
    SdJmxEnable,    \* sd_jmx_enable
    PipeCapacity,   \* configurations that fit in the pipe
    MaxChanges,     \* bound on the changes of the configurations
    MaxDeaths       \* bound on the ends of either process

AllChecks == "all"

ASSUME JmxAssumption ==
    /\ IsFiniteSet(JmxChecks) /\ AllChecks \notin JmxChecks
    \* What _is_jmx_check() looks at: how an instance connects, if all it needs for
    \* that is there, its 'conf' section, and the jars.
    /\ FileChecks \subseteq
          [connect : {"process", "url", "host", "no instance"}, complete : BOOLEAN,
           conf : {"none", "good", "bad"}, toolsJar : {"none", "file", "missing"},
           customJars : {"none", "files", "missing"}]
    /\ SdJmxEnable \in BOOLEAN
    /\ PipeCapacity \in Nat \ {0} /\ MaxChanges \in Nat /\ MaxDeaths \in Nat

VARIABLES
    template,       \* what service discovery has for each check: 0 is nothing
    reload,         \* the checks to reload; AllChecks is a full reload
    asked,          \* what service discovery asks to reload after this run
    jmxPc,          \* collector: "boot", "top", "relaunch", "write", "collect" or "gone"
    writing,        \* what it is writing: configurations, and where it goes on
    lastPiped,      \* last_jmx_piped is set
    launchNewer,    \* the launch file is younger than last_jmx_piped
    sdPipe,         \* the pipe
    process,        \* jmxfetch in supervisor: "stopped", "starting", "running", "exited"
    held,           \* the configurations the java process runs
    statusFile,     \* the checks that jmx_status_python.yaml calls invalid
    changes, deaths,
    unsent,         \* history: checks whose configuration could not be sent
    shadowed        \* history: checks that were left out of the first configurations
                    \* that a new java process was sent

collectorVars == <<jmxPc, writing, lastPiped>>
javaVars == <<process, held, statusFile>>
boundVars == <<changes, deaths>>
jmxVars == <<template, reload, asked, collectorVars, launchNewer, sdPipe, javaVars, boundVars,
            unsent, shadowed>>

NoConfigs == [c \in {} |-> 0]
NotWriting == [configs |-> NoConfigs, then |-> "top"]

JmxInit ==
    /\ template \in [JmxChecks -> 0..1]
    /\ reload = {} /\ asked = {} /\ jmxPc = "boot" /\ writing = NotWriting
    /\ lastPiped = FALSE /\ launchNewer = FALSE /\ sdPipe = <<>>
    /\ process = "stopped" /\ held = NoConfigs /\ statusFile = {}
    /\ changes = 0 /\ deaths = 0
    /\ unsent = JmxChecks /\ shadowed = {}

\* Mutant: only a call without names asks for all of them.
GeneratedByName(names) ==
    LET chosen == IF names = {} THEN JmxChecks ELSE names \intersect JmxChecks
    IN  [c \in {n \in chosen : template[n] # 0} |-> template[c]]
\* generate_jmx_configs(): no names stand for all of them.
Generated(names) ==
    LET chosen == IF names = {} \/ names = {AllChecks} THEN JmxChecks ELSE names
    IN  [c \in {n \in chosen : template[n] # 0} |-> template[c]]

(***************************************************************************)
(* _submit_jmx_service_discovery()                                         *)
(***************************************************************************)
Restartable == process \in {"stopped", "exited"}

\* Configurations that are not sent now are not sent later either.
NotSent(configs) == unsent' = unsent \union DOMAIN configs

Submit(configs, then) ==
    /\ jmxPc' = "write"
    /\ writing' = [configs |-> configs, then |-> then]
    /\ process' = IF Restartable THEN "starting" ELSE process
    /\ UNCHANGED <<template, reload, asked, lastPiped, launchNewer, sdPipe, held, statusFile,
                   boundVars, unsent, shadowed>>

\* Supervisor does not say how jmxfetch is.
CannotSubmit(configs, then) ==
    /\ jmxPc' = then
    /\ NotSent(configs)
    /\ UNCHANGED <<template, reload, asked, writing, lastPiped, launchNewer, sdPipe, javaVars, boundVars, shadowed>>

\* It cannot start jmxfetch, and nothing in the collector catches that.
CannotStart ==
    /\ Restartable
    /\ jmxPc' = "gone"
    /\ UNCHANGED <<template, reload, asked, writing, lastPiped, launchNewer, sdPipe, javaVars,
                   boundVars, unsent, shadowed>>

SubmitOr(configs, then) ==
    \/ Submit(configs, then)
    \/ CannotSubmit(configs, then)
    \/ CannotStart

\* The write waits for room in the pipe.
Piped ==
    /\ lastPiped' = TRUE
    /\ launchNewer' = FALSE
\* A java process that has not been sent everything will not be, from now on.
Shadowed ==
    IF launchNewer THEN {n \in JmxChecks : template[n] # 0} \ DOMAIN writing.configs ELSE {}

Write ==
    /\ jmxPc = "write" /\ Len(sdPipe) < PipeCapacity
    /\ sdPipe' = Append(sdPipe, writing.configs)
    /\ Piped
    /\ unsent' = unsent \ DOMAIN writing.configs
    /\ shadowed' = (shadowed \ DOMAIN writing.configs) \union Shadowed
    /\ jmxPc' = writing.then
    /\ writing' = NotWriting
    /\ UNCHANGED <<template, reload, asked, javaVars, boundVars>>

(***************************************************************************)
(* The collector: Agent.run(), reload_configs()                            *)
(***************************************************************************)
Skip(to) ==
    /\ jmxPc' = to
    /\ UNCHANGED <<template, reload, asked, writing, lastPiped, launchNewer, sdPipe, javaVars,
                   boundVars, unsent, shadowed>>

Boot ==
    /\ jmxPc = "boot"
    /\ IF Generated({}) = NoConfigs THEN Skip("top") ELSE SubmitOr(Generated({}), "top")

\* After a full reload the launch file is not looked at.
AfterReload == IF reload = {AllChecks} THEN "collect" ELSE "relaunch"

Reload ==
    /\ jmxPc = "top" /\ reload # {}
    /\ IF Generated(reload) = NoConfigs THEN Skip(AfterReload)
       ELSE SubmitOr(Generated(reload), AfterReload)

NothingToReload ==
    /\ jmxPc = "top" /\ reload = {}
    /\ Skip("relaunch")

\* "JMXFetch restarts should prompt re-piping *all* JMX configs"
RepipeDue == lastPiped /\ launchNewer

\* Here all that goes wrong is caught, and tried again in the next run.
CheckRelaunch ==
    /\ jmxPc = "relaunch"
    /\ \/ ~RepipeDue /\ Skip("collect")
       \/ RepipeDue /\ Skip("collect")
       \/ /\ RepipeDue /\ Generated({}) # NoConfigs
          /\ Submit(Generated({}), "collect")

\* Collector.run(), then reload_configs_flag is taken from service discovery.
Collect ==
    /\ jmxPc = "collect"
    /\ reload' = asked /\ asked' = {}
    /\ jmxPc' = "top"
    /\ UNCHANGED <<template, writing, lastPiped, launchNewer, sdPipe, javaVars, boundVars, unsent, shadowed>>

\* A container starts or stops, or a template changes: service discovery names the
\* checks, or asks for all of them.
AlsoAsked(n) == IF asked = {AllChecks} THEN asked ELSE asked \union {n}
TemplateChanges(n) ==
    /\ changes < MaxChanges
    /\ changes' = changes + 1
    /\ template' \in {[template EXCEPT ![n] = v] : v \in {0, changes + 2}}
    /\ asked' \in {AlsoAsked(n), {AllChecks}}
    /\ UNCHANGED <<reload, collectorVars, launchNewer, sdPipe, javaVars, deaths, unsent, shadowed>>

\* The watchdog kills a collector that waits for the pipe; supervisor starts it again,
\* as it does one that crashed.  The pipe keeps its content only while java has it open.
CollectorRestarts ==
    /\ deaths < MaxDeaths /\ jmxPc \in {"write", "gone"}
    /\ deaths' = deaths + 1
    /\ jmxPc' = "boot" /\ writing' = NotWriting /\ lastPiped' = FALSE
    /\ reload' = {} /\ asked' = {}
    /\ sdPipe' = IF process = "running" THEN sdPipe ELSE <<>>
    /\ unsent' = {n \in JmxChecks : template[n] # 0} /\ shadowed' = {}
    /\ UNCHANGED <<template, launchNewer, javaVars, changes>>

(***************************************************************************)
(* jmxfetch.py, and the java process it waits for                          *)
(***************************************************************************)
Valid(check) ==
    /\ check.connect # "no instance"
    /\ check.connect = "process" \/ check.complete
    /\ check.conf # "bad"
    /\ check.connect = "process" => check.toolsJar # "none"
    /\ check.toolsJar # "missing" /\ check.customJars # "missing"

\* get_configuration()
JmxFileChecks == {check \in FileChecks : Valid(check)}
InvalidChecks == FileChecks \ JmxFileChecks

\* JMXFetch.configure() and run(): the status file is removed, the invalid checks of
\* conf.d are written to a new one.
Configure == statusFile' = InvalidChecks
ShouldRun == JmxFileChecks # {} \/ SdJmxEnable

JavaStarts ==
    /\ process = "starting"
    /\ Configure
    /\ IF ShouldRun THEN process' = "running" /\ launchNewer' = TRUE
                    ELSE process' = "exited" /\ launchNewer' = launchNewer
    /\ held' = NoConfigs
    /\ UNCHANGED <<template, reload, asked, collectorVars, sdPipe, boundVars, unsent, shadowed>>

\* No java in the path: the checks of conf.d are called invalid, and no others.
JavaMissing ==
    /\ process = "starting" /\ deaths < MaxDeaths
    /\ deaths' = deaths + 1
    /\ statusFile' = JmxFileChecks
    /\ process' = "exited"
    /\ UNCHANGED <<template, reload, asked, collectorVars, launchNewer, sdPipe, held, changes, unsent, shadowed>>

\* A later configuration of a check takes the place of an earlier one.
JavaReads ==
    /\ process = "running" /\ sdPipe # <<>>
    /\ held' = [n \in DOMAIN held \union DOMAIN Head(sdPipe) |->
                    IF n \in DOMAIN Head(sdPipe) THEN Head(sdPipe)[n] ELSE held[n]]
    /\ sdPipe' = Tail(sdPipe)
    /\ UNCHANGED <<template, reload, asked, collectorVars, launchNewer, process, statusFile,
                   boundVars, unsent, shadowed>>

\* ProcessRunner.execute() returns the exit code; supervisor starts it again or not.
JavaDies ==
    /\ process = "running" /\ deaths < MaxDeaths
    /\ deaths' = deaths + 1
    /\ process' \in {"exited", "starting"}
    /\ held' = NoConfigs
    /\ UNCHANGED <<template, reload, asked, collectorVars, launchNewer, sdPipe, statusFile, changes, unsent, shadowed>>

CollectorStep ==
    Boot \/ Write \/ Reload \/ NothingToReload \/ CheckRelaunch \/ Collect
JavaStep == JavaStarts \/ JavaMissing \/ JavaReads \/ JavaDies

JmxNext ==
    \/ CollectorStep \/ JavaStep \/ CollectorRestarts
    \/ \E n \in JmxChecks : TemplateChanges(n)

JmxSpec == JmxInit /\ [][JmxNext]_jmxVars

----
Changed(n) == asked \intersect {n, AllChecks} # {}
Known(n) == n \in DOMAIN held /\ held[n] = template[n]
Drained == jmxPc = "collect" /\ process = "running" /\ sdPipe = <<>>
UpToDate == lastPiped /\ ~launchNewer

\* A java process that has read all it was sent runs the newest configuration of every
\* check that service discovery has one for, unless it could not be sent or the first
\* thing a new java process was sent was the reload of other checks.
JmxHasConfigs ==
    Drained /\ UpToDate =>
        \A n \in JmxChecks : template[n] # 0 /\ ~Changed(n) /\ n \notin unsent \union shadowed => Known(n)

\* The comment of agent.py:328: when the collector has looked at the launch file, the
\* java process has been sent all configurations.
RestartRepipesAll ==
    Drained /\ UpToDate =>
        \A n \in JmxChecks : template[n] # 0 /\ ~Changed(n) /\ n \notin unsent => n \in DOMAIN held
====
