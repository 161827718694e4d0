------------------------------ MODULE WinService ------------------------------
(* The Windows service (win32/service.py), the counterpart of daemon.py: when  *)
(* it is made, it moves the settings of the registry to stackstate.conf        *)
(* (utils/windows_configuration.py); SvcDoRun() then starts the processes of   *)
(* the agent and restarts those that die, in one thread, until SvcStop(), in   *)
(* another, has ended them.  The threads share self.running, self.procs and    *)
(* devnull, without a lock.                                                    *)
EXTENDS Naturals, Sequences, FiniteSets

CONSTANTS
    Procs,          \* the processes, in the order of the dictionary
    JmxProc,        \* the one that has a java process of its own
    NotEnabled,     \* those the configuration does not ask for
    MaxRestarts,    \* max_restarts of each
    Timeframe,      \* _RESTART_TIMEFRAME
    Attributes,     \* config_attributes, the settings that the registry may have
    Lines,          \* those stackstate.conf has a line for
    MaxTime, MaxFaults

ProcNames == {Procs[i] : i \in DOMAIN Procs}
AttributeNames == {Attributes[i] : i \in DOMAIN Attributes}

ASSUME WinAssumption ==
    /\ Procs \in Seq(ProcNames) /\ Attributes \in Seq(AttributeNames)
    /\ Len(Procs) > 0 /\ Cardinality(ProcNames) = Len(Procs)
    /\ JmxProc \in ProcNames /\ NotEnabled \subseteq ProcNames
    /\ MaxRestarts \in [ProcNames -> Nat \ {0}]
    /\ Lines \subseteq AttributeNames
    /\ Timeframe \in Nat /\ MaxTime \in Nat /\ MaxFaults \in Nat

VARIABLES
    registry,       \* what the registry has of each setting: "value", "empty" or "missing"
    configFile,     \* the settings with a value in stackstate.conf, or Gone
    tempFile,       \* those in the file that is to replace it
    fromRegistry,   \* registry_conf
    svcPc, svcAt,   \* the service's thread, and the process it has come to
    stopPc, stopAt, \* SvcStop(), likewise
    running,        \* self.running
    devnullOpen,
    winProc,        \* each process: "none", "running" or "dead"
    enabled,        \* _enabled
    restarts,       \* _restarts: those of begun that are counted
    java,           \* the java of JmxProc, the one noted to be killed, and how many others
    exitFile,       \* the file that makes java exit
    winNow, faults,
    given,          \* history: the registry at first
    begun,          \* history: when each process was restarted
    late,           \* history: the processes started after SvcStop() began
    early           \* history: SvcStop() had begun before self.running was set

settingVars == <<registry, configFile, tempFile, fromRegistry, given>>
svcVars == <<svcPc, svcAt>>
stopVars == <<stopPc, stopAt>>
procVars == <<winProc, enabled, restarts, java, exitFile, begun, late>>
flagVars == <<running, devnullOpen, early>>
hostVars == <<winNow, faults>>
winVars == <<settingVars, svcVars, stopVars, procVars, flagVars, hostVars>>

Gone == {"gone"}

WinInit ==
    /\ registry \in [AttributeNames -> {"value", "empty", "missing"}] /\ given = registry
    /\ configFile = {} /\ tempFile = {} /\ fromRegistry = {}
    /\ svcPc = "made" /\ svcAt = 1 /\ stopPc = "idle" /\ stopAt = 1
    /\ running = FALSE /\ devnullOpen = TRUE /\ early = FALSE
    /\ winProc = [n \in ProcNames |-> "none"]
    /\ enabled = [n \in ProcNames |-> n \notin NotEnabled]
    /\ restarts = [n \in ProcNames |-> {}]
    /\ java = [own |-> FALSE, noted |-> FALSE, others |-> 0] /\ exitFile = FALSE
    /\ winNow = 0 /\ faults = 0
    /\ begun = [n \in ProcNames |-> <<>>] /\ late = {}

Fault ==
    /\ faults < MaxFaults
    /\ faults' = faults + 1

-------------------------------------------------------------------------------
(* AgentSvc.__init__(), _update_config_file()                                  *)
Settles(to) ==
    /\ svcPc' = to
    /\ UNCHANGED <<given, svcAt, stopVars, procVars, flagVars, winNow>>

\* Without stackstate.conf get_config() raises, and the service does not start.
NoConfig ==
    /\ svcPc = "made" /\ configFile = Gone
    /\ Settles("raised")
    /\ UNCHANGED <<registry, configFile, tempFile, fromRegistry, faults>>

\* get_registry_conf(): the first setting that is missing ends the reading.
ReadBefore(i) == \A j \in 1 .. i : registry[Attributes[j]] # "missing"
FromRegistry == {Attributes[i] : i \in {j \in DOMAIN Attributes :
                                          ReadBefore(j) /\ registry[Attributes[j]] = "value"}}

\* The registry is asked when the configuration has no API key of its own.
ReadRegistry ==
    /\ svcPc = "made" /\ configFile # Gone
    /\ LET asked == IF Attributes[1] \in configFile THEN {} ELSE FromRegistry IN
         /\ fromRegistry' = asked
         /\ Settles(IF asked = {} THEN "start" ELSE "copy")
    /\ UNCHANGED <<registry, configFile, tempFile, faults>>

\* update_conf_file(): lines are replaced, and none is added.
CopyConfig ==
    /\ svcPc = "copy"
    /\ tempFile' = configFile \cup (fromRegistry \cap Lines)
    /\ Settles("remove")
    /\ UNCHANGED <<registry, configFile, fromRegistry, faults>>

RemoveConfig ==
    /\ svcPc = "remove"
    /\ configFile' = Gone
    /\ Settles("rename")
    /\ UNCHANGED <<registry, tempFile, fromRegistry, faults>>

RenameConfig ==
    /\ svcPc = "rename"
    /\ configFile' = tempFile
    /\ Settles("delete")
    /\ UNCHANGED <<registry, tempFile, fromRegistry, faults>>

\* remove_registry_conf(): all settings, those that were not read included.
RemoveRegistry ==
    /\ svcPc = "delete"
    /\ registry' = [a \in AttributeNames |-> "missing"]
    /\ Settles("start")
    /\ UNCHANGED <<configFile, tempFile, fromRegistry, faults>>

\* The files cannot be copied, removed or renamed: the registry is left as it is.
ConfigNotSaved ==
    /\ svcPc \in {"copy", "remove", "rename"}
    /\ Fault
    /\ Settles("start")
    /\ UNCHANGED <<registry, configFile, tempFile, fromRegistry>>

\* The service is killed while it moves the settings, and made again.
MadeAgain ==
    /\ svcPc \in {"copy", "remove", "rename", "delete"}
    /\ Fault
    /\ Settles("made")
    /\ UNCHANGED <<registry, configFile, tempFile, fromRegistry>>

Configuring ==
    \/ NoConfig \/ ReadRegistry \/ CopyConfig \/ RemoveConfig \/ RenameConfig
    \/ RemoveRegistry \/ ConfigNotSaved \/ MadeAgain

-------------------------------------------------------------------------------
(* SvcDoRun()                                                                  *)
NextProc(then) ==
    /\ svcAt' = IF svcAt = Len(Procs) THEN 1 ELSE svcAt + 1
    /\ svcPc' = IF svcAt = Len(Procs) THEN then ELSE svcPc

\* DDProcess.start(), JMXFetchProcess.start(): with devnull closed, or for a reason
\* of the system, Popen() raises, and nothing in the service catches that.
CannotStart == IF devnullOpen THEN Fault ELSE UNCHANGED faults
Started(n, then) ==
    /\ exitFile' = IF n = JmxProc THEN FALSE ELSE exitFile
    /\ \/ /\ devnullOpen
          /\ winProc' = [winProc EXCEPT ![n] = "running"]
          /\ late' = IF stopPc = "idle" THEN late ELSE late \cup {n}
          /\ NextProc(then)
          /\ UNCHANGED faults
       \/ /\ CannotStart
          /\ svcPc' = "raised"
          /\ UNCHANGED <<winProc, late, svcAt>>
    /\ UNCHANGED java

StartProc ==
    /\ svcPc = "start"
    /\ IF enabled[Procs[svcAt]] THEN Started(Procs[svcAt], "started")
       ELSE NextProc("started") /\ UNCHANGED <<winProc, java, exitFile, late, faults>>
    /\ UNCHANGED <<settingVars, stopVars, flagVars, enabled, restarts, begun, winNow>>

SetRunning ==
    /\ svcPc = "started"
    /\ running' = TRUE
    /\ early' = (stopPc # "idle")
    /\ svcPc' = "loop"
    /\ UNCHANGED <<settingVars, svcAt, stopVars, procVars, devnullOpen, hostVars>>

LoopTest ==
    /\ svcPc = "loop"
    /\ svcPc' = IF running THEN "look" ELSE "ended"
    /\ UNCHANGED <<settingVars, svcAt, stopVars, procVars, flagVars, hostVars>>

\* _can_restart(): restarts are counted as long as they are within the timeframe.
Recent(n) == {i \in restarts[n] : begun[n][i] + Timeframe >= winNow}
\* Mutant: One restart too many.
CanRestartOnceMore(n) == Cardinality(Recent(n)) <= MaxRestarts[n]
CanRestart(n) == Cardinality(Recent(n)) < MaxRestarts[n]

Restart(n) ==
    IF CanRestart(n)
    THEN /\ restarts' = [restarts EXCEPT ![n] = Recent(n) \cup {Len(begun[n]) + 1}]
         /\ begun' = [begun EXCEPT ![n] = Append(@, winNow)]
         /\ Started(n, "loop")
         /\ UNCHANGED enabled
    ELSE /\ restarts' = [restarts EXCEPT ![n] = Recent(n)]
         /\ enabled' = [enabled EXCEPT ![n] = FALSE]
         /\ NextProc("loop")
         /\ UNCHANGED <<winProc, java, exitFile, begun, late, faults>>

LookAtProc ==
    /\ svcPc = "look"
    /\ LET n == Procs[svcAt] IN
         IF winProc[n] # "running" /\ enabled[n] THEN Restart(n)
         ELSE NextProc("loop") /\ UNCHANGED <<procVars, faults>>
    /\ UNCHANGED <<settingVars, stopVars, flagVars, winNow>>

ServiceStep == StartProc \/ SetRunning \/ LoopTest \/ LookAtProc

-------------------------------------------------------------------------------
(* SvcStop(): self._proc is looked up at each step, and SvcDoRun() may have    *)
(* put another process there.                                                  *)
StopUnchanged == UNCHANGED <<settingVars, svcVars, enabled, restarts, begun, late, early, hostVars>>
AtProc(pc) == stopPc = pc
Stopping == Procs[stopAt]
StopGoes(to) == stopPc' = to /\ stopAt' = stopAt
StopNext ==
    /\ stopAt' = IF stopAt = Len(Procs) THEN 1 ELSE stopAt + 1
    /\ stopPc' = IF stopAt = Len(Procs) THEN "close" ELSE "alive"

SvcStop ==
    /\ stopPc = "idle" /\ svcPc \in {"start", "started", "loop", "look"}
    /\ running' = FALSE
    /\ StopGoes("alive")
    /\ UNCHANGED <<winProc, java, exitFile, devnullOpen>> /\ StopUnchanged

\* stop(): a process that does not run is left alone; java is asked to exit by a file.
LookAlive ==
    /\ AtProc("alive")
    /\ IF winProc[Stopping] # "running" THEN StopNext
       ELSE StopGoes(IF Stopping = JmxProc THEN "exiting" ELSE "terminate")
    /\ exitFile' = (exitFile \/ (winProc[Stopping] = "running" /\ Stopping = JmxProc))
    /\ UNCHANGED <<winProc, java, running, devnullOpen>> /\ StopUnchanged

\* It ends or it does not, and is looked at once more.
WaitedForExit ==
    /\ AtProc("exiting")
    /\ IF winProc[Stopping] = "running" THEN StopGoes("terminate") ELSE StopNext
    /\ UNCHANGED <<winProc, java, exitFile, running, devnullOpen>> /\ StopUnchanged

\* The java of a process that ends goes on.
Orphaned == [own |-> FALSE, noted |-> java.noted, others |-> java.others + (IF java.own THEN 1 ELSE 0)]
Noted == [own |-> FALSE, noted |-> java.own, others |-> java.others]

\* children() and terminate() raise when the process has ended meanwhile.
TerminateProc ==
    /\ AtProc("terminate")
    /\ IF winProc[Stopping] # "running"
       THEN StopGoes("raised") /\ UNCHANGED <<winProc, java>>
       ELSE /\ winProc' = [winProc EXCEPT ![Stopping] = "dead"]
            /\ java' = IF Stopping = JmxProc THEN Noted ELSE java
            /\ StopGoes("wait")
    /\ UNCHANGED <<exitFile, running, devnullOpen>> /\ StopUnchanged

\* wait() raises when what it waits for is a process just started.
WaitForProc ==
    /\ AtProc("wait")
    /\ StopGoes(IF winProc[Stopping] = "running" THEN "raised" ELSE "kill")
    /\ UNCHANGED <<winProc, java, exitFile, running, devnullOpen>> /\ StopUnchanged

\* Mutant: The children of the process are left.
KillOnly == [IF winProc[Stopping] = "running" /\ Stopping = JmxProc THEN Orphaned ELSE java
                EXCEPT !.noted = FALSE, !.others = java.others + (IF java.noted THEN 1 ELSE 0)]
KillAll == [IF winProc[Stopping] = "running" /\ Stopping = JmxProc THEN Orphaned ELSE java
                EXCEPT !.noted = FALSE]

KillProc ==
    /\ AtProc("kill")
    /\ winProc' = [winProc EXCEPT ![Stopping] = "dead"]
    /\ java' = KillAll
    /\ StopNext
    /\ UNCHANGED <<exitFile, running, devnullOpen>> /\ StopUnchanged

CloseDevnull ==
    /\ AtProc("close")
    /\ devnullOpen' = FALSE
    /\ StopGoes("done")
    /\ UNCHANGED <<winProc, java, exitFile, running>> /\ StopUnchanged

StopStep ==
    \/ LookAlive \/ WaitedForExit \/ TerminateProc \/ WaitForProc \/ KillProc \/ CloseDevnull

-------------------------------------------------------------------------------
(* The processes                                                               *)
ProcUnchanged == UNCHANGED <<settingVars, svcVars, stopVars, flagVars, enabled, restarts, exitFile,
                             begun, late, winNow>>

Dies(n) ==
    /\ winProc[n] = "running" /\ Fault
    /\ winProc' = [winProc EXCEPT ![n] = "dead"]
    /\ java' = IF n = JmxProc THEN Orphaned ELSE java
    /\ ProcUnchanged

JavaBegins ==
    /\ winProc[JmxProc] = "running" /\ ~java.own
    /\ java' = [java EXCEPT !.own = TRUE]
    /\ UNCHANGED <<winProc, faults>> /\ ProcUnchanged

\* Java looks for the exit file at the beginning of each run; jmxfetch.py ends with it.
JavaExits ==
    /\ exitFile
    /\ \/ /\ java.own
          /\ java' = [java EXCEPT !.own = FALSE]
          /\ winProc' = [winProc EXCEPT ![JmxProc] = "dead"]
       \/ java.noted /\ java' = [java EXCEPT !.noted = FALSE] /\ UNCHANGED winProc
       \/ java.others > 0 /\ java' = [java EXCEPT !.others = @ - 1] /\ UNCHANGED winProc
    /\ UNCHANGED faults /\ ProcUnchanged

TimePasses ==
    /\ winNow < MaxTime
    /\ winNow' = winNow + 1
    /\ UNCHANGED <<settingVars, svcVars, stopVars, flagVars, procVars, faults>>

WinNext ==
    \/ Configuring \/ ServiceStep \/ SvcStop \/ StopStep
    \/ JavaBegins \/ JavaExits \/ TimePasses
    \/ \E n \in ProcNames : Dies(n)

\* Both threads run.
WinFairness == WF_winVars(ServiceStep) /\ WF_winVars(StopStep)
WinSpec == WinInit /\ [][WinNext]_winVars /\ WinFairness

-------------------------------------------------------------------------------
Over == svcPc \in {"ended", "raised"}

\* A setting of the registry is there until stackstate.conf has it, whenever the
\* service is killed: unless one before it is missing, or the file has no line for it.
SettingsKept ==
    \A i \in DOMAIN Attributes : LET a == Attributes[i] IN
        given[a] = "value" /\ (\A j \in 1 .. i : given[Attributes[j]] # "missing") /\ a \in Lines =>
            registry[a] = "value" \/ (a \in configFile)

\* When SvcStop() has returned and SvcDoRun() is over, no process is left but one that
\* SvcDoRun() started meanwhile, and no java but one whose process died.
NoneLeft ==
    stopPc = "done" /\ Over =>
        /\ \A n \in ProcNames : winProc[n] = "running" => n \in late
        /\ (JmxProc \notin late /\ faults = 0 => java.others = 0)

\* Within a timeframe, no process is restarted more often than it may be.
RestartsBounded ==
    \A n \in ProcNames : \A t \in 0 .. MaxTime :
        Cardinality({i \in DOMAIN begun[n] : begun[n][i] \in t .. t + Timeframe}) <= MaxRestarts[n]

\* Both threads come to an end once the service is stopped, unless it was stopped
\* before self.running was set.
ServiceEnds == stopPc # "idle" => <>(stopPc \in {"done", "raised"} /\ (Over \/ early))

ServiceSafe == SettingsKept /\ NoneLeft /\ RestartsBounded

\* The service keeps its settings and its processes, and stops them.
ServiceSound == [](ServiceSafe /\ ServiceEnds)
===============================================================================
