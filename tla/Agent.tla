-------------------------------- MODULE Agent --------------------------------
(***************************************************************************)
(* The collector process: the main loop and the configuration reload of    *)
(* agent.py, one run of checks/collector.py (run the checks, emit the      *)
(* payload, commit the checks), the loading of checks of config.py and the *)
(* notifications of service discovery.                                     *)
(*                                                                         *)
(* The process has one thread; signal handlers run between any two of its  *)
(* steps, and configurations and containers change at any time.            *)
(***************************************************************************)
EXTENDS Naturals, FiniteSets, Sequences, SequencesExt

CONSTANTS
    Names,          \* names of checks
    AgentMetrics,   \* AGENT_METRICS_CHECK_NAME
    DockerCheck,    \* docker_daemon, which watches the containers
    MaxEdits,       \* bound: changes of configurations
    MaxSignals      \* bound: signals received

\* Asks for a reload of everything: True in the code, where others are sets of
\* names, so that no check can be meant.
All == "*"

ASSUME AgentAssumption ==
    /\ IsFiniteSet(Names) /\ AgentMetrics \in Names /\ All \notin Names
    /\ DockerCheck \in Names \ {AgentMetrics}
    /\ MaxEdits \in Nat /\ MaxSignals \in Nat

VARIABLES
    config,             \* what load_check() would find for each name
    edits,              \* changes of configurations so far
    events,             \* container events the docker check has not seen yet
    signals,            \* signals received so far
    pc,                 \* where the main thread is
    runForever,         \* run_forever
    continueRunning,    \* Collector.continue_running
    reloadFlag,         \* reload_configs_flag
    sdFlag,             \* sd_backend.reload_check_configs
    refreshing,         \* checks that a partial reload has still to refresh
    checks,             \* initialized_checks, shared by agent and collector
    failed,             \* init_failed_checks
    popped,             \* Collector._agent_metrics is set
    next,               \* the check that the loop at hand comes to next
    emission,           \* what became of the payload of this run
    told,               \* what each check was told of the payload of this run
    more,               \* continue_immediately
    hupAsked,           \* history: a SIGHUP waits for a reload
    sdAsked             \* history: what service discovery waits for: reloads
                        \* of checks, or of All since a container is gone

worldVars  == <<config, edits, events>>
signalVars == <<signals, runForever, continueRunning>>
listVars   == <<checks, failed, popped>>
runVars    == <<next, emission, told, more>>
historyVars == <<hupAsked, sdAsked>>
vars == <<worldVars, signalVars, pc, reloadFlag, sdFlag, refreshing, listVars,
          runVars, historyVars>>

\* Both flags are False, True or a set of checks: {}, {All}, or their names.
Flags == {{}, {All}} \cup (SUBSET Names)
Kinds == {"absent", "valid", "broken"}
Ended == {"exited", "restarting", "crashed"}

NamesOf(seq) == {seq[i].name : i \in 1..Len(seq)}
Positions(n) == {i \in 1..Len(checks) : checks[i].name = n}

\* A check as loaded; an error description may take the place of a check.
Loaded(n) == [name |-> n, usable |-> TRUE, stopped |-> FALSE]
ErrorDict(n) == [name |-> n, usable |-> FALSE, stopped |-> FALSE]

\* load_check_directory(): in the order of a dict
Directory(S) == {[i \in 1..Len(q) |-> Loaded(q[i])] : q \in SetToSeqs(S)}
Valid == {n \in Names : config[n] = "valid"}
Broken == {n \in Names : config[n] = "broken"}

Init ==
    /\ config \in [Names -> Kinds] /\ edits = 0 /\ events = {}
    /\ signals = 0 /\ runForever = TRUE /\ continueRunning = TRUE
    /\ pc = "top" /\ reloadFlag = {} /\ sdFlag = {} /\ refreshing = {}
    /\ checks \in Directory(Valid) /\ failed = Broken /\ popped = FALSE
    /\ next = 1 /\ emission = "none"
    /\ told = [n \in Names |-> "nothing"] /\ more = FALSE
    /\ hupAsked = FALSE /\ sdAsked = {}

-----------------------------------------------------------------------------
(* Agent.run(), top of the loop *)

Goto(from, to) == pc = from /\ pc' = to

\* Mutant: the loop does not look at run_forever.
NeverLeaves == TRUE
Stays == runForever

LoopEnds ==
    /\ Goto("top", "exited") /\ ~Stays
    /\ UNCHANGED <<worldVars, signalVars, reloadFlag, sdFlag, refreshing,
                   listVars, runVars, historyVars>>

NoReload ==
    /\ Goto("top", "collect") /\ Stays /\ reloadFlag = {}
    /\ UNCHANGED <<worldVars, signalVars, reloadFlag, sdFlag, refreshing,
                   listVars, runVars, historyVars>>

\* reload_configs() of everything: the checks are stopped and loaded anew.
FullReload ==
    /\ Goto("top", "collect") /\ Stays /\ reloadFlag = {All}
    /\ checks' \in Directory(Valid) /\ failed' = Broken
    /\ hupAsked' = FALSE /\ sdAsked' = {}
    /\ UNCHANGED <<worldVars, signalVars, reloadFlag, sdFlag, refreshing,
                   popped, runVars>>

PartialReload ==
    /\ Goto("top", "refresh") /\ Stays /\ reloadFlag \in (SUBSET Names) \ {{}}
    /\ refreshing' = reloadFlag
    /\ UNCHANGED <<worldVars, signalVars, reloadFlag, sdFlag, listVars, runVars,
                   historyVars>>

-----------------------------------------------------------------------------
(* refresh_specific_checks(), one check *)

NoError == \A i \in 1..Len(checks) : checks[i].usable

Refreshing(n) ==
    /\ pc = "refresh" /\ n \in refreshing
    /\ refreshing' = refreshing \ {n}
    /\ sdAsked' = sdAsked \ {n}
    /\ UNCHANGED <<worldVars, signalVars, reloadFlag, sdFlag, popped, runVars,
                   hupAsked>>

\* The check that runs is stopped before its configuration is looked up.
Stopped(n) ==
    [i \in 1..Len(checks) |-> IF checks[i].name = n
                              THEN [checks[i] EXCEPT !.stopped = TRUE]
                              ELSE checks[i]]

\* A check that failed to load is forgotten, unless it is found in the list.
ForgetFailure(n) ==
    failed' = IF Positions(n) \ {1} = {} THEN failed \ {n} ELSE failed

\* Mutant: a check at the head of the list is taken as missing.
PutBehind(n, check) ==
    checks' = IF Positions(n) \ {1} # {}
              THEN [i \in 1..Len(checks) |-> IF checks[i].name = n
                                             THEN check ELSE checks[i]]
              ELSE Append(Stopped(n), check)

Put(n, check) ==
    checks' = IF Positions(n) # {}
              THEN [i \in 1..Len(checks) |-> IF checks[i].name = n
                                             THEN check ELSE checks[i]]
              ELSE Append(checks, check)

RefreshValid(n) ==
    /\ Refreshing(n) /\ NoError /\ config[n] = "valid"
    /\ Put(n, Loaded(n))
    /\ ForgetFailure(n)
    /\ UNCHANGED pc

\* The configuration is gone: the check goes too, unless it is the first one.
RefreshAbsent(n) ==
    /\ Refreshing(n) /\ NoError /\ config[n] = "absent"
    /\ checks' = IF Positions(n) \ {1} # {}
                 THEN RemoveAt(checks, CHOOSE i \in Positions(n) : TRUE)
                 ELSE Stopped(n)
    /\ ForgetFailure(n)
    /\ UNCHANGED pc

\* The error is not recognized as one and is taken for the check.
RefreshBroken(n) ==
    /\ Refreshing(n) /\ NoError /\ config[n] = "broken"
    /\ Put(n, ErrorDict(n))
    /\ ForgetFailure(n)
    /\ UNCHANGED pc

\* load_check() raises if a check configured by a file cannot be created, and
\* an error in the place of a check has no name.
RefreshRaises(n) ==
    /\ Refreshing(n) /\ (config[n] = "broken" \/ ~NoError)
    /\ pc' = "crashed"
    /\ UNCHANGED <<checks, failed>>

RefreshDone ==
    /\ Goto("refresh", "collect") /\ refreshing = {}
    /\ UNCHANGED <<worldVars, signalVars, reloadFlag, sdFlag, refreshing,
                   listVars, runVars, historyVars>>

-----------------------------------------------------------------------------
(* Collector.run() *)

MustPop == ~popped \/ reloadFlag # {}

FirstOf(S) == CHOOSE i \in S : \A j \in S : i <= j

\* An error in the place of a check has no name: the search fails there.
PopFails ==
    /\ MustPop
    /\ \E i \in 1..Len(checks) :
        ~checks[i].usable /\ \A j \in Positions(AgentMetrics) : i <= j

CollectBegin ==
    /\ pc = "collect" /\ ~PopFails
    /\ pc' = "run"
    /\ IF MustPop /\ Positions(AgentMetrics) # {}
       THEN checks' = RemoveAt(checks, FirstOf(Positions(AgentMetrics))) /\ popped' = TRUE
       ELSE UNCHANGED <<checks, popped>>
    /\ next' = 1 /\ emission' = "none" /\ more' = FALSE
    /\ told' = [n \in Names |-> "nothing"]
    /\ UNCHANGED <<worldVars, signalVars, reloadFlag, sdFlag, refreshing, failed,
                   historyVars>>

\* An exception of Collector.run(), or its result when it was told to stop,
\* which the agent cannot unpack, ends the agent.
CollectRaises ==
    /\ \/ pc = "collect" /\ PopFails
       \/ pc = "run" /\ next <= Len(checks)
          /\ (~continueRunning \/ ~checks[next].usable)
       \/ pc = "run" /\ next > Len(checks) /\ failed # {} /\ ~continueRunning
    /\ pc' = "crashed"
    /\ UNCHANGED <<worldVars, signalVars, reloadFlag, sdFlag, refreshing,
                   listVars, runVars, historyVars>>

CanRun == pc = "run" /\ next <= Len(checks) /\ continueRunning /\ checks[next].usable

RunCheck ==
    /\ CanRun
    /\ next' = next + 1
    /\ UNCHANGED <<worldVars, signalVars, pc, reloadFlag, sdFlag, refreshing,
                   listVars, emission, told, more, historyVars>>

\* update_checks(): the checks named replace a full reload asked for before.
ReloadsFor(changes) == IF changes \ {All} # {} THEN changes \ {All} ELSE {All}

\* The docker check hands the container events over to service discovery.
RunDockerCheck ==
    /\ CanRun /\ checks[next].name = DockerCheck /\ events # {}
    /\ next' = next + 1
    /\ sdFlag' = ReloadsFor(events)
    /\ sdAsked' = sdAsked \cup events
    /\ events' = {}
    /\ UNCHANGED <<config, edits, signalVars, pc, reloadFlag, refreshing, listVars,
                   emission, told, more, hupAsked>>

RunDone ==
    /\ Goto("run", "emit") /\ next > Len(checks)
    /\ failed # {} => continueRunning
    /\ UNCHANGED <<worldVars, signalVars, reloadFlag, sdFlag, refreshing,
                   listVars, runVars, historyVars>>

\* AgentPayload.emit(): the payload is sent or an emitter fails; no emitter is
\* called once the collector was told to stop.
Emit ==
    /\ Goto("emit", "commit")
    /\ emission' \in IF continueRunning THEN {"sent", "failed"} ELSE {"skipped"}
    /\ next' = 1
    /\ UNCHANGED <<worldVars, signalVars, reloadFlag, sdFlag, refreshing,
                   listVars, told, more, historyVars>>

\* No emitter reported an error.
EmitSuccess == emission # "failed"

\* Mutant: a payload that failed is told as sent.
TellSuccess == "success"
Tell == IF EmitSuccess THEN "success" ELSE "failure"

\* commit_success() is not called once a check has more data.
CommitCheck ==
    /\ pc = "commit" /\ next <= Len(checks)
    /\ next' = next + 1
    /\ told' = IF EmitSuccess /\ more THEN told
               ELSE [told EXCEPT ![checks[next].name] = Tell]
    /\ more' \in IF EmitSuccess /\ ~more THEN BOOLEAN ELSE {more}
    /\ UNCHANGED <<worldVars, signalVars, pc, reloadFlag, sdFlag, refreshing,
                   listVars, emission, historyVars>>

\* All the checks are told, or one of them raised an error.
CommitDone ==
    /\ Goto("commit", "after")
    /\ next' = 1
    /\ UNCHANGED <<worldVars, signalVars, reloadFlag, sdFlag, refreshing,
                   listVars, emission, told, more, historyVars>>

-----------------------------------------------------------------------------
(* Agent.run(), bottom of the loop *)

ResetFlag ==
    /\ Goto("after", "crawl")
    /\ reloadFlag' = {}
    /\ UNCHANGED <<worldVars, signalVars, sdFlag, refreshing, listVars, runVars,
                   historyVars>>

\* Mutant: only a full reload is picked up.
PickUpFull(flag) == reloadFlag' = IF flag = {All} THEN flag ELSE reloadFlag
PickUp(flag) == reloadFlag' = IF flag # {} THEN flag ELSE reloadFlag

\* The store of templates is crawled unless a reload is to come already.
Crawl ==
    /\ Goto("crawl", "sleep")
    /\ \E flag \in IF sdFlag = {} THEN {{}, {All}} ELSE {sdFlag} : PickUp(flag)
    /\ sdFlag' = {}
    /\ UNCHANGED <<worldVars, signalVars, refreshing, listVars, runVars,
                   historyVars>>

\* Collector.stop(): the checks of its last run are stopped, which are no longer
\* those of the agent when a full reload has just made new ones.
StopCollector ==
    /\ continueRunning' = FALSE
    /\ \E known \in {{}, 1..Len(checks)} :
        checks' = [i \in 1..Len(checks) |->
                    [checks[i] EXCEPT !.stopped = @ \/ i \in known]]

\* _should_restart(): the agent restarts at regular intervals.
AutoRestart ==
    /\ Goto("sleep", "restarting")
    /\ StopCollector
    /\ UNCHANGED <<worldVars, signals, runForever, reloadFlag, sdFlag, refreshing,
                   failed, popped, runVars, historyVars>>

Sleep ==
    /\ Goto("sleep", "top")
    /\ UNCHANGED <<worldVars, signalVars, reloadFlag, sdFlag, refreshing,
                   listVars, runVars, historyVars>>

-----------------------------------------------------------------------------
(* Signals and changes *)

Signal == pc \notin Ended /\ signals < MaxSignals /\ signals' = signals + 1

HandleSigterm ==
    /\ Signal
    /\ runForever' = FALSE /\ StopCollector
    /\ UNCHANGED <<worldVars, pc, reloadFlag, sdFlag, refreshing, failed, popped,
                   runVars, historyVars>>

\* SIGUSR1 stops and exits from the handler.
HandleSigusr1 ==
    /\ Signal
    /\ runForever' = FALSE /\ StopCollector
    /\ pc' = "restarting"
    /\ UNCHANGED <<worldVars, reloadFlag, sdFlag, refreshing, failed, popped,
                   runVars, historyVars>>

HandleSighup ==
    /\ Signal
    /\ reloadFlag' = {All}
    /\ hupAsked' = TRUE
    /\ UNCHANGED <<worldVars, runForever, continueRunning, pc, sdFlag, refreshing,
                   listVars, runVars, sdAsked>>

Edit(n, kind) ==
    /\ pc \notin Ended /\ edits < MaxEdits /\ edits' = edits + 1
    /\ config' = [config EXCEPT ![n] = kind]
    /\ UNCHANGED <<signalVars, pc, reloadFlag, sdFlag, refreshing, listVars,
                   runVars, historyVars>>

EditFile(n, kind) == Edit(n, kind) /\ UNCHANGED events

\* A container starts, stops or changes; its checks are known.
ContainerEvent(n, kind) == Edit(n, kind) /\ events' = events \cup {n}

\* A container is removed: its checks cannot be told.
ContainerGone(n) == Edit(n, "absent") /\ events' = events \cup {All}

Environment ==
    \/ HandleSigterm \/ HandleSigusr1 \/ HandleSighup
    \/ (\E n \in Names, kind \in Kinds : EditFile(n, kind))
    \/ (\E n \in Names, kind \in Kinds : ContainerEvent(n, kind))
    \/ (\E n \in Names : ContainerGone(n))

MainThread ==
    \/ LoopEnds \/ NoReload \/ FullReload \/ PartialReload
    \/ (\E n \in Names : RefreshValid(n)) \/ (\E n \in Names : RefreshAbsent(n))
    \/ (\E n \in Names : RefreshBroken(n)) \/ (\E n \in Names : RefreshRaises(n))
    \/ RefreshDone
    \/ CollectBegin \/ CollectRaises \/ RunCheck \/ RunDockerCheck \/ RunDone
    \/ Emit \/ CommitCheck \/ CommitDone
    \/ ResetFlag \/ Crawl \/ AutoRestart \/ Sleep

Next == MainThread \/ Environment

Spec == Init /\ [][Next]_vars

\* The main thread always goes on.
FairSpec == Spec /\ WF_vars(MainThread)

-----------------------------------------------------------------------------
(* Properties *)

TypeOK ==
    /\ config \in [Names -> Kinds] /\ edits \in Nat /\ signals \in Nat
    /\ events \subseteq Names \cup {All}
    /\ pc \in Ended \cup {"top", "refresh", "collect", "run", "emit", "commit",
                          "after", "crawl", "sleep"}
    /\ runForever \in BOOLEAN /\ continueRunning \in BOOLEAN
    /\ reloadFlag \in Flags /\ sdFlag \in Flags /\ refreshing \subseteq Names
    /\ NamesOf(checks) \cup failed \subseteq Names /\ popped \in BOOLEAN
    /\ next \in 1..(Len(checks) + 1)
    /\ emission \in {"none", "sent", "failed", "skipped"}
    /\ told \in [Names -> {"nothing", "success", "failure"}]
    /\ {more, hupAsked} \subseteq BOOLEAN /\ sdAsked \subseteq Names \cup {All}

\* Whatever reloads, full or partial, interrupt one another, a check is in one
\* place: once in the list of checks or once among those that failed to load.
ListedOnce ==
    /\ \A i, j \in 1..Len(checks) : checks[i].name = checks[j].name => i = j
    /\ NamesOf(checks) \cap failed = {}

\* The agent metrics check, which must run after the others, is not in the list
\* while the checks run, although every reload puts it back.
MetricsApart == pc \in {"run", "emit", "commit"} => AgentMetrics \notin NamesOf(checks)

\* initialized_checks and init_failed_checks, which the main loop and the
\* collector both change, stay a partition of the checks in every reload.
ListsConsistent == TypeOK /\ ListedOnce /\ MetricsApart

\* A check is told of success only if the payload was sent, or nobody tried to
\* send it since the agent stops; all checks are told the same.
SuccessMeansSent ==
    \A n \in Names :
        /\ told[n] = "success" => emission = "sent" \/ ~continueRunning
        /\ told[n] = "failure" => emission = "failed"

\* What service discovery asked for is reloaded before the next run, by a
\* partial reload or a full one, whatever the signals asked for meanwhile.
AskedReloads ==
    [][pc = "top" =>
        /\ pc' = "collect" => sdAsked' \subseteq {All}
        /\ pc' = "refresh" => sdAsked \subseteq refreshing' \cup {All}]_vars

\* Whatever it is doing, an agent that is told to stop ends.
TermEnds == ~runForever ~> pc \in Ended

\* What the collector keeps of the checks, and what it tells them, is so.
ChecksSound == ListsConsistent /\ SuccessMeansSent

\* No signal is lost on another one: the reload that was asked for comes before the
\* next run, and the end that was asked for comes.
SignalsObeyed == AskedReloads /\ TermEnds

-----------------------------------------------------------------------------
(* What the comments of the code say *)

\* agent.py:170, "disable the check if no new config was found": a check that was
\* stopped for good is not run again.
StoppedNotRun == CanRun => ~checks[next].stopped

\* agent.py:188, "checks that failed to load are added to init_failed_checks and
\* poped from initialized_checks": the list holds checks only.
FailedNotListed == \A i \in 1..Len(checks) : checks[i].usable

\* agent.py:119, "Scheduling configuration reload before next collection run."
HupReloads == [][pc = "top" /\ pc' = "collect" /\ hupAsked => ~hupAsked']_vars

\* sd_docker_backend.py:146, "If the container was removed we can't tell which
\* check is concerned so we have to reload everything."
GoneReloadsAll ==
    [][pc = "top" /\ pc' \in {"collect", "refresh"} => All \notin sdAsked']_vars

\* agent.py:105, "gracefully stops the agent": it does not die of an exception.
StopsGracefully == ~runForever => pc # "crashed"

\* checks/__init__.py:798, "The collector uses this function to report to the
\* check that the data it produced was committed": every check is told.
AllTold ==
    pc = "commit" /\ next > Len(checks) /\ emission = "sent"
        => \A n \in NamesOf(checks) : told[n] = "success"

\* collector.py:523, "Commit the checks when emission succeeded": what was not
\* sent is not committed.
CommittedIfSent == \A n \in Names : told[n] = "success" => emission = "sent"
=============================================================================
